-------------------------- MODULE WalletLandingProofs -------------------------
(*****************************************************************************)
(* FreshListLands, for every value of the constants of Wallet: what a        *)
(* builder makes of the chain lands on that chain exactly when no documented *)
(* refusal applies.                                                          *)
(*                                                                           *)
(* A list is a prelude of account creations and the instruction it is for.   *)
(* Opened says what a prelude does: accounts, no balances.  Each trade has a *)
(* lemma (...Outcome) that says exactly when its program takes it, and each  *)
(* builder one (...Lands) that puts the two together.  FeesOpen is the one   *)
(* fact of the history these need: a listed fee recipient's accounts are     *)
(* open, because the only account a transaction closes is the user's own.    *)
(*****************************************************************************)
EXTENDS WalletProofs

(* ---- preludes ---- *)
Opened(w, v, accounts) ==
  /\ LedgerOnly(w, v)
  /\ DOMAIN v.ledger = DOMAIN w.ledger \cup accounts
  /\ \A a : Bal(v, a) = Bal(w, a)

Creates(ix) == ix.op = "create_ata" /\ ix.a.program = ProgramOf(ix.a.mint)
Prelude(list) == IsSeq(list) /\ \A i \in DOMAIN list : Creates(list[i])
Openings(list) == {list[i].a.account : i \in DOMAIN list}

LEMMA PreludeNone ==
  Prelude(<<>>) /\ Openings(<<>>) = {}
BY FitsNone DEF Prelude, Openings, Fits

LEMMA PreludeOne ==
  ASSUME NEW payer, NEW owner, NEW mint, NEW program, program = ProgramOf(mint)
  PROVE  LET list == <<CreateAta(payer, owner, mint, program)>>
         IN  Prelude(list) /\ Openings(list) = {AssociatedToken(owner, program, mint)}
<1> DEFINE ix == CreateAta(payer, owner, mint, program)
           list == <<ix>>
<1>1. Creates(ix) /\ ix.a.account = AssociatedToken(owner, program, mint)
  BY DEF Creates, CreateAta, Ix
<1>2. IsSeq(list)
  BY KnownCreateAta, FitsOne DEF Fits
<1> HIDE DEF ix
<1>3. DOMAIN list = {1} /\ list[1] = ix
  OBVIOUS
<1> HIDE DEF list
<1> QED BY <1>1, <1>2, <1>3 DEF Prelude, Openings, list, ix

LEMMA PreludeConcat ==
  ASSUME NEW l, NEW m, Prelude(l), Prelude(m)
  PROVE  Prelude(l \o m) /\ Openings(l \o m) = Openings(l) \cup Openings(m)
<1> DEFINE c == l \o m
<1>1. /\ IsSeq(c) /\ Len(l) \in Nat /\ Len(m) \in Nat
      /\ DOMAIN l = 1..Len(l) /\ DOMAIN m = 1..Len(m)
      /\ DOMAIN c = 1..(Len(l) + Len(m))
      /\ \A i \in DOMAIN l : c[i] = l[i]
      /\ \A i \in DOMAIN m : c[Len(l) + i] = m[i]
  BY IsSeqConcat DEF Prelude
<1> HIDE DEF c
<1>2. \A i \in DOMAIN c : \/ i \in DOMAIN l /\ c[i] = l[i]
                          \/ i - Len(l) \in DOMAIN m /\ c[i] = m[i - Len(l)]
  <2> TAKE i \in DOMAIN c
  <2>1. CASE i <= Len(l)
    BY <1>1, <2>1
  <2>2. CASE ~(i <= Len(l))
    <3>1. i - Len(l) \in DOMAIN m /\ Len(l) + (i - Len(l)) = i
      BY <1>1, <2>2
    <3> QED BY <1>1, <3>1
  <2> QED BY <2>1, <2>2
<1>3. Prelude(c)
  BY <1>1, <1>2 DEF Prelude
<1>4. Openings(c) \subseteq Openings(l) \cup Openings(m)
  BY <1>2 DEF Openings
<1>5. \A i \in DOMAIN l : i \in DOMAIN c
  BY <1>1
<1>6. \A i \in DOMAIN m : Len(l) + i \in DOMAIN c
  BY <1>1
<1>7. Openings(l) \cup Openings(m) \subseteq Openings(c)
  BY <1>1, <1>5, <1>6 DEF Openings
<1> QED BY <1>3, <1>4, <1>7 DEF c

LEMMA OpenedNothing ==
  ASSUME NEW w, World(w)
  PROVE  Opened(w, w, {})
BY DEF Opened, LedgerOnly

LEMMA OpenedThrough ==
  ASSUME NEW u, NEW v, NEW w, NEW A, NEW B, Opened(u, v, A), Opened(v, w, B)
  PROVE  Opened(u, w, A \cup B)
<1>1. LedgerOnly(u, w)
  BY DEF Opened, LedgerOnly
<1>2. DOMAIN w.ledger = DOMAIN u.ledger \cup (A \cup B)
  BY DEF Opened
<1> QED BY <1>1, <1>2 DEF Opened

LEMMA CreateOpens ==
  ASSUME NEW w, World(w), w.err = "none", NEW ix, Creates(ix)
  PROVE  Opened(w, Step(w, ix), {ix.a.account})
<1> DEFINE v == Credit(w, ix.a.account, 0)
<1>1. Step(w, ix) = v
  BY Dispatch DEF Step, Creates, ExecCreateAta, Refuse
<1>2. /\ LedgerOnly(w, v) /\ DOMAIN v.ledger = DOMAIN w.ledger \cup {ix.a.account}
      /\ \A a : Bal(v, a) = Bal(w, a) + IF a = ix.a.account THEN 0 ELSE 0
  BY Credits
<1>3. \A a : Bal(w, a) \in Nat
  BY BalNat
<1> HIDE DEF v
<1> QED BY <1>1, <1>2, <1>3 DEF Opened

LEMMA PreludeOpens ==
  ASSUME NEW w, World(w), w.err = "none", NEW list, Prelude(list)
  PROVE  Opened(w, Run(w, list), Openings(list))
<1> DEFINE n == Len(list)
           P == Trace(w, list)
           First(i) == {list[j].a.account : j \in 1..i}
           Good == {i \in 0..n : Opened(w, P[i], First(i))}
<1>1. n \in Nat /\ DOMAIN list = 1..n
  BY LenProperties DEF Prelude, IsSeq
<1>2. P[0] = w /\ \A i \in 1..n : P[i] = Step(P[i - 1], list[i])
  BY <1>1, RunSteps
<1> HIDE DEF P, n
<1>3. 0 \in Good
  <2>1. First(0) = {}
    OBVIOUS
  <2> HIDE DEF First
  <2>2. Opened(w, P[0], First(0))
    BY <1>2, <2>1, OpenedNothing
  <2>3. 0 \in 0..n
    BY <1>1
  <2> QED BY <2>2, <2>3
<1>4. ASSUME NEW i \in 1..n, i - 1 \in Good PROVE i \in Good
  <2> DEFINE v == P[i - 1]
             u == P[i]
  <2>1. Opened(w, v, First(i - 1)) /\ u = Step(v, list[i])
    BY <1>2, <1>4
  <2>2. Creates(list[i])
    BY <1>1 DEF Prelude
  <2> HIDE DEF u, v
  <2>3. World(v) /\ v.err = "none"
    BY <2>1 DEF Opened, LedgerOnly
  <2>4. Opened(v, u, {list[i].a.account})
    BY <2>1, <2>2, <2>3, CreateOpens
  <2>5. First(i) = First(i - 1) \cup {list[i].a.account}
    <3>1. \A j : j \in 1..i <=> j \in 1..(i - 1) \/ j = i
      BY <1>1
    <3> QED BY <3>1
  <2> HIDE DEF First
  <2>6. Opened(w, u, First(i))
    BY <2>1, <2>4, <2>5, OpenedThrough
  <2> QED BY <1>1, <2>6 DEF u
<1> HIDE DEF Good
<1>5. \A i \in 0..n : i \in Good
  BY <1>1, <1>3, <1>4, Along
<1>6. First(n) = Openings(list)
  BY <1>1 DEF Openings
<1> HIDE DEF First
<1>7. Opened(w, P[n], First(n))
  <2>1. n \in 0..n
    BY <1>1
  <2> QED BY <1>5, <2>1 DEF Good
<1> QED BY <1>6, <1>7 DEF Run, P, n

(* What is the same when only the ledger differs, and after a prelude. *)
LEMMA LedgerSame ==
  ASSUME NEW w, Sound(w), w.err = "none", NEW v, LedgerOnly(w, v)
  PROVE  /\ Sound(v) /\ v.err = "none"
         /\ v.curve = w.curve /\ v.pool = w.pool /\ v.price = w.price
         /\ v.shareholders = w.shareholders
         /\ FeesAt(v) = FeesAt(w) /\ Cost(v) = Cost(w) /\ Proceeds(v) = Proceeds(w)
         /\ Quote(v) = Quote(w) /\ PoolKey(v) = PoolKey(w) /\ CurvePurse(v) = CurvePurse(w)
         /\ \A p : QuoteAta(v, p) = QuoteAta(w, p)
<1>1. /\ v.curve = w.curve /\ v.pool = w.pool /\ v.price = w.price /\ v.err = w.err
      /\ v.shareholders = w.shareholders
  BY DEF LedgerOnly
<1>2. Sound(v)
  BY LedgerOnlySound
<1>3. FeesAt(v) = FeesAt(w) /\ Quote(v) = Quote(w)
  BY <1>1 DEF FeesAt, Quote
<1>4. Cost(v) = Cost(w) /\ Proceeds(v) = Proceeds(w)
  BY <1>1, <1>3 DEF Cost, Proceeds, TotalFees
<1>5. PoolKey(v) = PoolKey(w) /\ CurvePurse(v) = CurvePurse(w)
      /\ \A p : QuoteAta(v, p) = QuoteAta(w, p)
  BY <1>3 DEF PoolKey, CurvePurse, QuoteAta
<1> QED BY <1>1, <1>2, <1>3, <1>4, <1>5

LEMMA OpenedSame ==
  ASSUME NEW w, Sound(w), w.err = "none", NEW v, NEW accounts, Opened(w, v, accounts)
  PROVE  /\ Sound(v) /\ v.err = "none"
         /\ v.curve = w.curve /\ v.pool = w.pool /\ v.price = w.price
         /\ v.shareholders = w.shareholders
         /\ FeesAt(v) = FeesAt(w) /\ Cost(v) = Cost(w) /\ Proceeds(v) = Proceeds(w)
         /\ Quote(v) = Quote(w) /\ PoolKey(v) = PoolKey(w) /\ CurvePurse(v) = CurvePurse(w)
         /\ \A p : QuoteAta(v, p) = QuoteAta(w, p)
         /\ \A a : Bal(v, a) = Bal(w, a)
         /\ \A a : Has(v, a) <=> Has(w, a) \/ a \in accounts
<1>1. LedgerOnly(w, v)
  BY DEF Opened
<1>2. /\ \A a : Bal(v, a) = Bal(w, a)
      /\ \A a : Has(v, a) <=> Has(w, a) \/ a \in accounts
  BY DEF Opened, Has
<1> QED BY <1>1, <1>2, LedgerSame

(* A list that is a prelude and one instruction. *)
LEMMA RunAfter ==
  ASSUME NEW w, Sound(w), w.err = "none", NEW pre, Prelude(pre), NEW ix
  PROVE  LET v == Run(w, pre)
         IN  Opened(w, v, Openings(pre)) /\ Run(w, pre \o <<ix>>) = Exec(v, ix)
<1> DEFINE v == Run(w, pre)
<1>1. Opened(w, v, Openings(pre))
  BY PreludeOpens DEF Sound
<1>2. v.err = "none"
  BY <1>1, OpenedSame
<1>3. IsSeq(<<ix>>)
  <2>1. DOMAIN <<ix>> = {1} /\ <<ix>>[1] = ix
    OBVIOUS
  <2>2. ix \in ToSet(<<ix>>)
    BY <2>1 DEF ToSet
  <2> QED BY <2>2 DEF IsSeq
<1>4. Run(w, pre \o <<ix>>) = Run(v, <<ix>>)
  BY <1>3, RunConcat DEF Prelude
<1> HIDE DEF v
<1>5. Run(v, <<ix>>) = Exec(v, ix)
  BY <1>2, RunOne DEF Step
<1> QED BY <1>1, <1>4, <1>5 DEF v

(* ---- a trade ---- *)
(* What a trade wants: accounts, limit and funds. *)
Willing(w, ix, buying, needed, base, purse) ==
  /\ \A a \in needed \cup {base} : Has(w, a)
  /\ ~LimitBroken(w, ix, buying)
  /\ IF buying THEN Bal(w, purse) >= Cost(w) ELSE Bal(w, base) >= 1

LEMMA Worth ==
  ASSUME NEW w, Sound(w)
  PROVE  /\ w.price \in Nat /\ Cost(w) \in Nat /\ Cost(w) > 0
         /\ Proceeds(w) \in Nat /\ Proceeds(w) > 0
<1>1. w.price \in Nat /\ w.price > 2
  BY WalletAssumption DEF Sound
<1> QED BY <1>1 DEF Cost, Proceeds, TotalFees, FeesAt

LEMMA Refusals ==
  ASSUME NEW w, DOMAIN w = Fields, NEW condition, NEW error, error # "none", NEW rest
  PROVE  Refuse(w, condition, error, rest).err = "none" <=> ~condition /\ rest.err = "none"
BY DEF Refuse, Fields

LEMMA TradeOutcome ==
  ASSUME NEW w, Sound(w), w.err = "none", NEW ix, NEW buying \in BOOLEAN, NEW needed,
         NEW base, NEW purse, NEW payments, Payable(payments)
  PROVE  LET t == Trade(w, ix, buying, needed, base, purse, payments)
         IN  /\ t.err = "none" <=> Willing(w, ix, buying, needed, base, purse)
             /\ t.err = "none" => DOMAIN t = Fields
<1> DEFINE missing == \E a \in needed \cup {base} : ~Has(w, a)
           broken == LimitBroken(w, ix, buying)
           short == IF buying THEN Bal(w, purse) < Cost(w) ELSE Bal(w, base) < 1
           t == IF buying THEN Bought(w, base, purse) ELSE Sold(w, base, purse)
           paid == Pay(t, payments)
<1>1. World(w) /\ DOMAIN w = Fields /\ \A a : Bal(w, a) \in Nat
  BY BalNat DEF Sound, World
<1>2. Trade(w, ix, buying, needed, base, purse, payments)
        = Refuse(w, missing, "AccountNotInitialized",
          Refuse(w, broken, "SlippageExceeded",
          Refuse(w, short, "InsufficientFunds", paid)))
  BY Zenon DEF Trade
<1>3. w.price \in Nat /\ Cost(w) \in Nat /\ Proceeds(w) \in Nat
  BY Worth
<1>4. ASSUME ~short PROVE paid.err = "none" /\ DOMAIN paid = Fields
  <2>1. LedgerOnly(w, t)
    <3>1. CASE buying
      <4>1. Bal(w, purse) >= Cost(w)
        BY <1>1, <1>3, <1>4, <3>1
      <4>2. LedgerOnly(w, Bought(w, base, purse))
        BY <1>1, <1>3, <4>1, Boughts
      <4> QED BY <3>1, <4>2
    <3>2. CASE ~buying
      <4>1. Bal(w, base) >= 1
        BY <1>1, <1>4, <3>2
      <4>2. LedgerOnly(w, Sold(w, base, purse))
        BY <1>1, <1>3, <4>1, Solds
      <4> QED BY <3>2, <4>2
    <3> QED BY <3>1, <3>2
  <2> HIDE DEF t
  <2>2. LedgerOnly(t, paid)
    BY <2>1, Pays DEF Payable, LedgerOnly
  <2> QED BY <2>1, <2>2 DEF LedgerOnly, World
<1>5. short <=> ~(IF buying THEN Bal(w, purse) >= Cost(w) ELSE Bal(w, base) >= 1)
  BY <1>1, <1>3
<1>6. Willing(w, ix, buying, needed, base, purse) <=> ~missing /\ ~broken /\ ~short
  BY <1>5 DEF Willing
<1> HIDE DEF missing, broken, short, paid
<1>7. CASE missing
  BY <1>1, <1>2, <1>6, <1>7, Zenon DEF Refuse, Fields
<1>8. CASE ~missing /\ broken
  BY <1>1, <1>2, <1>6, <1>8, Zenon DEF Refuse, Fields
<1>9. CASE ~missing /\ ~broken /\ short
  BY <1>1, <1>2, <1>6, <1>9, Zenon DEF Refuse, Fields
<1>10. CASE ~missing /\ ~broken /\ ~short
  BY <1>2, <1>4, <1>6, <1>10, Zenon DEF Refuse
<1> QED BY <1>7, <1>8, <1>9, <1>10

LEMMA KeptOutcome ==
  ASSUME NEW w, NEW t, t.err = "none" => DOMAIN t = Fields
  PROVE  /\ KeepOnCurve(w, t).err = "none" <=> t.err = "none"
         /\ KeepInPool(w, t).err = "none" <=> t.err = "none"
BY DEF KeepOnCurve, KeepInPool, Fields

(* ---- the trades of a curve ---- *)
V2Needs(w, recipient) ==
  IF Quote(w) = NATIVE_MINT THEN {}
  ELSE {QuoteAta(w, User), QuoteAta(w, recipient), QuoteAta(w, BondingCurvePda(Mint))}
       \cup (IF w.curve.is_cashback_coin
             THEN {QuoteAta(w, UserVolumeAccumulator(User))} ELSE {})

LEMMA CurveV2Outcome ==
  ASSUME NEW w, Sound(w), w.err = "none", w.curve.exists, ~w.curve.complete,
         NEW fee \in FeeRecipients(PumpGlobal, w.curve.is_mayhem_mode),
         NEW buyback \in BuybackFeeRecipients(PumpGlobal),
         NEW q, ResolveQuoteMint(q) = Quote(w),
         NEW ix, ix.a = V2TradeAccounts(k, q, w.curve.creator, fee, buyback)
  PROVE  ExecCurveV2(w, ix).err = "none"
           <=> Willing(w, ix, ix.op \notin Sells, V2Needs(w, fee), BaseAta(User), CurvePurse(w))
<1> DEFINE a == ix.a
           f == FeesAt(w)
           native == Quote(w) = NATIVE_MINT
           buying == ix.op \notin Sells
           Acct(wallet, ata) == IF native THEN wallet ELSE ata
           cashback == Acct(a.user_volume_accumulator, a.associated_user_volume_accumulator)
           needed == IF native THEN {}
                     ELSE {a.associated_quote_user, a.associated_quote_fee_recipient,
                           a.associated_quote_bonding_curve}
                          \cup (IF w.curve.is_cashback_coin THEN {cashback} ELSE {})
           paid == Acct(a.fee_recipient, a.associated_quote_fee_recipient)
           back == Acct(a.buyback_fee_recipient, a.associated_quote_buyback_fee_recipient)
           creator == IF w.curve.is_cashback_coin THEN cashback
                      ELSE Acct(a.creator_vault, a.associated_creator_vault)
           purse == Acct(a.user, a.associated_quote_user)
           payments == <<<<paid, f.protocol>>, <<back, f.buyback>>, <<creator, f.creator>>>>
           T == Trade(w, ix, buying, needed, a.associated_base_user, purse, payments)
<1>1. /\ a.bonding_curve = BondingCurvePda(Mint) /\ a.quote_mint = Quote(w)
      /\ a.creator_vault = CreatorVault(w.curve.creator)
      /\ a.fee_recipient = fee /\ a.buyback_fee_recipient = buyback /\ a.user = User
      /\ a.associated_base_user = BaseAta(User)
      /\ a.associated_quote_user = QuoteAta(w, User)
      /\ a.associated_quote_fee_recipient = QuoteAta(w, fee)
      /\ a.associated_quote_bonding_curve = QuoteAta(w, BondingCurvePda(Mint))
      /\ a.associated_user_volume_accumulator = QuoteAta(w, UserVolumeAccumulator(User))
  BY DEF V2TradeAccounts, k, BaseAta, QuoteAta
<1>2. needed = V2Needs(w, fee) /\ purse = CurvePurse(w)
  BY <1>1 DEF V2Needs, CurvePurse
<1>3. Payable(payments)
  BY FeePayments
<1>4. ExecCurveV2(w, ix) = T
  BY <1>1, Zenon DEF ExecCurveV2, OnCurve, Refuse
<1>5. buying \in BOOLEAN
  OBVIOUS
<1> HIDE DEF needed, purse, payments, buying
<1>6. T.err = "none" <=> Willing(w, ix, buying, needed, a.associated_base_user, purse)
  BY <1>3, <1>5, TradeOutcome
<1> QED BY <1>1, <1>2, <1>4, <1>6 DEF buying

LEMMA LegacyOutcome ==
  ASSUME NEW w, Sound(w), w.err = "none", w.curve.exists, ~w.curve.complete,
         Quote(w) = NATIVE_MINT,
         NEW fee \in FeeRecipients(PumpGlobal, w.curve.is_mayhem_mode),
         NEW buyback \in BuybackFeeRecipients(PumpGlobal),
         NEW ix, ix.a = LegacyAccounts(k, w.curve.creator, fee), Last(ix.rest) = buyback,
         ix.op \in Sells /\ w.curve.is_cashback_coin => Len(ix.rest) = 3
  PROVE  ExecLegacy(w, ix).err = "none"
           <=> Willing(w, ix, ix.op \notin Sells, {}, BaseAta(User), User)
<1> DEFINE a == ix.a
           f == FeesAt(w)
           buying == ix.op \notin Sells
           creator == IF w.curve.is_cashback_coin THEN a.user_volume_accumulator
                      ELSE a.creator_vault
           payments == <<<<a.fee_recipient, f.protocol>>, <<Last(ix.rest), f.buyback>>,
                         <<creator, f.creator>>>>
           T == Trade(w, ix, buying, {}, a.associated_base_user, a.user, payments)
<1>1. /\ a.bonding_curve = BondingCurvePda(Mint)
      /\ a.creator_vault = CreatorVault(w.curve.creator)
      /\ a.fee_recipient = fee /\ a.user = User /\ a.associated_base_user = BaseAta(User)
  BY DEF LegacyAccounts, k, BaseAta
<1>2. Payable(payments)
  BY FeePayments
<1>3. ExecLegacy(w, ix) = T
  BY <1>1, Zenon DEF ExecLegacy, OnCurve, Refuse
<1>4. buying \in BOOLEAN
  OBVIOUS
<1> HIDE DEF payments, buying
<1>5. T.err = "none" <=> Willing(w, ix, buying, {}, a.associated_base_user, a.user)
  BY <1>2, <1>4, TradeOutcome
<1> QED BY <1>1, <1>3, <1>5 DEF buying

V3Needs(w, buyback) ==
  IF Quote(w) = NATIVE_MINT THEN {} ELSE {QuoteAta(w, User), QuoteAta(w, buyback)}

LEMMA CurveV3Outcome ==
  ASSUME NEW w, Sound(w), w.err = "none", w.curve.exists, ~w.curve.complete,
         NEW buyback, NEW q, ResolveQuoteMint(q) = Quote(w),
         NEW ix, ix.a = V3Accounts(k, q, buyback)
  PROVE  ExecCurveV3(w, ix).err = "none"
           <=> /\ ~w.curve.is_cashback_coin
               /\ Willing(w, ix, ix.op \notin Sells, V3Needs(w, buyback), BaseAta(User),
                          CurvePurse(w))
<1> DEFINE a == ix.a
           native == Quote(w) = NATIVE_MINT
           buying == ix.op \notin Sells
           needed == IF native THEN {} ELSE {a.associated_quote_user, a.buyback_fee_recipient}
           purse == IF native THEN a.user ELSE a.associated_quote_user
           payments == <<<<a.buyback_fee_recipient, FeesAt(w).buyback>>>>
           T == Trade(w, ix, buying, needed, a.associated_base_user, purse, payments)
<1>1. /\ a.bonding_curve = BondingCurvePda(Mint) /\ a.quote_mint = Quote(w) /\ a.user = User
      /\ a.associated_base_user = BaseAta(User)
      /\ a.associated_quote_user = QuoteAta(w, User)
      /\ Quote(w) # NATIVE_MINT => a.buyback_fee_recipient = QuoteAta(w, buyback)
  BY DEF V3Accounts, k, BaseAta, QuoteAta
<1>2. needed = V3Needs(w, buyback) /\ purse = CurvePurse(w)
  BY <1>1 DEF V3Needs, CurvePurse
<1>3. Payable(payments)
  BY FeePayments
<1>4. ExecCurveV3(w, ix)
        = Refuse(w, w.curve.is_cashback_coin, "CashbackCoin", KeepOnCurve(w, T))
  BY <1>1, Zenon DEF ExecCurveV3, OnCurve, Refuse
<1>5. buying \in BOOLEAN
  OBVIOUS
<1> HIDE DEF needed, purse, payments, buying
<1>6. /\ T.err = "none" <=> Willing(w, ix, buying, needed, a.associated_base_user, purse)
      /\ T.err = "none" => DOMAIN T = Fields
  BY <1>3, <1>5, TradeOutcome
<1> HIDE DEF T
<1>7. KeepOnCurve(w, T).err = "none" <=> T.err = "none"
  BY <1>6, KeptOutcome
<1>8. ExecCurveV3(w, ix).err = "none"
        <=> ~w.curve.is_cashback_coin /\ KeepOnCurve(w, T).err = "none"
  <2>1. DOMAIN w = Fields
    BY DEF Sound, World
  <2> QED BY <1>4, <2>1, Refusals
<1> QED BY <1>1, <1>2, <1>6, <1>7, <1>8 DEF buying

(* ---- the trades of a pool ---- *)
LEMMA PoolIs ==
  ASSUME NEW w, Sound(w), w.pool.exists
  PROVE  /\ w.pool.base_mint = Mint /\ w.pool.quote_mint = Quote(w)
         /\ w.pool.index = 0 /\ w.pool.creator = PoolAuthority(Mint)
         /\ w.pool.coin_creator = w.curve.creator
         /\ w.pool.is_cashback_coin = w.curve.is_cashback_coin
         /\ w.pool.is_cashback_coin \in BOOLEAN
         /\ PoolAddress(w.pool) = PoolKey(w)
         /\ w.curve.complete /\ w.curve.exists
<1>1. /\ \A f \in PoolFields \ {"creator_fees"} : w.pool[f] = PoolOf(w)[f]
      /\ w.curve.complete /\ w.curve.exists /\ w.curve.is_cashback_coin \in BOOLEAN
  BY DEF Sound, PoolMatches, CurveShape
<1>2. /\ w.pool.base_mint = Mint /\ w.pool.quote_mint = Quote(w)
      /\ w.pool.index = 0 /\ w.pool.creator = PoolAuthority(Mint)
      /\ w.pool.coin_creator = w.curve.creator
      /\ w.pool.is_cashback_coin = w.curve.is_cashback_coin
  BY <1>1 DEF PoolFields, PoolOf
<1> QED BY <1>1, <1>2 DEF PoolAddress, PoolKey, CanonicalPool

(* The recipients are wallets: none is an account a list may pass before one. *)
LEMMA Recipients ==
  ASSUME NEW r, r \in ListedFeeRecipients \cup ListedBuybackRecipients
  PROVE  /\ r # User
         /\ \A owner, program, mint : r # AssociatedToken(owner, program, mint)
         /\ r # PoolV2Pda(Mint)
<1>1. r # User /\ ~IsDerived(r)
  BY WalletAssumption
<1>2. r[1] # "ata" /\ r[1] # "pool-v2"
  BY <1>1 DEF IsDerived, Seeds
<1> QED BY <1>1, <1>2 DEF AssociatedToken, PoolV2Pda

(* The creator fee rounds to zero, and an account comes before the recipient. *)
ShiftedOn(w) == /\ FeesAt(w).creator = 0
                /\ w.pool.is_cashback_coin \/ w.pool.coin_creator # DEFAULT_KEY

(* Two sequences end to end, by length and elements. *)
LEMMA EndToEnd ==
  ASSUME NEW l, NEW m, IsSeq(l), IsSeq(m)
  PROVE  /\ IsSeq(l \o m) /\ Len(l) \in Nat /\ Len(m) \in Nat /\ Len(l \o m) = Len(l) + Len(m)
         /\ Len(l) >= 1 => (l \o m)[1] = l[1]
         /\ Len(l) = 0 /\ Len(m) >= 1 => (l \o m)[1] = m[1]
         /\ Len(m) >= 1 => (l \o m)[Len(l) + 1] = m[1]
         /\ Len(m) >= 2 => (l \o m)[Len(l) + 2] = m[2]
         /\ Len(m) = 2 => Last(l \o m) = m[2]
<1> DEFINE c == l \o m
<1>1. /\ IsSeq(c) /\ Len(l) \in Nat /\ Len(m) \in Nat /\ Len(c) = Len(l) + Len(m)
      /\ DOMAIN l = 1..Len(l) /\ DOMAIN m = 1..Len(m)
      /\ \A i \in DOMAIN l : c[i] = l[i]
      /\ \A i \in DOMAIN m : c[Len(l) + i] = m[i]
  BY IsSeqConcat
<1> HIDE DEF c
<1>2. /\ Len(l) >= 1 => 1 \in DOMAIN l
      /\ Len(m) >= 1 => 1 \in DOMAIN m
      /\ Len(m) >= 2 => 2 \in DOMAIN m
  BY <1>1
<1>3. Len(m) = 2 => Last(c) = m[2]
  BY <1>1, <1>2 DEF Last
<1>4. Len(l) = 0 /\ Len(m) >= 1 => c[1] = m[1]
  <2>1. 0 + 1 = 1
    OBVIOUS
  <2> QED BY <1>1, <1>2, <2>1
<1> QED BY <1>1, <1>2, <1>3, <1>4 DEF c

LEMMA ShortSeqs ==
  /\ IsSeq(<<>>) /\ Len(<<>>) = 0
  /\ \A a : IsSeq(<<a>>) /\ Len(<<a>>) = 1 /\ <<a>>[1] = a
  /\ \A a, b : IsSeq(<<a, b>>) /\ Len(<<a, b>>) = 2 /\ <<a, b>>[1] = a /\ <<a, b>>[2] = b
<1>1. IsSeq(<<>>)
  BY FitsNone DEF Fits
<1>2. ASSUME NEW a PROVE IsSeq(<<a>>)
  <2>1. DOMAIN <<a>> = {1} /\ <<a>>[1] = a
    OBVIOUS
  <2>2. a \in ToSet(<<a>>)
    BY <2>1 DEF ToSet
  <2> QED BY <2>2 DEF IsSeq
<1>3. ASSUME NEW a, NEW b PROVE IsSeq(<<a, b>>)
  <2>1. DOMAIN <<a, b>> = {1, 2} /\ <<a, b>>[1] = a /\ <<a, b>>[2] = b
    OBVIOUS
  <2>2. a \in ToSet(<<a, b>>) /\ b \in ToSet(<<a, b>>)
    BY <2>1 DEF ToSet
  <2> QED BY <2>2 DEF IsSeq
<1> QED BY <1>1, <1>2, <1>3

LEMMA Skips ==
  ASSUME NEW w, Sound(w), w.pool.exists, NEW buyback \in BuybackFeeRecipients(AmmConfig),
         NEW is_buy \in BOOLEAN, NEW rest, rest = AmmRemaining(w.pool, k, buyback, is_buy)
  PROVE  /\ ShiftedOn(w) => rest[SkippedAccounts(w, is_buy) + 1] \notin BuybackFeeRecipients(AmmConfig)
         /\ ~ShiftedOn(w) => /\ rest[SkippedAccounts(w, is_buy) + 1] = buyback
                             /\ rest[SkippedAccounts(w, is_buy) + 2] = QuoteAta(w, buyback)
         /\ Last(rest) = QuoteAta(w, buyback)
<1> DEFINE accumulator == AmmUserVolumeAccumulator(User)
           b == QuoteAta(w, buyback)
           c == QuoteAta(w, accumulator)
           p == PoolV2Pda(Mint)
           skipped == SkippedAccounts(w, is_buy)
           own == IF is_buy THEN <<>> ELSE <<accumulator>>
           both == <<c>> \o own
           cashback == IF ~w.pool.is_cashback_coin THEN <<>> ELSE both
           v2 == IF w.pool.coin_creator = DEFAULT_KEY THEN <<>> ELSE <<p>>
           before == cashback \o v2
           tail == <<buyback, b>>
<1>1. w.pool.quote_mint = Quote(w) /\ w.pool.base_mint = Mint /\ w.pool.is_cashback_coin \in BOOLEAN
  BY PoolIs
<1>2. rest = before \o tail
  BY <1>1 DEF AmmRemaining, k, QuoteAta
<1>3. \A r \in BuybackFeeRecipients(AmmConfig) : r # c /\ r # p
  BY Recipients DEF ListedBuybackRecipients, QuoteAta
<1>4. FeesAt(w).creator \in {0, 1}
  BY DEF FeesAt
<1>5. IsSeq(own) /\ Len(own) = IF is_buy THEN 0 ELSE 1
  BY ShortSeqs
<1>6. IsSeq(tail) /\ Len(tail) = 2 /\ tail[1] = buyback /\ tail[2] = b
  BY ShortSeqs
<1>7. IsSeq(<<c>>) /\ Len(<<c>>) = 1 /\ <<c>>[1] = c
  BY ShortSeqs
<1>8. IsSeq(v2) /\ IF w.pool.coin_creator = DEFAULT_KEY THEN Len(v2) = 0 ELSE Len(v2) = 1 /\ v2[1] = p
  BY ShortSeqs
<1> HIDE DEF accumulator, b, c, p, own, tail, v2
<1>9. IsSeq(both) /\ Len(both) = (IF is_buy THEN 1 ELSE 2) /\ both[1] = c
  <2> HIDE DEF both
  <2>1. both = <<c>> \o own
    BY DEF both
  <2> DEFINE l == <<c>>
  <2>2. IsSeq(l) /\ Len(l) = 1 /\ l[1] = c /\ both = l \o own
    BY <1>7, <2>1
  <2> HIDE DEF l
  <2>3. Len(l) >= 1
    BY <2>2
  <2>4. IsSeq(l) /\ IsSeq(own)
    BY <1>5, <2>2
  <2>5. IsSeq(l \o own) /\ Len(l \o own) = Len(l) + Len(own) /\ (l \o own)[1] = l[1]
    BY <2>3, <2>4, EndToEnd
  <2> QED BY <1>5, <2>2, <2>5
<1> HIDE DEF both
<1>10. /\ IsSeq(cashback)
       /\ IF w.pool.is_cashback_coin THEN Len(cashback) = (IF is_buy THEN 1 ELSE 2) /\ cashback[1] = c
          ELSE Len(cashback) = 0
  BY <1>9, ShortSeqs
<1> HIDE DEF cashback
<1>11. /\ IsSeq(before)
       /\ Len(before) = (IF w.pool.coin_creator = DEFAULT_KEY THEN 0 ELSE 1)
                        + IF ~w.pool.is_cashback_coin THEN 0 ELSE IF is_buy THEN 1 ELSE 2
       /\ Len(before) >= 1 => before[1] \in {c, p}
  <2> HIDE DEF before
  <2>1. /\ IsSeq(before) /\ Len(cashback) \in Nat /\ Len(v2) \in Nat
        /\ Len(before) = Len(cashback) + Len(v2)
        /\ Len(cashback) >= 1 => before[1] = cashback[1]
        /\ Len(cashback) = 0 /\ Len(v2) >= 1 => before[1] = v2[1]
    BY <1>8, <1>10, EndToEnd DEF before
  <2>2. /\ w.pool.is_cashback_coin => Len(cashback) = (IF is_buy THEN 1 ELSE 2) /\ cashback[1] = c
        /\ ~w.pool.is_cashback_coin => Len(cashback) = 0
        /\ w.pool.coin_creator = DEFAULT_KEY => Len(v2) = 0
        /\ w.pool.coin_creator # DEFAULT_KEY => Len(v2) = 1 /\ v2[1] = p
    BY <1>8, <1>10
  <2> DEFINE x == IF ~w.pool.is_cashback_coin THEN 0 ELSE IF is_buy THEN 1 ELSE 2
             y == IF w.pool.coin_creator = DEFAULT_KEY THEN 0 ELSE 1
  <2>3. /\ x \in 0..2 /\ Len(cashback) = x /\ y \in 0..1 /\ Len(v2) = y
        /\ x >= 1 => cashback[1] = c
        /\ y >= 1 => v2[1] = p
    BY <2>2
  <2> HIDE DEF x, y
  <2>4. Len(before) = y + x /\ (Len(before) >= 1 => before[1] \in {c, p})
    BY <2>1, <2>3
  <2> QED BY <2>1, <2>4 DEF x, y
<1> HIDE DEF before
<1>12. /\ Len(before) \in Nat
       /\ Len(before) >= 1 => rest[1] = before[1]
       /\ rest[Len(before) + 1] = buyback /\ rest[Len(before) + 2] = b /\ Last(rest) = b
  <2>1. /\ Len(before) \in Nat
        /\ Len(before) >= 1 => (before \o tail)[1] = before[1]
        /\ (before \o tail)[Len(before) + 1] = tail[1]
        /\ (before \o tail)[Len(before) + 2] = tail[2] /\ Last(before \o tail) = tail[2]
    BY <1>6, <1>11, EndToEnd
  <2> QED BY <1>2, <1>6, <2>1
<1>13. CASE ShiftedOn(w)
  <2>1. skipped = 0 /\ skipped + 1 = 1
    BY <1>13 DEF ShiftedOn, SkippedAccounts
  <2>2. Len(before) >= 1
    BY <1>1, <1>11, <1>13 DEF ShiftedOn
  <2> QED BY <1>3, <1>11, <1>12, <1>13, <2>1, <2>2 DEF b
<1>14. CASE ~ShiftedOn(w)
  <2>1. skipped = Len(before)
    BY <1>1, <1>4, <1>11, <1>14 DEF ShiftedOn, SkippedAccounts
  <2> QED BY <1>12, <1>14, <2>1 DEF b
<1> QED BY <1>13, <1>14

AmmNeeds(w, recipient, buyback) ==
  {QuoteAta(w, User), QuoteAta(w, recipient), QuoteAta(w, buyback)}

LEMMA AmmOutcome ==
  ASSUME NEW w, Sound(w), w.err = "none", w.pool.exists,
         NEW recipient \in ProtocolFeeRecipients(AmmConfig),
         NEW buyback \in BuybackFeeRecipients(AmmConfig),
         NEW ix, ix.a = AmmTradeAccounts(PoolKey(w), w.pool, k, recipient),
         ix.rest = AmmRemaining(w.pool, k, buyback, ix.op \notin Sells)
  PROVE  ExecAmm(w, ix).err = "none"
           <=> /\ ~ShiftedOn(w)
               /\ Willing(w, ix, ix.op \notin Sells, AmmNeeds(w, recipient, buyback),
                          BaseAta(User), QuoteAta(w, User))
<1> DEFINE a == ix.a
           f == FeesAt(w)
           buying == ix.op \notin Sells
           skipped == SkippedAccounts(w, buying)
           first == ix.rest[skipped + 1]
           ata == ix.rest[skipped + 2]
           needed == {a.user_quote_token_account, a.protocol_fee_recipient_token_account, ata}
           payments == <<<<a.protocol_fee_recipient_token_account, f.protocol>>, <<ata, f.buyback>>,
                         <<IF w.pool.is_cashback_coin THEN ix.rest[1]
                           ELSE a.coin_creator_vault_ata, f.creator>>>>
           T == Trade(w, ix, buying, needed, a.user_base_token_account,
                      a.user_quote_token_account, payments)
<1>1. /\ a.pool = PoolKey(w)
      /\ a.coin_creator_vault_authority = CoinCreatorVaultAuthority(w.pool.coin_creator)
      /\ a.protocol_fee_recipient = recipient
      /\ a.user_base_token_account = BaseAta(User)
      /\ a.user_quote_token_account = QuoteAta(w, User)
      /\ a.protocol_fee_recipient_token_account = QuoteAta(w, recipient)
  BY PoolIs DEF AmmTradeAccounts, k, BaseAta, QuoteAta
<1>2. Payable(payments)
  BY FeePayments
<1>3. buying \in BOOLEAN
  OBVIOUS
<1>4. DOMAIN w = Fields
  BY DEF Sound, World
<1> DEFINE unlisted == first \notin BuybackFeeRecipients(AmmConfig)
<1>5. ExecAmm(w, ix) = Refuse(w, unlisted, "BuybackFeeRecipientNotAuthorized", T)
  BY <1>1, Zenon DEF ExecAmm, Refuse
<1>6. /\ ShiftedOn(w) => first \notin BuybackFeeRecipients(AmmConfig)
      /\ ~ShiftedOn(w) => first = buyback /\ ata = QuoteAta(w, buyback)
  BY <1>3, Skips
<1> HIDE DEF first, ata, payments, buying
<1>7. ExecAmm(w, ix).err = "none" <=> ~unlisted /\ T.err = "none"
  <2> HIDE DEF T, unlisted
  <2> QED BY <1>4, <1>5, Refusals
<1> HIDE DEF needed
<1>8. T.err = "none" <=> Willing(w, ix, buying, needed, a.user_base_token_account,
                                 a.user_quote_token_account)
  BY <1>2, <1>3, TradeOutcome
<1> HIDE DEF T
<1>9. ~ShiftedOn(w) => needed = AmmNeeds(w, recipient, buyback)
  BY <1>1, <1>6 DEF needed, AmmNeeds
<1>10. CASE ShiftedOn(w)
  BY <1>6, <1>7, <1>10
<1>11. CASE ~ShiftedOn(w)
  BY <1>1, <1>6, <1>7, <1>8, <1>9, <1>11 DEF buying
<1> QED BY <1>10, <1>11

LEMMA AmmV2Outcome ==
  ASSUME NEW w, Sound(w), w.err = "none", w.pool.exists, NEW buyback,
         NEW op, NEW args, NEW ix, ix = AmmV2Instruction(op, w.pool, k, buyback, args)
  PROVE  ExecAmmV2(w, ix).err = "none"
           <=> /\ ~w.pool.is_cashback_coin
               /\ Willing(w, ix, op \notin Sells, {QuoteAta(w, User), QuoteAta(w, buyback)},
                          BaseAta(User), QuoteAta(w, User))
<1> DEFINE a == ix.a
           buying == ix.op \notin Sells
           needed == {a.user_quote_token_account, a.buyback_fee_recipient}
           payments == <<<<a.buyback_fee_recipient, FeesAt(w).buyback>>>>
           T == Trade(w, ix, buying, needed, a.user_base_token_account,
                      a.user_quote_token_account, payments)
<1>1. /\ a.pool = PoolKey(w) /\ ix.op = op
      /\ a.user_base_token_account = BaseAta(User)
      /\ a.user_quote_token_account = QuoteAta(w, User)
      /\ a.buyback_fee_recipient = QuoteAta(w, buyback)
  <2>1. w.pool.base_mint = Mint /\ w.pool.quote_mint = Quote(w) /\ PoolAddress(w.pool) = PoolKey(w)
    BY PoolIs
  <2>2. k.user = User /\ k.base_program = TOKEN_2022 /\ k.quote_program = SPL_TOKEN
    BY DEF k
  <2>3. /\ a.pool = PoolAddress(w.pool) /\ ix.op = op
        /\ a.user_base_token_account = AssociatedToken(k.user, k.base_program, w.pool.base_mint)
        /\ a.user_quote_token_account = AssociatedToken(k.user, k.quote_program, w.pool.quote_mint)
        /\ a.buyback_fee_recipient = AssociatedToken(buyback, k.quote_program, w.pool.quote_mint)
    BY DEF AmmV2Instruction, Ix
  <2> QED BY <2>1, <2>2, <2>3 DEF BaseAta, QuoteAta
<1>2. Payable(payments)
  BY FeePayments
<1>3. buying \in BOOLEAN
  OBVIOUS
<1>4. DOMAIN w = Fields
  BY DEF Sound, World
<1>5. ExecAmmV2(w, ix) = Refuse(w, w.pool.is_cashback_coin, "CashbackCoin", KeepInPool(w, T))
  BY <1>1, Zenon DEF ExecAmmV2, Refuse
<1> HIDE DEF needed, payments, buying
<1>6. /\ T.err = "none" <=> Willing(w, ix, buying, needed, a.user_base_token_account,
                                    a.user_quote_token_account)
      /\ T.err = "none" => DOMAIN T = Fields
  BY <1>2, <1>3, TradeOutcome
<1> HIDE DEF T
<1>7. KeepInPool(w, T).err = "none" <=> T.err = "none"
  BY <1>6, KeptOutcome
<1>8. ExecAmmV2(w, ix).err = "none"
        <=> ~w.pool.is_cashback_coin /\ KeepInPool(w, T).err = "none"
  BY <1>4, <1>5, Refusals
<1>9. needed = {QuoteAta(w, User), QuoteAta(w, buyback)} /\ (buying <=> op \notin Sells)
  BY <1>1 DEF needed, buying
<1> QED BY <1>1, <1>6, <1>7, <1>8, <1>9

LEMMA MultiHopOutcome ==
  ASSUME NEW w, Sound(w), w.err = "none", NEW is_buy \in BOOLEAN, NEW ix, NEW buyback,
         \/ ix.rest[1].venue = PoolKey(w) /\ w.pool.exists
         \/ ix.rest[1].venue = BondingCurvePda(Mint) /\ w.curve.exists /\ ~w.curve.complete,
         ix.a.user = User,
         ix.a.user_in_token_account = IF is_buy THEN QuoteAta(w, User) ELSE BaseAta(User),
         ix.a.user_out_token_account = IF is_buy THEN BaseAta(User) ELSE QuoteAta(w, User),
         ix.a.buyback_fee_recipient = QuoteAta(w, buyback)
  PROVE  ExecMultiHop(w, ix).err = "none"
           <=> /\ ~w.curve.is_cashback_coin /\ (w.curve.is_mayhem_mode => w.pool.exists)
               /\ Willing(w, ix, is_buy, AmmNeeds(w, User, buyback), BaseAta(User),
                          IF w.pool.exists THEN QuoteAta(w, User) ELSE CurvePurse(w))
<1> DEFINE a == ix.a
           hop == ix.rest[1]
           on_curve == hop.venue = BondingCurvePda(Mint)
           buying == a.user_in_token_account = QuoteAta(w, User)
           needed == {a.user_in_token_account, a.user_out_token_account, a.buyback_fee_recipient}
           purse == IF on_curve /\ Quote(w) = NATIVE_MINT THEN a.user ELSE QuoteAta(w, User)
           payments == <<<<a.buyback_fee_recipient, FeesAt(w).buyback>>>>
           T == Trade(w, ix, buying, needed, BaseAta(User), purse, payments)
           mayhem == on_curve /\ w.curve.is_mayhem_mode
           kept == IF on_curve THEN KeepOnCurve(w, T) ELSE KeepInPool(w, T)
<1>1. on_curve <=> ~w.pool.exists
  <2>1. PoolKey(w) # BondingCurvePda(Mint)
    BY DEF PoolKey, CanonicalPool, PoolPda, BondingCurvePda
  <2>2. w.pool.exists => w.curve.complete
    BY PoolIs
  <2> QED BY <2>1, <2>2
<1>2. QuoteAta(w, User) # BaseAta(User)
  BY DEF QuoteAta, BaseAta, AssociatedToken, SPL_TOKEN, TOKEN_2022
<1>3. buying <=> is_buy
  BY <1>2
<1>4. /\ needed \cup {BaseAta(User)} = AmmNeeds(w, User, buyback) \cup {BaseAta(User)}
      /\ purse = IF w.pool.exists THEN QuoteAta(w, User) ELSE CurvePurse(w)
  BY <1>1 DEF AmmNeeds, CurvePurse
<1>5. Payable(payments)
  BY FeePayments
<1>6. DOMAIN w = Fields
  BY DEF Sound, World
<1>7. ExecMultiHop(w, ix)
        = Refuse(w, w.curve.is_cashback_coin, "CashbackCoin",
          Refuse(w, mayhem, "MayhemCurve", kept))
  <2>1. ~(IF on_curve THEN ~w.curve.exists \/ w.curve.complete
          ELSE ~w.pool.exists \/ hop.venue # PoolKey(w))
    BY <1>1
  <2> QED BY <2>1, Zenon DEF ExecMultiHop, Refuse
<1> HIDE DEF needed, payments, buying, purse
<1>8. /\ T.err = "none" <=> Willing(w, ix, buying, needed, BaseAta(User), purse)
      /\ T.err = "none" => DOMAIN T = Fields
  <2>1. buying \in BOOLEAN
    BY DEF buying
  <2> QED BY <1>5, <2>1, TradeOutcome
<1> HIDE DEF T, on_curve
<1>9. kept.err = "none" <=> T.err = "none"
  BY <1>8, KeptOutcome
<1> HIDE DEF kept, mayhem
<1>10. ExecMultiHop(w, ix).err = "none"
         <=> ~w.curve.is_cashback_coin /\ ~mayhem /\ kept.err = "none"
  BY <1>6, <1>7, Refusals
<1>11. mayhem <=> ~w.pool.exists /\ w.curve.is_mayhem_mode
  BY <1>1 DEF mayhem
<1>12. Willing(w, ix, buying, needed, BaseAta(User), purse)
         <=> Willing(w, ix, is_buy, AmmNeeds(w, User, buyback), BaseAta(User), purse)
  <2>1. LimitBroken(w, ix, buying) <=> LimitBroken(w, ix, is_buy)
    BY <1>3 DEF LimitBroken
  <2>2. \A x : x \in needed \cup {BaseAta(User)}
                 <=> x \in AmmNeeds(w, User, buyback) \cup {BaseAta(User)}
    BY <1>4
  <2> QED BY <1>3, <2>1, <2>2 DEF Willing
<1> QED BY <1>4, <1>8, <1>9, <1>10, <1>11, <1>12

(* ---- the state a list was built from ---- *)
(* Amounts and limits as a builder takes them from the state it fetched.     *)
Fresh(ix, buying) ==
  \/ buying /\ ix.op \in ExactIns /\ ix.args.amount = Cost(chain)
  \/ buying /\ ix.op \notin ExactIns /\ \E s \in Slippages : ix.args.limit = MaxCost(s)
  \/ ~buying /\ \E s \in Slippages : ix.args.limit = MinProceeds(s)

LEMMA FreshLimit ==
  ASSUME Sound(chain), NEW ix, NEW buying \in BOOLEAN, Fresh(ix, buying)
  PROVE  ~LimitBroken(chain, ix, buying)
<1>1. /\ Cost(chain) \in Nat /\ Proceeds(chain) \in Nat /\ Proceeds(chain) > 0
      /\ Slippages \subseteq Nat
  BY Worth, WalletAssumption
<1>2. \A s \in Slippages : Cost(chain) <= MaxCost(s) /\ Proceeds(chain) >= MinProceeds(s)
  BY <1>1 DEF MaxCost, MinProceeds
<1>3. \A s \in Slippages : MaxCost(s) \in Nat /\ MinProceeds(s) \in Nat
  BY <1>1 DEF MaxCost, MinProceeds
<1>4. CASE buying /\ ix.op \in ExactIns /\ ix.args.amount = Cost(chain)
  BY <1>1, <1>4 DEF LimitBroken
<1>5. CASE buying /\ ix.op \notin ExactIns /\ \E s \in Slippages : ix.args.limit = MaxCost(s)
  <2>1. PICK s \in Slippages : ix.args.limit = MaxCost(s)
    BY <1>5
  <2>2. ~(Cost(chain) > MaxCost(s))
    BY <1>1, <1>2, <1>3
  <2> QED BY <1>5, <2>1, <2>2 DEF LimitBroken
<1>6. CASE ~buying /\ \E s \in Slippages : ix.args.limit = MinProceeds(s)
  <2>1. PICK s \in Slippages : ix.args.limit = MinProceeds(s)
    BY <1>6
  <2>2. ~(Proceeds(chain) < MinProceeds(s))
    BY <1>1, <1>2, <1>3
  <2> QED BY <1>6, <2>1, <2>2 DEF LimitBroken
<1> QED BY <1>4, <1>5, <1>6 DEF Fresh

(* A trade after its prelude, on the state it was built from: it runs if its *)
(* program has no objection of its own, the wallet has what is spent and the *)
(* accounts are there or opened by the prelude.                              *)
LEMMA TradeLands ==
  ASSUME Sound(chain), chain.err = "none", NEW pre, Prelude(pre), NEW ix,
         NEW buying \in BOOLEAN, Fresh(ix, buying), NEW needed, NEW base, NEW purse,
         \A v : Opened(chain, v, Openings(pre)) =>
                  (Exec(v, ix).err = "none" <=> Willing(v, ix, buying, needed, base, purse))
  PROVE  Run(chain, pre \o <<ix>>).err = "none"
           <=> /\ \A a \in needed \cup {base} : Has(chain, a) \/ a \in Openings(pre)
               /\ IF buying THEN Cost(chain) <= Bal(chain, purse) ELSE 1 <= Bal(chain, base)
<1> DEFINE v == Run(chain, pre)
<1>1. Opened(chain, v, Openings(pre)) /\ Run(chain, pre \o <<ix>>) = Exec(v, ix)
  BY RunAfter
<1>2. /\ Cost(v) = Cost(chain) /\ Proceeds(v) = Proceeds(chain)
      /\ \A a : Bal(v, a) = Bal(chain, a)
      /\ \A a : Has(v, a) <=> Has(chain, a) \/ a \in Openings(pre)
  BY <1>1, OpenedSame
<1>3. Cost(chain) \in Nat /\ \A a : Bal(chain, a) \in Nat
  BY Worth, BalNat DEF Sound
<1> HIDE DEF v
<1>4. ~LimitBroken(v, ix, buying)
  BY <1>2, FreshLimit DEF LimitBroken
<1>5. Willing(v, ix, buying, needed, base, purse)
        <=> /\ \A a \in needed \cup {base} : Has(chain, a) \/ a \in Openings(pre)
            /\ IF buying THEN Cost(chain) <= Bal(chain, purse) ELSE 1 <= Bal(chain, base)
  BY <1>2, <1>3, <1>4 DEF Willing
<1> QED BY <1>1, <1>5

LEMMA TradeStops ==
  ASSUME Sound(chain), chain.err = "none", NEW pre, Prelude(pre), NEW ix,
         \A v : Opened(chain, v, Openings(pre)) => Exec(v, ix).err # "none"
  PROVE  Run(chain, pre \o <<ix>>).err # "none"
<1> DEFINE v == Run(chain, pre)
<1>1. Opened(chain, v, Openings(pre)) /\ Run(chain, pre \o <<ix>>) = Exec(v, ix)
  BY RunAfter
<1> HIDE DEF v
<1> QED BY <1>1

(* A listed fee recipient's accounts are open in every quote. *)
FeesOpen == ListedFeeAtas \subseteq DOMAIN chain.ledger

LEMMA FeeAccountOpen ==
  ASSUME Sound(chain), chain.curve.exists, FeesOpen, NEW r \in ListedFeeRecipients
  PROVE  Has(chain, QuoteAta(chain, r))
<1>1. Quote(chain) \in Quotes
  BY DEF Sound, CurveShape, Ordinary, Quote
<1> QED BY <1>1 DEF FeesOpen, ListedFeeAtas, QuoteAtas, QuoteAta, Has

(* What holds something exists. *)
LEMMA HoldsSome ==
  ASSUME NEW w, NEW a, NEW n \in Nat, n > 0, n <= Bal(w, a)
  PROVE  Has(w, a)
BY DEF Bal

(* KnownRefusal, of a list that is about to be sent. *)
Refused(kind, list, purse, spend) ==
  \/ spend > Bal(chain, purse)
  \/ chain.curve.is_cashback_coin /\ kind \in {"v3", "amm_v2", "amm_v2_singular", "multi_hop"}
  \/ chain.curve.is_mayhem_mode /\ ~OnPool /\ kind = "multi_hop"
  \/ OnPool /\ kind \in {"amm", "trade_tx"} /\ (Shifted \/ BuybackMissing(list))
  \/ kind \in {"amm_v2", "amm_v2_singular"} /\ BuybackMissing(list)
  \/ kind \in {"amm_v2_singular", "legacy"} /\ ~Has(chain, BaseAta(User))
  \/ kind = "create" /\ list[1].args.is_cashback_coin
  \/ kind = "create_agent"

Lands1(kind, list, purse, spend) ==
  Run(chain, list).err = "none" <=> ~Refused(kind, list, purse, spend)

(* What can be built from: a sound chain with its recipients' accounts open. *)
Settled == Sound(chain) /\ chain.err = "none" /\ FeesOpen

(* ---- v2 ---- *)
LEMMA UserTradeAtasOpens ==
  ASSUME NEW c, ResolveQuoteMint(c.quote_mint) # Mint, NEW base \in BOOLEAN
  PROVE  LET q == ResolveQuoteMint(c.quote_mint)
             pre == UserTradeAtas(k, c, base)
         IN  /\ Prelude(pre)
             /\ base => BaseAta(User) \in Openings(pre)
             /\ q # NATIVE_MINT =>
                  /\ AssociatedToken(User, SPL_TOKEN, q) \in Openings(pre)
                  /\ AssociatedToken(BondingCurvePda(Mint), SPL_TOKEN, q) \in Openings(pre)
                  /\ c.is_cashback_coin =>
                       AssociatedToken(UserVolumeAccumulator(User), SPL_TOKEN, q) \in Openings(pre)
<1> DEFINE q == ResolveQuoteMint(c.quote_mint)
           Create(owner) == <<CreateAta(User, owner, c.quote_mint, SPL_TOKEN)>>
           first == IF base THEN <<CreateAta(User, User, Mint, TOKEN_2022)>> ELSE <<>>
           last == IF c.is_cashback_coin THEN Create(UserVolumeAccumulator(User)) ELSE <<>>
           c1 == Create(User)
           c2 == Create(c.creator)
           c3 == Create(BondingCurvePda(Mint))
           native == c.quote_mint \in {DEFAULT_KEY, NATIVE_MINT}
           rest == IF native THEN <<>> ELSE c1 \o c2 \o c3 \o last
           pre == UserTradeAtas(k, c, base)
           At(owner) == AssociatedToken(owner, SPL_TOKEN, q)
<1>1. pre = first \o rest
  <2>1. k.user = User /\ k.base_mint = Mint /\ k.quote_program = SPL_TOKEN
    BY DEF k
  <2> QED BY <2>1, Zenon DEF UserTradeAtas
<1>2. /\ q # NATIVE_MINT => ~native
      /\ ~native => q = c.quote_mint /\ ProgramOf(c.quote_mint) = SPL_TOKEN
      /\ ProgramOf(Mint) = TOKEN_2022
  BY DEF ResolveQuoteMint, ProgramOf
<1>3. Prelude(first) /\ (base => Openings(first) = {BaseAta(User)})
  <2>1. LET list == <<CreateAta(User, User, Mint, TOKEN_2022)>>
        IN  Prelude(list) /\ Openings(list) = {BaseAta(User)}
    BY <1>2, PreludeOne DEF BaseAta
  <2> QED BY <2>1, PreludeNone
<1> HIDE DEF first
<1>4. ASSUME ~native, NEW owner PROVE Prelude(Create(owner)) /\ Openings(Create(owner)) = {At(owner)}
  BY <1>2, <1>4, PreludeOne
<1>5. CASE native
  <2>1. Prelude(rest)
    BY <1>5, PreludeNone
  <2> HIDE DEF rest
  <2>2. Prelude(pre) /\ Openings(pre) = Openings(first) \cup Openings(rest)
    BY <1>1, <1>3, <2>1, PreludeConcat
  <2> QED BY <1>2, <1>3, <1>5, <2>2
<1>6. CASE ~native
  <2>1. /\ Prelude(c1) /\ Openings(c1) = {At(User)}
        /\ Prelude(c2)
        /\ Prelude(c3) /\ Openings(c3) = {At(BondingCurvePda(Mint))}
    BY <1>4, <1>6
  <2>2. Prelude(last) /\ (c.is_cashback_coin => Openings(last) = {At(UserVolumeAccumulator(User))})
    <3>1. /\ Prelude(Create(UserVolumeAccumulator(User)))
          /\ Openings(Create(UserVolumeAccumulator(User))) = {At(UserVolumeAccumulator(User))}
      BY <1>4, <1>6
    <3> HIDE DEF Create
    <3> QED BY <3>1, PreludeNone
  <2> HIDE DEF c1, c2, c3, last
  <2>3. Prelude(c1 \o c2) /\ Openings(c1 \o c2) = Openings(c1) \cup Openings(c2)
    BY <2>1, PreludeConcat
  <2>4. Prelude(c1 \o c2 \o c3) /\ Openings(c1 \o c2 \o c3) = Openings(c1 \o c2) \cup Openings(c3)
    BY <2>1, <2>3, PreludeConcat
  <2>5. /\ Prelude(c1 \o c2 \o c3 \o last)
        /\ Openings(c1 \o c2 \o c3 \o last) = Openings(c1 \o c2 \o c3) \cup Openings(last)
    BY <2>2, <2>4, PreludeConcat
  <2>6. rest = c1 \o c2 \o c3 \o last
    BY <1>6
  <2> HIDE DEF rest
  <2>7. Prelude(pre) /\ Openings(pre) = Openings(first) \cup Openings(rest)
    BY <1>1, <1>3, <2>5, <2>6, PreludeConcat
  <2>8. /\ At(User) \in Openings(pre) /\ At(BondingCurvePda(Mint)) \in Openings(pre)
        /\ c.is_cashback_coin => At(UserVolumeAccumulator(User)) \in Openings(pre)
        /\ base => BaseAta(User) \in Openings(pre)
    BY <1>3, <2>1, <2>2, <2>3, <2>4, <2>5, <2>6, <2>7
  <2> QED BY <2>7, <2>8
<1> QED BY <1>5, <1>6

LEMMA Appended ==
  ASSUME NEW pre, Prelude(pre), NEW ix
  PROVE  Append(pre, ix) = pre \o <<ix>>
<1> DEFINE S == ToSet(pre) \cup {ix}
<1>1. pre \in Seq(S) /\ ix \in S
  BY SeqMonotonic DEF IsSeq, Prelude
<1> HIDE DEF S
<1> QED BY <1>1, AppendIsConcat

(* What only the funds can stop. *)
LEMMA OnlyFunds ==
  ASSUME Settled, NEW kind \in {"v2", "trade_tx", "legacy_create", "sweep", "collect", "distribute",
                                "update_shares", "extend", "claim", "migrate"},
         ~OnPool \/ kind # "trade_tx", NEW list, NEW purse, NEW spend \in Nat
  PROVE  Refused(kind, list, purse, spend) <=> ~(spend <= Bal(chain, purse))
<1>1. Bal(chain, purse) \in Nat
  BY BalNat DEF Settled, Sound
<1>2. /\ kind \notin {"v3", "amm_v2", "amm_v2_singular", "multi_hop"}
      /\ kind \notin {"amm", "legacy", "create", "create_agent"}
      /\ OnPool => kind # "trade_tx"
  OBVIOUS
<1> QED BY <1>1, <1>2 DEF Refused

LEMMA OpenCurveNoPool ==
  ASSUME Sound(chain), OnOpenCurve
  PROVE  ~OnPool
BY DEF Sound, PoolMatches, OnOpenCurve, OnPool

V2Ops == {"buy_v2", "buy_exact_quote_in_v2", "sell_v2"}

LEMMA V2Lands ==
  ASSUME Settled, OnOpenCurve, NEW op \in V2Ops, NEW args,
         NEW ix \in V2Trade(op, PumpGlobal, chain.curve, k, args), Fresh(ix, op \notin Sells),
         NEW kind \in {"v2", "trade_tx"}
  PROVE  LET buying == op \notin Sells
         IN  Lands1(kind, Append(UserTradeAtas(k, chain.curve, buying), ix),
                    IF buying THEN CurvePurse(chain) ELSE BaseAta(User),
                    IF buying THEN Cost(chain) ELSE 1)
<1> DEFINE buying == op \notin Sells
           c == chain.curve
           pre == UserTradeAtas(k, c, buying)
           purse == IF buying THEN CurvePurse(chain) ELSE BaseAta(User)
           spend == IF buying THEN Cost(chain) ELSE 1
           list == Append(pre, ix)
<1>1. /\ Sound(chain) /\ chain.err = "none" /\ c.exists /\ ~c.complete
      /\ c.is_mayhem_mode \in BOOLEAN /\ c.is_cashback_coin \in BOOLEAN
      /\ ResolveQuoteMint(c.quote_mint) # Mint /\ Quote(chain) = ResolveQuoteMint(c.quote_mint)
  BY DEF Settled, OnOpenCurve, Sound, CurveShape, Ordinary, Quote
<1>2. PICK fee \in FeeRecipients(PumpGlobal, c.is_mayhem_mode),
           buyback \in BuybackFeeRecipients(PumpGlobal) :
        /\ ix.op = op /\ ix.a = V2TradeAccounts(k, c.quote_mint, c.creator, fee, buyback)
  BY DEF V2Trade, PumpFeeRecipientsPair, Ix
<1> DEFINE needed == V2Needs(chain, fee)
<1>3. buying \in BOOLEAN
  OBVIOUS
<1>4. /\ Prelude(pre)
      /\ buying => BaseAta(User) \in Openings(pre)
      /\ Quote(chain) # NATIVE_MINT =>
           /\ QuoteAta(chain, User) \in Openings(pre)
           /\ QuoteAta(chain, BondingCurvePda(Mint)) \in Openings(pre)
           /\ c.is_cashback_coin => QuoteAta(chain, UserVolumeAccumulator(User)) \in Openings(pre)
  BY <1>1, <1>3, UserTradeAtasOpens DEF QuoteAta
<1>5. list = pre \o <<ix>>
  BY <1>4, Appended
<1> HIDE DEF pre, buying
<1>6. ASSUME NEW v, Opened(chain, v, Openings(pre))
      PROVE  Exec(v, ix).err = "none"
               <=> Willing(v, ix, buying, needed, BaseAta(User), CurvePurse(chain))
  <2>1. /\ Sound(v) /\ v.err = "none" /\ v.curve = c /\ Quote(v) = Quote(chain)
        /\ CurvePurse(v) = CurvePurse(chain) /\ \A p : QuoteAta(v, p) = QuoteAta(chain, p)
    BY <1>1, <1>6, OpenedSame
  <2>2. V2Needs(v, fee) = needed
    BY <2>1 DEF V2Needs
  <2>3. Exec(v, ix) = ExecCurveV2(v, ix)
    BY <1>2, Dispatch DEF V2Ops
  <2>4. ExecCurveV2(v, ix).err = "none"
          <=> Willing(v, ix, ix.op \notin Sells, V2Needs(v, fee), BaseAta(User), CurvePurse(v))
    BY <1>1, <1>2, <2>1, CurveV2Outcome
  <2> QED BY <1>2, <2>1, <2>2, <2>3, <2>4 DEF buying
<1>7. Run(chain, pre \o <<ix>>).err = "none"
        <=> /\ \A a \in needed \cup {BaseAta(User)} : Has(chain, a) \/ a \in Openings(pre)
            /\ IF buying THEN Cost(chain) <= Bal(chain, CurvePurse(chain))
               ELSE 1 <= Bal(chain, BaseAta(User))
  <2> HIDE DEF needed
  <2>1. Fresh(ix, buying)
    BY DEF buying
  <2> QED BY <1>1, <1>3, <1>4, <1>6, <2>1, TradeLands
<1>8. \A a \in needed : Has(chain, a) \/ a \in Openings(pre)
  <2>1. Has(chain, QuoteAta(chain, fee))
    <3>1. fee \in ListedFeeRecipients
      <4>1. c.is_mayhem_mode = TRUE \/ c.is_mayhem_mode = FALSE
        BY <1>1
      <4> QED BY <4>1 DEF ListedFeeRecipients
    <3> QED BY <1>1, <3>1, FeeAccountOpen DEF Settled
  <2> QED BY <1>4, <2>1 DEF V2Needs
<1>9. ~buying /\ 1 <= Bal(chain, BaseAta(User)) => Has(chain, BaseAta(User))
  BY HoldsSome
<1>10. Run(chain, pre \o <<ix>>).err = "none" <=> spend <= Bal(chain, purse)
  <2> HIDE DEF needed
  <2> QED BY <1>4, <1>7, <1>8, <1>9
<1>11. Refused(kind, list, purse, spend) <=> ~(spend <= Bal(chain, purse))
  <2>1. spend \in Nat
    BY <1>1, Worth
  <2> HIDE DEF spend, purse, list
  <2> QED BY <2>1, OnlyFunds, OpenCurveNoPool DEF Settled
<1> QED BY <1>5, <1>10, <1>11 DEF Lands1, buying, pre

(* ---- pool trades ---- *)
LEMMA PreludeOps ==
  ASSUME NEW pre, Prelude(pre)
  PROVE  \A i \in DOMAIN pre : pre[i].op \notin PoolTrades
BY DEF Prelude, Creates, PoolTrades

LEMMA BuybackOf ==
  ASSUME NEW pre, IsSeq(pre), \A i \in DOMAIN pre : pre[i].op \notin PoolTrades,
         NEW ix, ix.op \in PoolTrades, NEW post, IsSeq(post),
         \A i \in DOMAIN post : post[i].op \notin PoolTrades
  PROVE  BuybackMissing(pre \o <<ix>> \o post) <=> ~Has(chain, BuybackAccount(ix))
<1> DEFINE one == <<ix>>
           l == pre \o one
           list == l \o post
           n == Len(pre)
<1>1. IsSeq(one) /\ Len(one) = 1 /\ one[1] = ix
  BY ShortSeqs
<1> HIDE DEF one
<1>2. /\ IsSeq(l) /\ n \in Nat /\ DOMAIN pre = 1..n /\ DOMAIN l = 1..(n + 1) /\ Len(l) = n + 1
      /\ \A i \in DOMAIN pre : l[i] = pre[i]
      /\ l[n + 1] = ix
  <2>1. /\ IsSeq(l) /\ n \in Nat /\ DOMAIN pre = 1..n /\ DOMAIN l = 1..(n + Len(one))
        /\ Len(l) = n + Len(one)
        /\ \A i \in DOMAIN pre : l[i] = pre[i]
        /\ DOMAIN one = 1..Len(one)
        /\ \A i \in DOMAIN one : l[n + i] = one[i]
    <3>1. IsSeq(pre) /\ IsSeq(one)
      BY <1>1
    <3> QED BY <3>1, IsSeqConcat
  <2> HIDE DEF l
  <2> QED BY <1>1, <2>1
<1> HIDE DEF l
<1>3. /\ DOMAIN l = 1..(n + 1) /\ Len(post) \in Nat /\ DOMAIN post = 1..Len(post)
      /\ DOMAIN list = 1..((n + 1) + Len(post))
      /\ \A i \in DOMAIN l : list[i] = l[i]
      /\ \A i \in DOMAIN post : list[(n + 1) + i] = post[i]
  BY <1>2, IsSeqConcat
<1> HIDE DEF list
<1>4. n + 1 \in DOMAIN list /\ list[n + 1] = ix
  BY <1>2, <1>3
<1>5. ASSUME NEW i \in DOMAIN list, i # n + 1 PROVE list[i].op \notin PoolTrades
  <2>1. CASE i <= n
    <3>1. i \in DOMAIN pre /\ i \in DOMAIN l /\ list[i] = pre[i]
      BY <1>2, <1>3, <2>1
    <3> QED BY <3>1
  <2>2. CASE ~(i <= n)
    <3>1. i - (n + 1) \in DOMAIN post /\ (n + 1) + (i - (n + 1)) = i
      BY <1>2, <1>3, <1>5, <2>2
    <3> QED BY <1>3, <3>1
  <2> QED BY <2>1, <2>2
<1>6. BuybackMissing(list) <=> ~Has(chain, BuybackAccount(ix))
  BY <1>4, <1>5 DEF BuybackMissing
<1> QED BY <1>6 DEF list, l, one

LEMMA BuybackLast ==
  ASSUME NEW pre, Prelude(pre), NEW ix, ix.op \in PoolTrades
  PROVE  BuybackMissing(pre \o <<ix>>) <=> ~Has(chain, BuybackAccount(ix))
<1> DEFINE l == pre \o <<ix>>
<1>1. IsSeq(<<>>) /\ \A i \in DOMAIN <<>> : <<>>[i].op \notin PoolTrades
  BY ShortSeqs
<1>2. BuybackMissing(l \o <<>>) <=> ~Has(chain, BuybackAccount(ix))
  BY <1>1, BuybackOf, PreludeOps DEF Prelude
<1>3. IsSeq(l)
  <2>1. IsSeq(<<ix>>)
    BY ShortSeqs
  <2> QED BY <2>1, IsSeqConcat DEF Prelude
<1> HIDE DEF l
<1>4. l \o <<>> = l
  BY <1>3, ConcatEmptySeq DEF IsSeq
<1> QED BY <1>2, <1>4 DEF l

(* The accounts of a pool trade that its list may open. *)
OwnAtas == {BaseAta(User), QuoteAta(chain, User)}

LEMMA NotOwn ==
  ASSUME NEW r, r # User
  PROVE  QuoteAta(chain, r) \notin OwnAtas
BY DEF OwnAtas, QuoteAta, BaseAta, AssociatedToken, SPL_TOKEN, TOKEN_2022

LEMMA PoolFacts ==
  ASSUME Settled, OnPool
  PROVE  /\ Sound(chain) /\ chain.err = "none" /\ chain.curve.exists /\ FeesOpen
         /\ chain.pool.exists /\ chain.pool.base_mint = Mint
         /\ chain.pool.quote_mint = Quote(chain) /\ Quote(chain) # Mint
         /\ chain.pool.is_cashback_coin = chain.curve.is_cashback_coin
         /\ ProgramOf(Quote(chain)) = SPL_TOKEN /\ ProgramOf(Mint) = TOKEN_2022
         /\ Cost(chain) \in Nat /\ Cost(chain) > 0
<1>1. Sound(chain) /\ chain.err = "none" /\ FeesOpen /\ chain.pool.exists
  BY DEF Settled, OnPool
<1>2. chain.curve.exists
  BY <1>1, PoolIs
<1>3. Quote(chain) # Mint
  BY <1>1, <1>2 DEF Sound, CurveShape, Ordinary, Quote
<1> QED BY <1>1, <1>2, <1>3, PoolIs, Worth DEF ProgramOf

LEMMA AmmIs ==
  ASSUME NEW buying \in BOOLEAN, NEW args,
         NEW ix \in AmmTrade(IF buying THEN "buy_amm" ELSE "sell_amm", PoolKey(chain), AmmConfig,
                             chain.pool, k, args)
  PROVE  \E fee \in ProtocolFeeRecipients(AmmConfig), buyback \in BuybackFeeRecipients(AmmConfig) :
           /\ ix.op = (IF buying THEN "buy_amm" ELSE "sell_amm") /\ ix.args = args
           /\ ix.a = AmmTradeAccounts(PoolKey(chain), chain.pool, k, fee)
           /\ ix.rest = AmmRemaining(chain.pool, k, buyback, buying)
           /\ ix.op \in PoolTrades /\ (buying <=> ix.op \notin Sells)
BY DEF AmmTrade, AmmFeeRecipientsPair, Ix, PoolTrades, Sells

(* A v1 pool trade on a chain where only accounts of the user were opened. *)
LEMMA AmmAfter ==
  ASSUME Settled, OnPool, NEW buying \in BOOLEAN, NEW args,
         NEW ix \in AmmTrade(IF buying THEN "buy_amm" ELSE "sell_amm", PoolKey(chain), AmmConfig,
                             chain.pool, k, args),
         Fresh(ix, buying), NEW v, LedgerOnly(chain, v),
         \A r : r # User /\ Has(v, QuoteAta(chain, r)) => Has(chain, QuoteAta(chain, r))
  PROVE  /\ Exec(v, ix).err = "none"
              <=> /\ ~Shifted /\ Has(chain, BuybackAccount(ix))
                  /\ Has(v, QuoteAta(chain, User)) /\ Has(v, BaseAta(User))
                  /\ IF buying THEN Cost(chain) <= Bal(v, QuoteAta(chain, User))
                     ELSE 1 <= Bal(v, BaseAta(User))
         /\ ix.op \in PoolTrades
<1>1. PICK fee \in ProtocolFeeRecipients(AmmConfig), buyback \in BuybackFeeRecipients(AmmConfig) :
        /\ ix.op = (IF buying THEN "buy_amm" ELSE "sell_amm") /\ ix.args = args
        /\ ix.a = AmmTradeAccounts(PoolKey(chain), chain.pool, k, fee)
        /\ ix.rest = AmmRemaining(chain.pool, k, buyback, buying)
        /\ ix.op \in PoolTrades /\ (buying <=> ix.op \notin Sells)
  BY AmmIs
<1>2. /\ Sound(chain) /\ chain.err = "none" /\ chain.curve.exists /\ FeesOpen /\ chain.pool.exists
      /\ Cost(chain) \in Nat
  BY PoolFacts
<1>3. /\ Sound(v) /\ v.err = "none" /\ v.curve = chain.curve /\ v.pool = chain.pool
      /\ Cost(v) = Cost(chain) /\ Proceeds(v) = Proceeds(chain) /\ FeesAt(v) = FeesAt(chain)
      /\ PoolKey(v) = PoolKey(chain) /\ \A p : QuoteAta(v, p) = QuoteAta(chain, p)
  BY <1>2, LedgerSame
<1>4. Exec(v, ix) = ExecAmm(v, ix)
  <2>1. ix.op \in {"buy_amm", "sell_amm"}
    BY <1>1
  <2> QED BY <2>1, Dispatch
<1>5. ExecAmm(v, ix).err = "none"
        <=> /\ ~ShiftedOn(v)
            /\ Willing(v, ix, ix.op \notin Sells, AmmNeeds(v, fee, buyback), BaseAta(User),
                       QuoteAta(v, User))
  <2>1. ix.rest = AmmRemaining(v.pool, k, buyback, ix.op \notin Sells)
    <3>1. (ix.op \notin Sells) = buying
      BY <1>1
    <3> QED BY <1>1, <1>3, <3>1
  <2>2. ix.a = AmmTradeAccounts(PoolKey(v), v.pool, k, fee) /\ v.pool.exists
    BY <1>1, <1>2, <1>3
  <2> QED BY <1>3, <2>1, <2>2, AmmOutcome
<1>6. ShiftedOn(v) <=> Shifted
  BY <1>3 DEF ShiftedOn, Shifted
<1>7. BuybackAccount(ix) = QuoteAta(chain, buyback)
  <2>1. Last(ix.rest) = QuoteAta(chain, buyback)
    BY <1>1, <1>2, Skips
  <2>2. ix.op \in {"buy_amm", "sell_amm"}
    BY <1>1
  <2> QED BY <2>1, <2>2 DEF BuybackAccount
<1>8. fee \in ListedFeeRecipients /\ buyback \in ListedBuybackRecipients
  BY DEF ListedFeeRecipients, ListedBuybackRecipients
<1>9. Has(v, QuoteAta(chain, fee))
  <2>1. Has(chain, QuoteAta(chain, fee))
    BY <1>2, <1>8, FeeAccountOpen
  <2> QED BY <2>1 DEF Has, LedgerOnly
<1>10. Has(v, QuoteAta(chain, buyback)) <=> Has(chain, QuoteAta(chain, buyback))
  <2>1. buyback # User
    BY <1>8, Recipients
  <2> QED BY <2>1 DEF Has, LedgerOnly
<1>11. ~LimitBroken(v, ix, ix.op \notin Sells)
  BY <1>1, <1>2, <1>3, FreshLimit DEF LimitBroken
<1>12. (\A a \in AmmNeeds(v, fee, buyback) \cup {BaseAta(User)} : Has(v, a))
         <=> /\ Has(v, QuoteAta(chain, User)) /\ Has(chain, BuybackAccount(ix))
             /\ Has(v, BaseAta(User))
  BY <1>3, <1>7, <1>9, <1>10 DEF AmmNeeds
<1>13. Bal(v, QuoteAta(chain, User)) \in Nat /\ Bal(v, BaseAta(User)) \in Nat
  BY <1>3, BalNat DEF Sound
<1>14. Willing(v, ix, ix.op \notin Sells, AmmNeeds(v, fee, buyback), BaseAta(User),
               QuoteAta(v, User))
         <=> /\ \A a \in AmmNeeds(v, fee, buyback) \cup {BaseAta(User)} : Has(v, a)
             /\ IF buying THEN Cost(chain) <= Bal(v, QuoteAta(chain, User))
                ELSE 1 <= Bal(v, BaseAta(User))
  BY <1>1, <1>2, <1>3, <1>11, <1>13 DEF Willing
<1> QED BY <1>1, <1>4, <1>5, <1>6, <1>12, <1>14

(* A pool trade after a prelude that opens accounts of the user. *)
LEMMA AmmLands ==
  ASSUME Settled, OnPool, NEW buying \in BOOLEAN, NEW args,
         NEW ix \in AmmTrade(IF buying THEN "buy_amm" ELSE "sell_amm", PoolKey(chain), AmmConfig,
                             chain.pool, k, args),
         Fresh(ix, buying), NEW pre, Prelude(pre), Openings(pre) \subseteq OwnAtas,
         IF buying THEN BaseAta(User) \in Openings(pre) ELSE QuoteAta(chain, User) \in Openings(pre),
         NEW kind \in {"amm", "trade_tx"}
  PROVE  Lands1(kind, pre \o <<ix>>, IF buying THEN QuoteAta(chain, User) ELSE BaseAta(User),
                IF buying THEN Cost(chain) ELSE 1)
<1> DEFINE list == pre \o <<ix>>
           purse == IF buying THEN QuoteAta(chain, User) ELSE BaseAta(User)
           spend == IF buying THEN Cost(chain) ELSE 1
           v == Run(chain, pre)
<1>1. /\ Sound(chain) /\ chain.err = "none" /\ Cost(chain) \in Nat /\ Cost(chain) > 0
  BY PoolFacts
<1>2. Opened(chain, v, Openings(pre)) /\ Run(chain, list) = Exec(v, ix)
  BY <1>1, RunAfter
<1> HIDE DEF v
<1>3. /\ LedgerOnly(chain, v) /\ \A a : Bal(v, a) = Bal(chain, a)
      /\ \A a : Has(v, a) <=> Has(chain, a) \/ a \in Openings(pre)
  BY <1>1, <1>2, OpenedSame DEF Opened
<1>4. \A r : r # User /\ Has(v, QuoteAta(chain, r)) => Has(chain, QuoteAta(chain, r))
  BY <1>3, NotOwn
<1>5. /\ Exec(v, ix).err = "none"
           <=> /\ ~Shifted /\ Has(chain, BuybackAccount(ix))
               /\ Has(v, QuoteAta(chain, User)) /\ Has(v, BaseAta(User))
               /\ IF buying THEN Cost(chain) <= Bal(v, QuoteAta(chain, User))
                  ELSE 1 <= Bal(v, BaseAta(User))
      /\ ix.op \in PoolTrades
  BY <1>3, <1>4, AmmAfter
<1>6. /\ 1 <= Bal(chain, BaseAta(User)) => Has(chain, BaseAta(User))
      /\ Cost(chain) <= Bal(chain, QuoteAta(chain, User)) => Has(chain, QuoteAta(chain, User))
  BY <1>1, HoldsSome
<1>7. Exec(v, ix).err = "none"
        <=> ~Shifted /\ Has(chain, BuybackAccount(ix)) /\ spend <= Bal(chain, purse)
  BY <1>3, <1>5, <1>6
<1>8. BuybackMissing(list) <=> ~Has(chain, BuybackAccount(ix))
  BY <1>5, BuybackLast
<1> HIDE DEF list
<1>9. Refused(kind, list, purse, spend)
        <=> ~(spend <= Bal(chain, purse)) \/ Shifted \/ BuybackMissing(list)
  <2>1. spend \in Nat /\ Bal(chain, purse) \in Nat
    BY <1>1, BalNat DEF Sound
  <2> HIDE DEF spend, purse
  <2>2. spend > Bal(chain, purse) <=> ~(spend <= Bal(chain, purse))
    BY <2>1
  <2> QED BY <2>2 DEF Refused
<1> QED BY <1>2, <1>7, <1>8, <1>9 DEF Lands1, list

LEMMA Pair ==
  ASSUME NEW a, NEW b
  PROVE  <<a, b>> = <<a>> \o <<b>>
<1> DEFINE l == <<a>>
           m == <<b>>
           c == <<a, b>>
           d == l \o m
           S == {a, b}
<1>1. /\ l \in Seq(S) /\ m \in Seq(S) /\ c \in Seq(S)
      /\ Len(l) = 1 /\ Len(m) = 1 /\ l[1] = a /\ m[1] = b
      /\ Len(c) = 2 /\ c[1] = a /\ c[2] = b
  OBVIOUS
<1> HIDE DEF l, m, c
<1>2. /\ d \in Seq(S) /\ Len(d) = 2 /\ d[1] = a /\ d[2] = b
  BY <1>1, ConcatProperties
<1> HIDE DEF d, S
<1>3. \A i \in 1..Len(c) : c[i] = d[i]
  BY <1>1, <1>2
<1>4. c = d
  BY <1>1, <1>2, <1>3, SeqEqual
<1> QED BY <1>4 DEF c, d, l, m

(* The lists of buy_amm and sell_amm: the account that receives, then the trade. *)
LEMMA AmmListLands ==
  ASSUME Settled, OnPool, NEW buying \in BOOLEAN, NEW args,
         NEW ix \in AmmTrade(IF buying THEN "buy_amm" ELSE "sell_amm", PoolKey(chain), AmmConfig,
                             chain.pool, k, args),
         Fresh(ix, buying), NEW create,
         create = IF buying THEN CreateAta(User, User, Mint, TOKEN_2022)
                  ELSE CreateAta(User, User, Quote(chain), SPL_TOKEN)
  PROVE  Lands1("amm", <<create, ix>>, IF buying THEN QuoteAta(chain, User) ELSE BaseAta(User),
                IF buying THEN Cost(chain) ELSE 1)
<1> DEFINE pre == <<create>>
<1>1. ProgramOf(Quote(chain)) = SPL_TOKEN /\ ProgramOf(Mint) = TOKEN_2022
  BY PoolFacts
<1>2. /\ Prelude(pre)
      /\ Openings(pre) = {IF buying THEN BaseAta(User) ELSE QuoteAta(chain, User)}
  <2>1. LET list == <<CreateAta(User, User, Mint, TOKEN_2022)>>
        IN  Prelude(list) /\ Openings(list) = {BaseAta(User)}
    BY <1>1, PreludeOne DEF BaseAta
  <2>2. LET list == <<CreateAta(User, User, Quote(chain), SPL_TOKEN)>>
        IN  Prelude(list) /\ Openings(list) = {QuoteAta(chain, User)}
    BY <1>1, PreludeOne DEF QuoteAta
  <2> QED BY <2>1, <2>2
<1>3. <<create, ix>> = pre \o <<ix>>
  BY Pair
<1> HIDE DEF pre
<1>4. Openings(pre) \subseteq OwnAtas
  BY <1>2 DEF OwnAtas
<1>5. IF buying THEN BaseAta(User) \in Openings(pre) ELSE QuoteAta(chain, User) \in Openings(pre)
  BY <1>2
<1>6. "amm" \in {"amm", "trade_tx"}
  OBVIOUS
<1>7. Lands1("amm", pre \o <<ix>>, IF buying THEN QuoteAta(chain, User) ELSE BaseAta(User),
             IF buying THEN Cost(chain) ELSE 1)
  BY <1>2, <1>4, <1>5, <1>6, AmmLands
<1> QED BY <1>3, <1>7

(* ---- trade_tx on a pool ---- *)
LEMMA AmmLedger ==
  ASSUME NEW w, Sound(w), w.err = "none", NEW ix, ix.op \in {"buy_amm", "sell_amm"},
         ix.args.limit \in Nat, Exec(w, ix).err = "none"
  PROVE  LedgerOnly(w, Exec(w, ix))
<1> DEFINE a == ix.a
           f == FeesAt(w)
           buying == ix.op \notin Sells
           skipped == SkippedAccounts(w, buying)
           ata == ix.rest[skipped + 2]
           needed == {a.user_quote_token_account, a.protocol_fee_recipient_token_account, ata}
           payments == <<<<a.protocol_fee_recipient_token_account, f.protocol>>, <<ata, f.buyback>>,
                         <<IF w.pool.is_cashback_coin THEN ix.rest[1]
                           ELSE a.coin_creator_vault_ata, f.creator>>>>
           T == Trade(w, ix, buying, needed, a.user_base_token_account,
                      a.user_quote_token_account, payments)
<1>1. DOMAIN w = Fields
  BY DEF Sound, World
<1>2. ExecAmm(w, ix) = Exec(w, ix)
  BY Dispatch
<1>3. ExecAmm(w, ix) = T
  <2> HIDE DEF T
  <2> DEFINE c1 == ~w.pool.exists \/ a.pool # PoolKey(w)
             c2 == a.coin_creator_vault_authority
                     # CoinCreatorVaultAuthority(w.pool.coin_creator)
             c3 == a.protocol_fee_recipient \notin ProtocolFeeRecipients(AmmConfig)
             c4 == ix.rest[skipped + 1] \notin BuybackFeeRecipients(AmmConfig)
             r4 == Refuse(w, c4, "BuybackFeeRecipientNotAuthorized", T)
             r3 == Refuse(w, c3, "NotAuthorized", r4)
             r2 == Refuse(w, c2, "ConstraintSeeds", r3)
  <2>1. ExecAmm(w, ix) = Refuse(w, c1, "AccountNotInitialized", r2)
    BY Zenon DEF ExecAmm, T
  <2> HIDE DEF c1, c2, c3, c4
  <2>2. ~c1 /\ ~c2 /\ ~c3 /\ ~c4
    BY <1>1, <1>2, <2>1, Refusals
  <2> QED BY <2>1, <2>2, Zenon DEF Refuse
<1>4. Payable(payments)
  BY FeePayments
<1>5. buying \in BOOLEAN
  OBVIOUS
<1> HIDE DEF payments, needed, buying
<1>6. LedgerOnly(w, T)
  BY <1>2, <1>3, <1>4, <1>5, TradeLedger
<1> QED BY <1>2, <1>3, <1>6

LEMMA UnwrapRuns ==
  ASSUME NEW w, World(w), w.err = "none", Has(w, Wsol)
  PROVE  Step(w, UnwrapSolInstruction(User)).err = "none"
<1> DEFINE ix == UnwrapSolInstruction(User)
           n == Bal(w, ix.a.account) + Bal(w, Unsynced(ix.a.account))
           gone == {ix.a.account, Unsynced(ix.a.account)}
           paid == Credit(w, ix.a.destination, n)
<1>1. ix.op = "close_account" /\ ix.a.account = Wsol
  BY DEF UnwrapSolInstruction, Ix, Wsol
<1>2. Exec(w, ix) = ExecCloseAccount(w, ix)
  BY <1>1, Dispatch
<1>3. n \in Nat
  BY BalNat
<1> HIDE DEF ix
<1>4. ExecCloseAccount(w, ix) = [paid EXCEPT !.ledger = [a \in DOMAIN @ \ gone |-> @[a]]]
  BY <1>1, Zenon DEF ExecCloseAccount, Refuse
<1>5. LedgerOnly(w, paid)
  <2> HIDE DEF n
  <2> QED BY <1>3, Credits
<1> HIDE DEF paid
<1>6. ExecCloseAccount(w, ix).err = paid.err
  BY <1>4
<1>7. paid.err = "none"
  BY <1>5 DEF LedgerOnly
<1> QED BY <1>2, <1>6, <1>7 DEF Step, ix

LEMMA WrapRuns ==
  ASSUME NEW w, Sound(w), w.err = "none", Has(w, Wsol), NEW limit \in Nat
  PROVE  LET v == Run(w, WrapSolInstructions(User, limit))
         IN  /\ ~(limit <= Bal(w, User)) => v.err # "none"
             /\ limit <= Bal(w, User) =>
                  /\ LedgerOnly(w, v) /\ v.err = "none"
                  /\ DOMAIN v.ledger = DOMAIN w.ledger \cup {Unsynced(Wsol)}
                  /\ limit <= Bal(v, Wsol)
<1> DEFINE t == Ix("transfer", [from |-> User, to |-> Wsol], <<>>, Amounts(limit, 0))
           y == Ix("sync_native", [account |-> Wsol], <<>>, NoArgs)
           dust == Unsynced(Wsol)
           u == Step(w, t)
           v == Step(u, y)
<1>1. WrapSolInstructions(User, limit) = <<t>> \o <<y>>
  <2>1. WrapSolInstructions(User, limit) = <<t, y>>
    BY DEF WrapSolInstructions, Wsol
  <2> HIDE DEF t, y
  <2> QED BY <2>1, Pair
<1>2. /\ t.op = "transfer" /\ t.a.from = User /\ t.a.to = Wsol /\ t.args.amount = limit
      /\ y.op = "sync_native" /\ y.a.account = Wsol
  BY DEF Ix, Amounts
<1> HIDE DEF t, y
<1>3. Run(w, WrapSolInstructions(User, limit)) = v
  <2> DEFINE l == <<t>>
             m == <<y>>
  <2>1. IsSeq(l) /\ IsSeq(m)
    BY ShortSeqs
  <2>2. \A z : Run(z, l) = Step(z, t) /\ Run(z, m) = Step(z, y)
    BY RunOne
  <2>3. WrapSolInstructions(User, limit) = l \o m
    BY <1>1
  <2> HIDE DEF l, m
  <2>4. Run(w, l \o m) = Run(Run(w, l), m)
    BY <2>1, RunConcat
  <2> QED BY <2>2, <2>3, <2>4
<1>4. /\ World(w) /\ DOMAIN w = Fields /\ \A a : Bal(w, a) \in Nat
      /\ User # Wsol /\ User # dust /\ Wsol # dust
  BY BalNat, SolAccounts DEF Sound, World
<1>5. u = ExecTransfer(w, t)
  BY <1>2, Dispatch DEF Step
<1>6. CASE ~(limit <= Bal(w, User))
  <2>1. Bal(w, t.a.from) < t.args.amount
    BY <1>2, <1>4, <1>6
  <2>2. u.err # "none"
    BY <1>4, <1>5, <2>1 DEF ExecTransfer, Refuse, Fields
  <2>3. v = u
    BY <2>2 DEF Step
  <2> QED BY <1>3, <1>6, <2>2, <2>3
<1>7. CASE limit <= Bal(w, User)
  <2>1. u = Move(w, User, dust, limit)
    <3>1. ~(Bal(w, t.a.from) < t.args.amount)
      BY <1>2, <1>4, <1>7
    <3> QED BY <1>2, <1>5, <3>1 DEF ExecTransfer, Refuse
  <2> HIDE DEF u
  <2>2. /\ LedgerOnly(w, u) /\ DOMAIN u.ledger = DOMAIN w.ledger \cup {dust}
        /\ \A a : Bal(u, a) = Bal(w, a) - (IF a = User THEN limit ELSE 0)
                                        + (IF a = dust THEN limit ELSE 0)
    <3>1. World(w) /\ Bal(w, User) >= limit
      BY <1>4, <1>7
    <3> QED BY <2>1, <3>1, Moves
  <2>3. World(u) /\ u.err = "none" /\ Has(u, Wsol)
    BY <2>2 DEF LedgerOnly, Has
  <2>4. Bal(u, dust) = Bal(w, dust) + limit /\ Bal(u, Wsol) = Bal(w, Wsol)
    <3>1. Bal(u, dust) = Bal(w, dust) - 0 + limit /\ Bal(u, Wsol) = Bal(w, Wsol) - 0 + 0
      BY <1>4, <2>2
    <3> QED BY <1>4, <3>1
  <2> DEFINE n == Bal(u, dust)
  <2>5. v = Move(u, dust, Wsol, n)
    BY <1>2, <2>3, Dispatch DEF Step, ExecSyncNative, Refuse
  <2> HIDE DEF v
  <2>6. n \in Nat /\ n >= n
    BY <1>4, <2>4
  <2>7. /\ LedgerOnly(u, v) /\ DOMAIN v.ledger = DOMAIN u.ledger \cup {Wsol}
        /\ \A a : Bal(v, a) = Bal(u, a) - (IF a = dust THEN n ELSE 0)
                                        + (IF a = Wsol THEN n ELSE 0)
    <3> HIDE DEF n
    <3>1. World(u) /\ Bal(u, dust) >= n
      BY <2>3, <2>6 DEF n
    <3> QED BY <2>5, <2>6, <3>1, Moves
  <2>8. limit <= Bal(v, Wsol)
    <3>1. Bal(v, Wsol) = Bal(u, Wsol) - 0 + n
      BY <1>4, <2>7
    <3>2. n = Bal(w, dust) + limit
      BY <2>4
    <3> HIDE DEF n
    <3> QED BY <1>4, <2>4, <3>1, <3>2
  <2>9. DOMAIN v.ledger = DOMAIN w.ledger \cup {dust}
    BY <2>2, <2>3, <2>7 DEF Has
  <2>10. LedgerOnly(w, v) /\ v.err = "none"
    BY <2>2, <2>3, <2>7 DEF LedgerOnly
  <2> QED BY <1>3, <1>7, <2>8, <2>9, <2>10
<1> QED BY <1>6, <1>7

LEMMA RunTwoMore ==
  ASSUME NEW w, NEW pre, IsSeq(pre), NEW trade, NEW last
  PROVE  Run(w, pre \o <<trade>> \o <<last>>) = Step(Step(Run(w, pre), trade), last)
<1> DEFINE l == <<trade>>
           m == <<last>>
<1>1. IsSeq(l) /\ IsSeq(m)
  BY ShortSeqs
<1>2. \A z : Run(z, l) = Step(z, trade) /\ Run(z, m) = Step(z, last)
  BY RunOne
<1> HIDE DEF l, m
<1> DEFINE c == pre \o l
<1>3. IsSeq(c)
  BY <1>1, IsSeqConcat
<1>4. Run(w, c) = Run(Run(w, pre), l)
  BY <1>1, RunConcat
<1> HIDE DEF c
<1>5. Run(w, c \o m) = Run(Run(w, c), m)
  BY <1>1, <1>3, RunConcat
<1> QED BY <1>2, <1>4, <1>5 DEF c, l, m

LEMMA UnwrapsAfter ==
  ASSUME NEW u, Sound(u), u.err = "none", Has(u, Wsol), NEW ix, ix.op \in {"buy_amm", "sell_amm"},
         ix.args.limit \in Nat
  PROVE  Step(Step(u, ix), UnwrapSolInstruction(User)).err = "none"
           <=> Exec(u, ix).err = "none"
<1> DEFINE v == Exec(u, ix)
<1>1. Step(u, ix) = v
  BY DEF Step
<1>2. CASE v.err # "none"
  BY <1>1, <1>2 DEF Step
<1>3. CASE v.err = "none"
  <2>1. LedgerOnly(u, v)
    BY <1>3, AmmLedger
  <2>2. World(v) /\ Has(v, Wsol)
    BY <2>1 DEF LedgerOnly, Has
  <2> HIDE DEF v
  <2>3. Step(v, UnwrapSolInstruction(User)).err = "none"
    BY <1>3, <2>2, UnwrapRuns
  <2> QED BY <1>1, <1>3, <2>3 DEF v
<1> QED BY <1>2, <1>3

(* The limits a builder computes from the state it fetched. *)
Quoted(limit, buying) ==
  \E s \in Slippages : limit = IF buying THEN MaxCost(s) ELSE MinProceeds(s)

LEMMA QuotedFresh ==
  ASSUME Settled, NEW buying \in BOOLEAN, NEW limit, Quoted(limit, buying)
  PROVE  /\ limit \in Nat /\ (buying => Cost(chain) <= limit)
         /\ \A ix : ix.op \notin ExactIns /\ ix.args.limit = limit => Fresh(ix, buying)
<1>1. /\ Cost(chain) \in Nat /\ Proceeds(chain) \in Nat /\ Slippages \subseteq Nat
  BY Worth, WalletAssumption DEF Settled
<1>2. PICK s \in Slippages : limit = IF buying THEN MaxCost(s) ELSE MinProceeds(s)
  BY DEF Quoted
<1>3. MaxCost(s) \in Nat /\ MinProceeds(s) \in Nat /\ Cost(chain) <= MaxCost(s)
  BY <1>1 DEF MaxCost, MinProceeds
<1>4. limit \in Nat /\ (buying => Cost(chain) <= limit)
  BY <1>2, <1>3
<1>5. ASSUME NEW ix, ix.op \notin ExactIns, ix.args.limit = limit PROVE Fresh(ix, buying)
  <2>1. CASE buying
    BY <1>2, <1>5, <2>1 DEF Fresh
  <2>2. CASE ~buying
    BY <1>2, <1>5, <2>2 DEF Fresh
  <2> QED BY <2>1, <2>2
<1> QED BY <1>4, <1>5

(* The accounts trade_tx opens on a wSOL pool, and the wrap: no pool trade.  *)
LEMMA WrappedPrelude ==
  ASSUME Settled, OnPool, Quote(chain) = NATIVE_MINT, NEW buying \in BOOLEAN, NEW limit \in Nat,
         NEW list \in AmmTradeTx(PoolKey(chain), AmmConfig, chain.pool, k, buying, 1, limit)
  PROVE  \E pre : \E trade \in AmmTrade(IF buying THEN "buy_amm" ELSE "sell_amm", PoolKey(chain),
                                        AmmConfig, chain.pool, k, Amounts(1, limit)) :
           /\ Prelude(pre)
           /\ Openings(pre) = {Wsol} \cup (IF buying THEN {BaseAta(User)} ELSE {})
           /\ list = pre \o (IF buying THEN WrapSolInstructions(User, limit) ELSE <<>>)
                     \o <<trade>> \o <<UnwrapSolInstruction(User)>>
<1> DEFINE native == chain.pool.quote_mint = NATIVE_MINT
           base == CreateAta(User, User, chain.pool.base_mint, TOKEN_2022)
           quote == CreateAta(User, User, chain.pool.quote_mint, SPL_TOKEN)
           first == IF buying THEN <<base>> ELSE <<>>
           wraps == IF buying /\ native THEN WrapSolInstructions(User, limit) ELSE <<>>
           wrap == IF buying THEN WrapSolInstructions(User, limit) ELSE <<>>
           last == <<UnwrapSolInstruction(User)>>
           post == IF native THEN last ELSE <<>>
           op == IF buying THEN "buy_amm" ELSE "sell_amm"
           pre == first \o <<quote>>
<1>1. PICK trade \in AmmTrade(op, PoolKey(chain), AmmConfig, chain.pool, k, Amounts(1, limit)) :
        list = first \o <<quote>> \o wraps \o <<trade>> \o post
  BY Zenon DEF AmmTradeTx, k
<1>2. /\ native /\ chain.pool.base_mint = Mint /\ ProgramOf(Mint) = TOKEN_2022
      /\ ProgramOf(NATIVE_MINT) = SPL_TOKEN
  BY PoolFacts
<1>3. Prelude(first) /\ Openings(first) = IF buying THEN {BaseAta(User)} ELSE {}
  <2>1. LET l == <<CreateAta(User, User, Mint, TOKEN_2022)>>
        IN  Prelude(l) /\ Openings(l) = {BaseAta(User)}
    BY <1>2, PreludeOne DEF BaseAta
  <2> QED BY <1>2, <2>1, PreludeNone
<1>4. Prelude(<<quote>>) /\ Openings(<<quote>>) = {Wsol}
  <2>1. LET l == <<CreateAta(User, User, NATIVE_MINT, SPL_TOKEN)>>
        IN  Prelude(l) /\ Openings(l) = {Wsol}
    BY <1>2, PreludeOne DEF Wsol, UserWsolAta
  <2> QED BY <1>2, <2>1
<1>5. wraps = wrap /\ post = last
  BY <1>2
<1> HIDE DEF first, quote, wraps, post, wrap, last
<1>6. Prelude(pre) /\ Openings(pre) = Openings(first) \cup {Wsol}
  BY <1>3, <1>4, PreludeConcat
<1>7. list = pre \o wrap \o <<trade>> \o last
  BY <1>1, <1>5
<1> HIDE DEF pre
<1> QED BY <1>3, <1>6, <1>7 DEF wrap, last

LEMMA WrapShape ==
  ASSUME NEW limit
  PROVE  LET m == WrapSolInstructions(User, limit)
         IN  IsSeq(m) /\ \A i \in DOMAIN m : m[i].op \notin PoolTrades
<1> DEFINE t == Ix("transfer", [from |-> User, to |-> Wsol], <<>>, Amounts(limit, 0))
           y == Ix("sync_native", [account |-> Wsol], <<>>, NoArgs)
<1>1. t.op \notin PoolTrades /\ y.op \notin PoolTrades
  BY DEF Ix, PoolTrades
<1>2. WrapSolInstructions(User, limit) = <<t, y>>
  BY DEF WrapSolInstructions, Wsol
<1> HIDE DEF t, y
<1>3. \A i \in DOMAIN <<t, y>> : <<t, y>>[i].op \notin PoolTrades
  BY <1>1
<1>4. IsSeq(<<t, y>>)
  BY ShortSeqs
<1> QED BY <1>2, <1>3, <1>4

LEMMA WrappedTradeLands ==
  ASSUME Settled, OnPool, Quote(chain) = NATIVE_MINT, NEW buying \in BOOLEAN,
         NEW limit, Quoted(limit, buying),
         NEW list \in AmmTradeTx(PoolKey(chain), AmmConfig, chain.pool, k, buying, 1, limit)
  PROVE  Lands1("trade_tx", list, IF buying THEN User ELSE BaseAta(User),
                IF buying THEN limit ELSE 1)
<1> DEFINE wrap == IF buying THEN WrapSolInstructions(User, limit) ELSE <<>>
           unwrap == UnwrapSolInstruction(User)
           op == IF buying THEN "buy_amm" ELSE "sell_amm"
           purse == IF buying THEN User ELSE BaseAta(User)
           spend == IF buying THEN limit ELSE 1
<1>1. /\ limit \in Nat /\ (buying => Cost(chain) <= limit)
      /\ \A ix : ix.op \notin ExactIns /\ ix.args.limit = limit => Fresh(ix, buying)
  BY QuotedFresh
<1>2. PICK pre : \E trade \in AmmTrade(op, PoolKey(chain), AmmConfig, chain.pool, k, Amounts(1, limit)) :
        /\ Prelude(pre)
        /\ Openings(pre) = {Wsol} \cup (IF buying THEN {BaseAta(User)} ELSE {})
        /\ list = pre \o wrap \o <<trade>> \o <<unwrap>>
  BY <1>1, WrappedPrelude
<1>3. PICK trade \in AmmTrade(op, PoolKey(chain), AmmConfig, chain.pool, k, Amounts(1, limit)) :
        /\ Prelude(pre)
        /\ Openings(pre) = {Wsol} \cup (IF buying THEN {BaseAta(User)} ELSE {})
        /\ list = pre \o wrap \o <<trade>> \o <<unwrap>>
  BY <1>2
<1>4. /\ trade.op = op /\ trade.args.limit = limit /\ op \in {"buy_amm", "sell_amm"}
      /\ trade.op \in PoolTrades /\ Fresh(trade, buying)
  <2>1. trade.op = op /\ trade.args.limit = limit
    BY DEF AmmTrade, Ix, Amounts
  <2>2. op \notin ExactIns /\ op \in PoolTrades /\ op \in {"buy_amm", "sell_amm"}
    BY DEF ExactIns, PoolTrades
  <2> QED BY <1>1, <2>1, <2>2
<1>5. unwrap.op \notin PoolTrades
  BY DEF UnwrapSolInstruction, Ix, PoolTrades
<1>6. /\ Sound(chain) /\ chain.err = "none" /\ Cost(chain) \in Nat
      /\ QuoteAta(chain, User) = Wsol
  BY PoolFacts DEF QuoteAta, Wsol, UserWsolAta
<1>7. IsSeq(wrap) /\ \A i \in DOMAIN wrap : wrap[i].op \notin PoolTrades
  <2>1. IsSeq(<<>>) /\ \A i \in DOMAIN <<>> : <<>>[i].op \notin PoolTrades
    BY ShortSeqs
  <2> QED BY <2>1, WrapShape
<1> DEFINE before == pre \o wrap
           v0 == Run(chain, pre)
           v == Run(v0, wrap)
<1>8. IsSeq(before) /\ (\A i \in DOMAIN before : before[i].op \notin PoolTrades)
      /\ Run(chain, before) = v
  <2> HIDE DEF wrap
  <2>1. IsSeq(pre) /\ \A i \in DOMAIN pre : pre[i].op \notin PoolTrades
    BY <1>3, PreludeOps DEF Prelude
  <2> DEFINE Good == {ix \in {before[i] : i \in DOMAIN before} : ix.op \notin PoolTrades}
             All == {ix \in {pre[i] : i \in DOMAIN pre} \cup {wrap[i] : i \in DOMAIN wrap} :
                       ix.op \notin PoolTrades}
  <2>2. (\A i \in DOMAIN pre : pre[i] \in All) /\ (\A i \in DOMAIN wrap : wrap[i] \in All)
    BY <1>7, <2>1
  <2>3. \A ix \in All : ix.op \notin PoolTrades
    OBVIOUS
  <2> HIDE DEF All
  <2>4. \A i \in DOMAIN before : before[i] \in All
    BY <1>7, <2>1, <2>2, ConcatAll
  <2>5. IsSeq(before)
    BY <1>7, <2>1, IsSeqConcat
  <2>6. Run(chain, before) = v
    BY <1>7, <2>1, RunConcat
  <2> QED BY <2>3, <2>4, <2>5, <2>6
<1>9. BuybackMissing(list) <=> ~Has(chain, BuybackAccount(trade))
  <2> HIDE DEF before
  <2>1. IsSeq(<<unwrap>>) /\ \A i \in DOMAIN <<unwrap>> : <<unwrap>>[i].op \notin PoolTrades
    <3> HIDE DEF unwrap
    <3>1. DOMAIN <<unwrap>> = {1} /\ <<unwrap>>[1] = unwrap
      OBVIOUS
    <3> QED BY <1>5, <3>1, ShortSeqs
  <2> DEFINE post == <<unwrap>>
  <2> HIDE DEF post
  <2>2. BuybackMissing(before \o <<trade>> \o post) <=> ~Has(chain, BuybackAccount(trade))
    BY <1>4, <1>8, <2>1, BuybackOf DEF post
  <2> QED BY <1>3, <2>2 DEF post, before
<1>10. Run(chain, list) = Step(Step(v, trade), unwrap)
  <2> HIDE DEF before, v, unwrap
  <2> QED BY <1>3, <1>8, RunTwoMore DEF before
<1>11. /\ Opened(chain, v0, Openings(pre)) /\ Sound(v0) /\ v0.err = "none" /\ LedgerOnly(chain, v0)
       /\ \A a : Bal(v0, a) = Bal(chain, a)
       /\ \A a : Has(v0, a) <=> Has(chain, a) \/ a \in Openings(pre)
  <2> HIDE DEF v0
  <2>1. Opened(chain, v0, Openings(pre))
    BY <1>3, <1>6, PreludeOpens DEF Sound, v0
  <2> QED BY <1>6, <2>1, OpenedSame DEF Opened
<1> HIDE DEF v0, before, op
<1>12. \A a : Bal(chain, a) \in Nat
  BY <1>6, BalNat DEF Sound
<1>13. CASE buying /\ ~(limit <= Bal(chain, User))
  <2>1. v.err # "none"
    <3>1. Has(v0, Wsol) /\ ~(limit <= Bal(v0, User))
      BY <1>3, <1>11, <1>13
    <3> QED BY <1>1, <1>11, <1>13, <3>1, WrapRuns
  <2>2. Run(chain, list).err # "none"
    <3> HIDE DEF v, unwrap
    <3>1. Step(v, trade) = v
      BY <2>1 DEF Step
    <3>2. Step(v, unwrap) = v
      BY <2>1 DEF Step
    <3> QED BY <1>10, <2>1, <3>1, <3>2
  <2>3. spend > Bal(chain, purse)
    BY <1>1, <1>12, <1>13
  <2> QED BY <2>2, <2>3 DEF Lands1, Refused
<1>14. CASE ~(buying /\ ~(limit <= Bal(chain, User)))
  <2>1. /\ LedgerOnly(chain, v)
        /\ \A a : Has(v, a) => Has(v0, a) \/ a = Unsynced(Wsol)
        /\ \A a : Has(v0, a) => Has(v, a)
        /\ buying => Cost(chain) <= Bal(v, Wsol)
        /\ ~buying => Bal(v, BaseAta(User)) = Bal(chain, BaseAta(User))
    <3>1. CASE buying
      <4>1. Has(v0, Wsol) /\ limit <= Bal(v0, User)
        BY <1>3, <1>11, <1>14, <3>1
      <4>2. /\ LedgerOnly(v0, v) /\ v.err = "none"
            /\ DOMAIN v.ledger = DOMAIN v0.ledger \cup {Unsynced(Wsol)}
            /\ limit <= Bal(v, Wsol)
        BY <1>1, <1>11, <3>1, <4>1, WrapRuns
      <4> HIDE DEF v
      <4>3. LedgerOnly(chain, v)
        BY <1>11, <4>2 DEF LedgerOnly
      <4>4. Bal(v, Wsol) \in Nat
        BY <4>2, BalNat DEF LedgerOnly
      <4> QED BY <1>1, <1>6, <3>1, <4>2, <4>3, <4>4 DEF Has
    <3>2. CASE ~buying
      <4>1. v = v0
        BY <3>2, RunNone
      <4> QED BY <1>11, <3>2, <4>1
    <3> QED BY <3>1, <3>2
  <2> HIDE DEF v
  <2>2. Sound(v) /\ v.err = "none" /\ Has(v, Wsol) /\ (buying => Has(v, BaseAta(User)))
    BY <1>3, <1>6, <1>11, <2>1, LedgerSame
  <2>3. \A r : r # User /\ Has(v, QuoteAta(chain, r)) => Has(chain, QuoteAta(chain, r))
    <3> TAKE r
    <3> HAVE r # User /\ Has(v, QuoteAta(chain, r))
    <3>1. QuoteAta(chain, r) # Unsynced(Wsol)
      BY DEF QuoteAta, AssociatedToken, Unsynced
    <3>2. QuoteAta(chain, r) \notin OwnAtas
      BY NotOwn
    <3>3. QuoteAta(chain, r) \notin Openings(pre)
      BY <1>3, <1>6, <3>2 DEF OwnAtas
    <3> QED BY <1>11, <2>1, <3>1, <3>3
  <2>4. Exec(v, trade).err = "none"
          <=> /\ ~Shifted /\ Has(chain, BuybackAccount(trade))
              /\ Has(v, QuoteAta(chain, User)) /\ Has(v, BaseAta(User))
              /\ IF buying THEN Cost(chain) <= Bal(v, QuoteAta(chain, User))
                 ELSE 1 <= Bal(v, BaseAta(User))
    <3>1. trade \in AmmTrade(IF buying THEN "buy_amm" ELSE "sell_amm", PoolKey(chain), AmmConfig,
                             chain.pool, k, Amounts(1, limit))
      BY DEF op
    <3> DEFINE args == Amounts(1, limit)
    <3> HIDE DEF args
    <3>2. trade \in AmmTrade(IF buying THEN "buy_amm" ELSE "sell_amm", PoolKey(chain), AmmConfig,
                             chain.pool, k, args)
      BY <3>1 DEF args
    <3> QED BY <1>4, <2>1, <2>3, <3>2, AmmAfter
  <2>5. Run(chain, list).err = "none" <=> Exec(v, trade).err = "none"
    BY <1>1, <1>4, <1>10, <2>2, UnwrapsAfter
  <2>6. 1 <= Bal(chain, BaseAta(User)) => Has(v, BaseAta(User))
    <3>1. 1 <= Bal(chain, BaseAta(User)) => Has(chain, BaseAta(User))
      BY HoldsSome
    <3> QED BY <1>11, <2>1, <3>1
  <2>7. Run(chain, list).err = "none"
          <=> ~Shifted /\ Has(chain, BuybackAccount(trade)) /\ spend <= Bal(chain, purse)
    BY <1>6, <1>14, <2>1, <2>2, <2>4, <2>5, <2>6
  <2>8. spend > Bal(chain, purse) <=> ~(spend <= Bal(chain, purse))
    <3>1. spend \in Nat /\ Bal(chain, purse) \in Nat
      BY <1>1, <1>12
    <3> HIDE DEF spend, purse
    <3> QED BY <3>1
  <2> HIDE DEF spend, purse
  <2>9. Refused("trade_tx", list, purse, spend)
          <=> ~(spend <= Bal(chain, purse)) \/ Shifted \/ BuybackMissing(list)
    BY <2>8 DEF Refused
  <2> QED BY <1>9, <2>7, <2>9 DEF Lands1, spend, purse
<1> QED BY <1>13, <1>14

LEMMA NoneAfter ==
  ASSUME NEW l, IsSeq(l)
  PROVE  l \o <<>> = l /\ <<>> \o l = l
BY ConcatEmptySeq DEF IsSeq

(* trade_tx on a pool in another quote: the two accounts, then the trade. *)
LEMMA TokenPoolTradeLands ==
  ASSUME Settled, OnPool, Quote(chain) # NATIVE_MINT, NEW buying \in BOOLEAN,
         NEW limit, Quoted(limit, buying),
         NEW list \in AmmTradeTx(PoolKey(chain), AmmConfig, chain.pool, k, buying, 1, limit)
  PROVE  Lands1("trade_tx", list, IF buying THEN QuoteAta(chain, User) ELSE BaseAta(User),
                IF buying THEN Cost(chain) ELSE 1)
<1> DEFINE native == chain.pool.quote_mint = NATIVE_MINT
           base == CreateAta(User, User, chain.pool.base_mint, TOKEN_2022)
           quote == CreateAta(User, User, chain.pool.quote_mint, SPL_TOKEN)
           first == IF buying THEN <<base>> ELSE <<>>
           wraps == IF buying /\ native THEN WrapSolInstructions(User, limit) ELSE <<>>
           post == IF native THEN <<UnwrapSolInstruction(User)>> ELSE <<>>
           op == IF buying THEN "buy_amm" ELSE "sell_amm"
           args == Amounts(1, limit)
           pre == first \o <<quote>>
<1>1. PICK trade \in AmmTrade(op, PoolKey(chain), AmmConfig, chain.pool, k, args) :
        list = first \o <<quote>> \o wraps \o <<trade>> \o post
  BY Zenon DEF AmmTradeTx, k
<1>2. /\ ~native /\ chain.pool.base_mint = Mint /\ ProgramOf(Mint) = TOKEN_2022
      /\ chain.pool.quote_mint = Quote(chain) /\ ProgramOf(Quote(chain)) = SPL_TOKEN
  BY PoolFacts
<1>3. Prelude(first) /\ Openings(first) = IF buying THEN {BaseAta(User)} ELSE {}
  <2>1. LET l == <<CreateAta(User, User, Mint, TOKEN_2022)>>
        IN  Prelude(l) /\ Openings(l) = {BaseAta(User)}
    BY <1>2, PreludeOne DEF BaseAta
  <2> QED BY <1>2, <2>1, PreludeNone
<1>4. Prelude(<<quote>>) /\ Openings(<<quote>>) = {QuoteAta(chain, User)}
  <2>1. LET l == <<CreateAta(User, User, Quote(chain), SPL_TOKEN)>>
        IN  Prelude(l) /\ Openings(l) = {QuoteAta(chain, User)}
    BY <1>2, PreludeOne DEF QuoteAta
  <2> QED BY <1>2, <2>1
<1>5. wraps = <<>> /\ post = <<>>
  BY <1>2
<1> HIDE DEF first, quote, wraps, post
<1>6. Prelude(pre) /\ Openings(pre) = Openings(first) \cup {QuoteAta(chain, User)}
  BY <1>3, <1>4, PreludeConcat
<1>7. list = pre \o <<trade>>
  <2> HIDE DEF pre
  <2>1. list = pre \o <<>> \o <<trade>> \o <<>>
    BY <1>1, <1>5 DEF pre
  <2>2. IsSeq(pre) /\ IsSeq(<<trade>>)
    BY <1>6, ShortSeqs DEF Prelude
  <2>3. pre \o <<>> = pre
    BY <2>2, NoneAfter
  <2> DEFINE one == <<trade>>
  <2> HIDE DEF one
  <2>4. IsSeq(pre \o one)
    BY <2>2, IsSeqConcat DEF one
  <2>5. pre \o one \o <<>> = pre \o one
    BY <2>4, NoneAfter
  <2> QED BY <2>1, <2>3, <2>5 DEF one
<1>8. Fresh(trade, buying)
  <2>1. trade.op = op /\ trade.args.limit = limit
    BY DEF AmmTrade, Ix, Amounts
  <2>2. op \notin ExactIns
    BY DEF ExactIns
  <2> QED BY <2>1, <2>2, QuotedFresh
<1>9. Openings(pre) \subseteq OwnAtas
  BY <1>3, <1>6 DEF OwnAtas
<1>10. IF buying THEN BaseAta(User) \in Openings(pre) ELSE QuoteAta(chain, User) \in Openings(pre)
  BY <1>3, <1>6
<1>11. "trade_tx" \in {"amm", "trade_tx"}
  OBVIOUS
<1> HIDE DEF pre, args
<1>12. Lands1("trade_tx", pre \o <<trade>>,
              IF buying THEN QuoteAta(chain, User) ELSE BaseAta(User),
              IF buying THEN Cost(chain) ELSE 1)
  BY <1>6, <1>8, <1>9, <1>10, <1>11, AmmLands
<1> QED BY <1>7, <1>12

LEMMA TradeTxLands ==
  ASSUME Settled, chain.curve.exists, NEW buying \in BOOLEAN, NEW limit, Quoted(limit, buying),
         NEW list \in TradeTxInstructions(PumpGlobal, AmmConfig, chain.curve,
                        IF OnPool THEN {pool} ELSE {}, k, buying, 1, limit)
  PROVE  LET wraps == chain.curve.complete /\ Quote(chain) = NATIVE_MINT
         IN  Lands1("trade_tx", list, IF buying THEN CurvePurse(chain) ELSE BaseAta(User),
                    IF buying THEN IF wraps THEN limit ELSE Cost(chain) ELSE 1)
<1> DEFINE c == chain.curve
           wraps == c.complete /\ Quote(chain) = NATIVE_MINT
           pools == IF OnPool THEN {pool} ELSE {}
<1>1. c.complete \in BOOLEAN
  BY DEF Settled, Sound, CurveShape
<1>2. CASE ~c.complete
  <2> DEFINE op == IF buying THEN "buy_v2" ELSE "sell_v2"
             args == Amounts(1, limit)
  <2>1. PICK ix \in V2Trade(op, PumpGlobal, c, k, args) : list = Append(UserTradeAtas(k, c, buying), ix)
    <3>1. CASE buying
      BY <1>2, <3>1 DEF TradeTxInstructions, BuyV2Instructions, BuyV2Instruction
    <3>2. CASE ~buying
      BY <1>2, <3>2 DEF TradeTxInstructions, SellV2Instructions, SellV2Instruction
    <3> QED BY <3>1, <3>2
  <2>2. ix.op = op /\ ix.args.limit = limit /\ op \notin ExactIns /\ op \in V2Ops
        /\ (op \notin Sells) = buying
    BY DEF V2Trade, Ix, Amounts, ExactIns, V2Ops, Sells
  <2>3. Fresh(ix, op \notin Sells)
    BY <2>2, QuotedFresh
  <2>4. OnOpenCurve
    BY <1>2 DEF OnOpenCurve
  <2>5. "trade_tx" \in {"v2", "trade_tx"}
    OBVIOUS
  <2> HIDE DEF op, args
  <2>6. LET buys == op \notin Sells
        IN  Lands1("trade_tx", Append(UserTradeAtas(k, c, buys), ix),
                   IF buys THEN CurvePurse(chain) ELSE BaseAta(User),
                   IF buys THEN Cost(chain) ELSE 1)
    BY <2>2, <2>3, <2>4, <2>5, V2Lands
  <2>7. Lands1("trade_tx", list, IF buying THEN CurvePurse(chain) ELSE BaseAta(User),
               IF buying THEN Cost(chain) ELSE 1)
    BY <2>1, <2>2, <2>6
  <2> QED BY <1>2, <2>7
<1>3. CASE c.complete
  <2>1. OnPool /\ list \in AmmTradeTx(PoolKey(chain), AmmConfig, chain.pool, k, buying, 1, limit)
    BY <1>3 DEF TradeTxInstructions, pool
  <2>2. CASE Quote(chain) = NATIVE_MINT
    <3>1. CurvePurse(chain) = User
      BY <2>2 DEF CurvePurse
    <3>2. Lands1("trade_tx", list, IF buying THEN User ELSE BaseAta(User),
                 IF buying THEN limit ELSE 1)
      BY <2>1, <2>2, WrappedTradeLands
    <3> QED BY <1>3, <2>2, <3>1, <3>2
  <2>3. CASE Quote(chain) # NATIVE_MINT
    <3>1. CurvePurse(chain) = QuoteAta(chain, User)
      BY <2>3 DEF CurvePurse
    <3>2. Lands1("trade_tx", list, IF buying THEN QuoteAta(chain, User) ELSE BaseAta(User),
                 IF buying THEN Cost(chain) ELSE 1)
      BY <2>1, <2>3, TokenPoolTradeLands
    <3> QED BY <1>3, <2>3, <3>1, <3>2
  <2> QED BY <2>2, <2>3
<1> QED BY <1>1, <1>2, <1>3

(* ---- v3 and the v2 pool trades ---- *)
V3Ops == {"buy_v3", "buy_exact_quote_in_v3", "sell_v3"}

LEMMA V3Lands ==
  ASSUME Settled, OnOpenCurve, NEW b \in BuybackFeeRecipients(PumpGlobal), NEW op \in V3Ops,
         NEW ix, ix.op = op, ix.a = V3Accounts(k, chain.curve.quote_mint, b),
         Fresh(ix, op \notin Sells)
  PROVE  LET buying == op \notin Sells
         IN  Lands1("v3", WithUserAtas(k, chain.curve.quote_mint, b, buying, ix),
                    IF buying THEN CurvePurse(chain) ELSE BaseAta(User),
                    IF buying THEN Cost(chain) ELSE 1)
<1> DEFINE buying == op \notin Sells
           c == chain.curve
           q == ResolveQuoteMint(c.quote_mint)
           c1 == CreateAta(User, User, q, SPL_TOKEN)
           c2 == CreateAta(User, b, q, SPL_TOKEN)
           first == IF buying THEN <<CreateAta(User, User, Mint, TOKEN_2022)>> ELSE <<>>
           mid == IF q = NATIVE_MINT THEN <<>> ELSE <<c1, c2>>
           pre == first \o mid
           list == WithUserAtas(k, c.quote_mint, b, buying, ix)
           purse == IF buying THEN CurvePurse(chain) ELSE BaseAta(User)
           spend == IF buying THEN Cost(chain) ELSE 1
           needed == V3Needs(chain, b)
           willing == ~c.is_cashback_coin
<1>1. /\ Sound(chain) /\ chain.err = "none" /\ c.exists /\ ~c.complete
      /\ c.is_cashback_coin \in BOOLEAN
      /\ q # Mint /\ Quote(chain) = q
  BY DEF Settled, OnOpenCurve, Sound, CurveShape, Ordinary, Quote
<1>2. list = pre \o <<ix>>
  BY Zenon DEF WithUserAtas, k
<1>3. buying \in BOOLEAN
  OBVIOUS
<1>4. ProgramOf(Mint) = TOKEN_2022 /\ ProgramOf(q) = SPL_TOKEN
  BY <1>1 DEF ProgramOf
<1>5. Prelude(first) /\ (buying => BaseAta(User) \in Openings(first))
  <2>1. LET l == <<CreateAta(User, User, Mint, TOKEN_2022)>>
        IN  Prelude(l) /\ Openings(l) = {BaseAta(User)}
    BY <1>4, PreludeOne DEF BaseAta
  <2> QED BY <2>1, PreludeNone
<1>6. /\ Prelude(mid)
      /\ q # NATIVE_MINT =>
           QuoteAta(chain, User) \in Openings(mid) /\ QuoteAta(chain, b) \in Openings(mid)
  <2> DEFINE l == <<c1>>
             m == <<c2>>
  <2>1. /\ Prelude(l) /\ Openings(l) = {QuoteAta(chain, User)}
        /\ Prelude(m) /\ Openings(m) = {QuoteAta(chain, b)}
    BY <1>1, <1>4, PreludeOne DEF QuoteAta
  <2>2. <<c1, c2>> = l \o m
    <3> HIDE DEF c1, c2
    <3> QED BY Pair
  <2> HIDE DEF l, m
  <2>3. Prelude(l \o m) /\ Openings(l \o m) = Openings(l) \cup Openings(m)
    BY <2>1, PreludeConcat
  <2>4. CASE q = NATIVE_MINT
    BY <2>4, PreludeNone
  <2>5. CASE q # NATIVE_MINT
    <3>1. mid = l \o m
      BY <2>2, <2>5
    <3> QED BY <2>1, <2>3, <3>1
  <2> QED BY <2>4, <2>5
<1> HIDE DEF first, mid
<1>7. Prelude(pre) /\ Openings(pre) = Openings(first) \cup Openings(mid)
  BY <1>5, <1>6, PreludeConcat
<1> HIDE DEF pre, buying
<1>8. ASSUME NEW v, Opened(chain, v, Openings(pre))
      PROVE  /\ willing => (Exec(v, ix).err = "none"
                  <=> Willing(v, ix, buying, needed, BaseAta(User), CurvePurse(chain)))
             /\ ~willing => Exec(v, ix).err # "none"
  <2>1. /\ Sound(v) /\ v.err = "none" /\ v.curve = c /\ Quote(v) = Quote(chain)
        /\ CurvePurse(v) = CurvePurse(chain) /\ \A p : QuoteAta(v, p) = QuoteAta(chain, p)
    BY <1>1, <1>8, OpenedSame
  <2>2. V3Needs(v, b) = needed
    BY <2>1 DEF V3Needs
  <2>3. Exec(v, ix) = ExecCurveV3(v, ix)
    BY Dispatch DEF V3Ops
  <2>4. ExecCurveV3(v, ix).err = "none"
          <=> /\ ~v.curve.is_cashback_coin
              /\ Willing(v, ix, ix.op \notin Sells, V3Needs(v, b), BaseAta(User), CurvePurse(v))
    BY <1>1, <2>1, CurveV3Outcome
  <2> QED BY <2>1, <2>2, <2>3, <2>4 DEF buying
<1>9. ASSUME willing
      PROVE  Run(chain, pre \o <<ix>>).err = "none"
        <=> /\ \A a \in needed \cup {BaseAta(User)} : Has(chain, a) \/ a \in Openings(pre)
            /\ IF buying THEN Cost(chain) <= Bal(chain, CurvePurse(chain))
               ELSE 1 <= Bal(chain, BaseAta(User))
  <2>1. Fresh(ix, buying)
    BY DEF buying
  <2>2. ASSUME NEW v, Opened(chain, v, Openings(pre))
        PROVE  Exec(v, ix).err = "none"
                 <=> Willing(v, ix, buying, needed, BaseAta(User), CurvePurse(chain))
    BY <1>8, <1>9, <2>2
  <2> HIDE DEF needed, willing
  <2> QED BY <1>1, <1>3, <1>7, <2>1, <2>2, TradeLands
<1>10. \A a \in needed : a \in Openings(pre)
  BY <1>1, <1>6, <1>7 DEF V3Needs
<1>11. ~buying /\ 1 <= Bal(chain, BaseAta(User)) => Has(chain, BaseAta(User))
  BY HoldsSome
<1>12. Run(chain, pre \o <<ix>>).err = "none" <=> willing /\ spend <= Bal(chain, purse)
  <2> HIDE DEF needed, willing
  <2>1. ~willing => Run(chain, pre \o <<ix>>).err # "none"
    BY <1>1, <1>7, <1>8, TradeStops
  <2> QED BY <1>5, <1>7, <1>9, <1>10, <1>11, <2>1
<1>13. spend > Bal(chain, purse) <=> ~(spend <= Bal(chain, purse))
  <2>1. spend \in Nat /\ Bal(chain, purse) \in Nat
    BY <1>1, Worth, BalNat DEF Sound
  <2> HIDE DEF spend, purse
  <2> QED BY <2>1
<1> HIDE DEF spend, purse, list
<1>14. Refused("v3", list, purse, spend) <=> ~(spend <= Bal(chain, purse)) \/ ~willing
  BY <1>13 DEF Refused
<1> QED BY <1>2, <1>12, <1>14 DEF Lands1, spend, purse, list, buying

AmmV2Ops == {"buy_amm_v2", "buy_exact_quote_in_amm_v2", "sell_amm_v2"}

(* A v2 pool trade after a prelude that opens accounts of the user. *)
LEMMA AmmV2Runs ==
  ASSUME Settled, OnPool, NEW b \in BuybackFeeRecipients(AmmConfig), NEW op \in AmmV2Ops, NEW args,
         NEW ix, ix = AmmV2Instruction(op, chain.pool, k, b, args), Fresh(ix, op \notin Sells),
         NEW pre, Prelude(pre), Openings(pre) \subseteq OwnAtas
  PROVE  /\ Run(chain, pre \o <<ix>>).err = "none"
              <=> /\ ~chain.curve.is_cashback_coin
                  /\ ~BuybackMissing(pre \o <<ix>>)
                  /\ \A a \in OwnAtas : Has(chain, a) \/ a \in Openings(pre)
                  /\ IF op \notin Sells THEN Cost(chain) <= Bal(chain, QuoteAta(chain, User))
                     ELSE 1 <= Bal(chain, BaseAta(User))
<1> DEFINE buying == op \notin Sells
           needed == {QuoteAta(chain, User), QuoteAta(chain, b)}
           willing == ~chain.curve.is_cashback_coin
           list == pre \o <<ix>>
<1>1. /\ Sound(chain) /\ chain.err = "none" /\ chain.pool.exists
      /\ chain.pool.is_cashback_coin = chain.curve.is_cashback_coin
      /\ chain.pool.quote_mint = Quote(chain)
  BY PoolFacts
<1>2. /\ ix.op = op /\ op \in PoolTrades
      /\ BuybackAccount(ix) = QuoteAta(chain, b)
  <2>1. ix.op = op /\ op \in PoolTrades /\ op \notin {"buy_amm", "sell_amm"}
    BY DEF AmmV2Instruction, Ix, AmmV2Ops, PoolTrades
  <2>2. k.quote_program = SPL_TOKEN
    BY DEF k
  <2>3. ix.a.buyback_fee_recipient = AssociatedToken(b, k.quote_program, chain.pool.quote_mint)
    BY DEF AmmV2Instruction, Ix
  <2> QED BY <1>1, <2>1, <2>2, <2>3 DEF BuybackAccount, QuoteAta
<1>3. buying \in BOOLEAN /\ willing \in BOOLEAN /\ Fresh(ix, buying)
  OBVIOUS
<1> HIDE DEF buying
<1>4. ASSUME NEW v, Opened(chain, v, Openings(pre))
      PROVE  /\ willing => (Exec(v, ix).err = "none"
                  <=> Willing(v, ix, buying, needed, BaseAta(User), QuoteAta(chain, User)))
             /\ ~willing => Exec(v, ix).err # "none"
  <2>1. /\ Sound(v) /\ v.err = "none" /\ v.pool = chain.pool
        /\ \A p : QuoteAta(v, p) = QuoteAta(chain, p)
    BY <1>1, <1>4, OpenedSame
  <2>2. Exec(v, ix) = ExecAmmV2(v, ix)
    BY <1>2, Dispatch DEF AmmV2Ops
  <2>3. ix = AmmV2Instruction(op, v.pool, k, b, args) /\ v.pool.exists
    BY <1>1, <2>1
  <2>4. ExecAmmV2(v, ix).err = "none"
          <=> /\ ~v.pool.is_cashback_coin
              /\ Willing(v, ix, op \notin Sells, {QuoteAta(v, User), QuoteAta(v, b)},
                         BaseAta(User), QuoteAta(v, User))
    BY <2>1, <2>3, AmmV2Outcome
  <2> QED BY <1>1, <2>1, <2>2, <2>4 DEF buying
<1>5. /\ willing => (Run(chain, list).err = "none"
           <=> /\ \A a \in needed \cup {BaseAta(User)} : Has(chain, a) \/ a \in Openings(pre)
               /\ IF buying THEN Cost(chain) <= Bal(chain, QuoteAta(chain, User))
                  ELSE 1 <= Bal(chain, BaseAta(User)))
      /\ ~willing => Run(chain, list).err # "none"
  <2>1. CASE willing
    <3>1. ASSUME NEW v, Opened(chain, v, Openings(pre))
          PROVE  Exec(v, ix).err = "none"
                   <=> Willing(v, ix, buying, needed, BaseAta(User), QuoteAta(chain, User))
      BY <1>4, <2>1, <3>1
    <3> DEFINE purse == QuoteAta(chain, User)
               base == BaseAta(User)
    <3> HIDE DEF needed, willing, purse, base
    <3>2. Sound(chain) /\ chain.err = "none" /\ Fresh(ix, buying) /\ buying \in BOOLEAN
      BY <1>1, <1>3
    <3>3. \A v : Opened(chain, v, Openings(pre)) =>
                   (Exec(v, ix).err = "none" <=> Willing(v, ix, buying, needed, base, purse))
      BY <3>1 DEF base, purse
    <3>4. Run(chain, pre \o <<ix>>).err = "none"
            <=> /\ \A a \in needed \cup {base} : Has(chain, a) \/ a \in Openings(pre)
                /\ IF buying THEN Cost(chain) <= Bal(chain, purse) ELSE 1 <= Bal(chain, base)
      BY <3>2, <3>3, TradeLands
    <3> QED BY <2>1, <3>4 DEF base, purse
  <2>2. CASE ~willing
    <3> HIDE DEF needed, willing
    <3>1. Run(chain, list).err # "none"
      BY <1>1, <1>4, <2>2, TradeStops
    <3> QED BY <2>2, <3>1
  <2> QED BY <2>1, <2>2
<1>6. BuybackMissing(list) <=> ~Has(chain, QuoteAta(chain, b))
  BY <1>2, BuybackLast
<1>7. QuoteAta(chain, b) \notin Openings(pre)
  <2>1. b # User
    BY Recipients DEF ListedBuybackRecipients
  <2> QED BY <2>1, NotOwn
<1>8. (\A a \in needed \cup {BaseAta(User)} : Has(chain, a) \/ a \in Openings(pre))
        <=> /\ Has(chain, QuoteAta(chain, b))
            /\ \A a \in OwnAtas : Has(chain, a) \/ a \in Openings(pre)
  BY <1>7 DEF OwnAtas
<1> HIDE DEF list, needed
<1> QED BY <1>5, <1>6, <1>8 DEF buying, list

LEMMA AmmV2Lands ==
  ASSUME Settled, OnPool, NEW b \in BuybackFeeRecipients(AmmConfig), NEW buying \in BOOLEAN,
         NEW args, NEW ix,
         ix = AmmV2Instruction(IF buying THEN "buy_amm_v2" ELSE "sell_amm_v2", chain.pool, k, b, args),
         Fresh(ix, buying), NEW create,
         create = IF buying THEN CreateAta(User, User, Mint, TOKEN_2022)
                  ELSE CreateAta(User, User, Quote(chain), SPL_TOKEN)
  PROVE  Lands1("amm_v2", <<create, ix>>, IF buying THEN QuoteAta(chain, User) ELSE BaseAta(User),
                IF buying THEN Cost(chain) ELSE 1)
<1> DEFINE pre == <<create>>
           op == IF buying THEN "buy_amm_v2" ELSE "sell_amm_v2"
           list == <<create, ix>>
           purse == IF buying THEN QuoteAta(chain, User) ELSE BaseAta(User)
           spend == IF buying THEN Cost(chain) ELSE 1
<1>1. /\ ProgramOf(Quote(chain)) = SPL_TOKEN /\ ProgramOf(Mint) = TOKEN_2022 /\ Sound(chain)
      /\ Cost(chain) \in Nat /\ Cost(chain) > 0
  BY PoolFacts
<1>2. /\ Prelude(pre)
      /\ Openings(pre) = {IF buying THEN BaseAta(User) ELSE QuoteAta(chain, User)}
  <2>1. LET l == <<CreateAta(User, User, Mint, TOKEN_2022)>>
        IN  Prelude(l) /\ Openings(l) = {BaseAta(User)}
    BY <1>1, PreludeOne DEF BaseAta
  <2>2. LET l == <<CreateAta(User, User, Quote(chain), SPL_TOKEN)>>
        IN  Prelude(l) /\ Openings(l) = {QuoteAta(chain, User)}
    BY <1>1, PreludeOne DEF QuoteAta
  <2> QED BY <2>1, <2>2
<1>3. list = pre \o <<ix>>
  BY Pair
<1>4. op \in AmmV2Ops /\ (op \notin Sells) = buying
  BY DEF AmmV2Ops, Sells
<1> HIDE DEF pre, op
<1>5. Openings(pre) \subseteq OwnAtas
  BY <1>2 DEF OwnAtas
<1>6. ix = AmmV2Instruction(op, chain.pool, k, b, args)
  BY DEF op
<1>7. Fresh(ix, op \notin Sells)
  BY <1>4
<1>8. Run(chain, pre \o <<ix>>).err = "none"
        <=> /\ ~chain.curve.is_cashback_coin
            /\ ~BuybackMissing(pre \o <<ix>>)
            /\ \A a \in OwnAtas : Has(chain, a) \/ a \in Openings(pre)
            /\ IF op \notin Sells THEN Cost(chain) <= Bal(chain, QuoteAta(chain, User))
               ELSE 1 <= Bal(chain, BaseAta(User))
  BY <1>2, <1>4, <1>5, <1>6, <1>7, AmmV2Runs
<1>9. /\ 1 <= Bal(chain, BaseAta(User)) => Has(chain, BaseAta(User))
      /\ Cost(chain) <= Bal(chain, QuoteAta(chain, User)) => Has(chain, QuoteAta(chain, User))
  BY <1>1, HoldsSome
<1> HIDE DEF list
<1>10. Run(chain, list).err = "none"
         <=> ~chain.curve.is_cashback_coin /\ ~BuybackMissing(list) /\ spend <= Bal(chain, purse)
  BY <1>2, <1>3, <1>4, <1>8, <1>9 DEF OwnAtas
<1>11. spend > Bal(chain, purse) <=> ~(spend <= Bal(chain, purse))
  <2>1. spend \in Nat /\ Bal(chain, purse) \in Nat
    BY <1>1, BalNat DEF Sound
  <2> HIDE DEF spend, purse
  <2> QED BY <2>1
<1> HIDE DEF spend, purse
<1>12. Refused("amm_v2", list, purse, spend)
         <=> ~(spend <= Bal(chain, purse)) \/ chain.curve.is_cashback_coin \/ BuybackMissing(list)
  BY <1>11 DEF Refused
<1> QED BY <1>10, <1>12 DEF Lands1, list, purse, spend

(* buy_exact_quote_in_amm_v2 is built without a prelude. *)
LEMMA SingularLands ==
  ASSUME Settled, OnPool, NEW b \in BuybackFeeRecipients(AmmConfig)
  PROVE  Lands1("amm_v2_singular",
                <<BuyExactQuoteInAmmV2Instruction(chain.pool, k, b, Cost(chain), 1)>>,
                QuoteAta(chain, User), Cost(chain))
<1> DEFINE op == "buy_exact_quote_in_amm_v2"
           args == Amounts(Cost(chain), 1)
           ix == AmmV2Instruction(op, chain.pool, k, b, args)
           list == <<ix>>
           purse == QuoteAta(chain, User)
<1>1. Sound(chain) /\ Cost(chain) \in Nat /\ Cost(chain) > 0
  BY PoolFacts
<1>2. <<BuyExactQuoteInAmmV2Instruction(chain.pool, k, b, Cost(chain), 1)>> = list
  BY DEF BuyExactQuoteInAmmV2Instruction
<1>3. op \in AmmV2Ops /\ op \notin Sells /\ op \in ExactIns
  BY DEF AmmV2Ops, Sells, ExactIns
<1>4. ix.op = op /\ ix.args.amount = Cost(chain)
  BY DEF AmmV2Instruction, Ix, Amounts
<1> HIDE DEF ix, args, op
<1>5. Fresh(ix, op \notin Sells)
  BY <1>3, <1>4 DEF Fresh
<1>6. Prelude(<<>>) /\ Openings(<<>>) = {} /\ <<>> \o list = list
  <2>1. IsSeq(list)
    BY ShortSeqs
  <2> HIDE DEF list
  <2> QED BY <2>1, NoneAfter, PreludeNone
<1>7. /\ Run(chain, <<>> \o <<ix>>).err = "none"
           <=> /\ ~chain.curve.is_cashback_coin
               /\ ~BuybackMissing(<<>> \o <<ix>>)
               /\ \A a \in OwnAtas : Has(chain, a) \/ a \in Openings(<<>>)
               /\ IF op \notin Sells THEN Cost(chain) <= Bal(chain, QuoteAta(chain, User))
                  ELSE 1 <= Bal(chain, BaseAta(User))
  <2> DEFINE none == <<>>
  <2>1. Prelude(none) /\ Openings(none) \subseteq OwnAtas
    BY <1>6
  <2> HIDE DEF none
  <2>2. ix = AmmV2Instruction(op, chain.pool, k, b, args)
    BY DEF ix
  <2>3. /\ Run(chain, none \o <<ix>>).err = "none"
             <=> /\ ~chain.curve.is_cashback_coin
                 /\ ~BuybackMissing(none \o <<ix>>)
                 /\ \A a \in OwnAtas : Has(chain, a) \/ a \in Openings(none)
                 /\ IF op \notin Sells THEN Cost(chain) <= Bal(chain, QuoteAta(chain, User))
                    ELSE 1 <= Bal(chain, BaseAta(User))
    BY <1>3, <1>5, <2>1, <2>2, AmmV2Runs
  <2> QED BY <2>3 DEF none
<1>8. Cost(chain) <= Bal(chain, QuoteAta(chain, User)) => Has(chain, QuoteAta(chain, User))
  BY <1>1, HoldsSome
<1> DEFINE run == Run(chain, list)
<1>9. run = Run(chain, <<>> \o <<ix>>) /\ (BuybackMissing(<<>> \o <<ix>>) <=> BuybackMissing(list))
  BY <1>6
<1> HIDE DEF list, run
<1>10. run.err = "none"
         <=> /\ ~chain.curve.is_cashback_coin /\ ~BuybackMissing(list)
             /\ Has(chain, BaseAta(User)) /\ Cost(chain) <= Bal(chain, purse)
  BY <1>3, <1>6, <1>7, <1>8, <1>9 DEF OwnAtas
<1>11. Cost(chain) > Bal(chain, purse) <=> ~(Cost(chain) <= Bal(chain, purse))
  <2>1. Bal(chain, purse) \in Nat
    BY <1>1, BalNat DEF Sound
  <2> QED BY <1>1, <2>1
<1>12. Refused("amm_v2_singular", list, purse, Cost(chain))
         <=> \/ ~(Cost(chain) <= Bal(chain, purse)) \/ chain.curve.is_cashback_coin
             \/ BuybackMissing(list) \/ ~Has(chain, BaseAta(User))
  BY <1>11 DEF Refused
<1>13. Lands1("amm_v2_singular", list, purse, Cost(chain))
  BY <1>10, <1>12 DEF Lands1, run
<1> QED BY <1>2, <1>13

(* ---- multi-hop ---- *)
LEMMA ConcatThree ==
  ASSUME NEW l, IsSeq(l), NEW m, IsSeq(m), NEW n, IsSeq(n)
  PROVE  l \o (m \o n) = (l \o m) \o n
<1> DEFINE S == ToSet(l) \cup ToSet(m) \cup ToSet(n)
<1>1. l \in Seq(S) /\ m \in Seq(S) /\ n \in Seq(S)
  BY SeqMonotonic DEF IsSeq
<1> HIDE DEF S
<1> QED BY <1>1, ConcatAssociative

TheHop == IF OnPool THEN MultiHopPool(pool.state)
          ELSE MultiHopCurve(Mint, chain.curve.quote_mint, k.base_program, k.quote_program)

LEMMA HopIs ==
  ASSUME Settled, OnOpenCurve \/ OnPool
  PROVE  /\ TheHop.base_mint = Mint /\ TheHop.quote_mint = Quote(chain) /\ Quote(chain) # Mint
         /\ TheHop.venue = IF OnPool THEN PoolKey(chain) ELSE BondingCurvePda(Mint)
<1>1. CASE OnPool
  <2>1. Sound(chain) /\ chain.pool.exists
    BY <1>1, PoolFacts
  <2>2. PoolAddress(chain.pool) = PoolKey(chain)
    BY <2>1, PoolIs
  <2> QED BY <1>1, <2>2, PoolFacts DEF TheHop, MultiHopPool, pool
<1>2. CASE ~OnPool
  <2>1. chain.curve.exists /\ CurveShape(chain.curve)
    BY <1>2 DEF OnOpenCurve, Settled, Sound
  <2>2. Quote(chain) # Mint
    BY <2>1 DEF CurveShape, Ordinary, Quote
  <2> QED BY <1>2, <2>2 DEF TheHop, MultiHopCurve, Quote
<1> QED BY <1>1, <1>2

MultiHopLists(b, buying, amount, limit) ==
  MultiHopSwapInstructions(User, IF buying THEN Quote(chain) ELSE Mint,
                           IF buying THEN k.quote_program ELSE k.base_program,
                           IF buying THEN k.base_program ELSE k.quote_program,
                           <<TheHop>>, b, amount, limit)

MultiHopParts(list, pre, ix, b, buying, amount, limit) ==
  /\ list = pre \o <<ix>> /\ Prelude(pre)
  /\ {QuoteAta(chain, b), IF buying THEN BaseAta(User) ELSE QuoteAta(chain, User)}
       \subseteq Openings(pre)
  /\ buying /\ ~OnPool /\ Quote(chain) = NATIVE_MINT => QuoteAta(chain, User) \in Openings(pre)
  /\ ix.op = "multi_hop_swap" /\ ix.rest[1] = TheHop /\ ix.args = Amounts(amount, limit)
  /\ ix.a.user = User
  /\ ix.a.user_in_token_account = IF buying THEN QuoteAta(chain, User) ELSE BaseAta(User)
  /\ ix.a.user_out_token_account = IF buying THEN BaseAta(User) ELSE QuoteAta(chain, User)
  /\ ix.a.buyback_fee_recipient = QuoteAta(chain, b)

(* The one list there is: the prelude's accounts and the swap. *)
LEMMA MultiHopIs ==
  ASSUME Settled, OnOpenCurve \/ OnPool, NEW b, NEW buying \in BOOLEAN, NEW amount, NEW limit,
         NEW list \in MultiHopLists(b, buying, amount, limit)
  PROVE  \E pre, ix : MultiHopParts(list, pre, ix, b, buying, amount, limit)
<1> DEFINE mint == IF buying THEN Quote(chain) ELSE Mint
           p == IF buying THEN k.quote_program ELSE k.base_program
           q == IF buying THEN k.base_program ELSE k.quote_program
           hops == <<TheHop>>
<1>1. /\ TheHop.base_mint = Mint /\ TheHop.quote_mint = Quote(chain) /\ Quote(chain) # Mint
      /\ TheHop.venue = IF OnPool THEN PoolKey(chain) ELSE BondingCurvePda(Mint)
      /\ ProgramOf(Quote(chain)) = SPL_TOKEN /\ ProgramOf(Mint) = TOKEN_2022
      /\ k.base_program = TOKEN_2022 /\ k.quote_program = SPL_TOKEN
  BY HopIs DEF ProgramOf, k
<1>2. hops[1] = TheHop /\ Len(hops) = 1 /\ 1 \in DOMAIN hops
  OBVIOUS
<1> HIDE DEF hops, mint, p, q
<1>3. PICK is_buy \in MultiHopRoute(mint, hops) :
        LET out_mint == Reached(mint, hops, is_buy, Len(hops))
            fee_mint == IF is_buy THEN mint ELSE out_mint
            fee_program == IF is_buy THEN p ELSE q
            on_sol_curve == /\ is_buy
                            /\ mint = NATIVE_MINT
                            /\ hops[1].venue = BondingCurvePda(hops[1].base_mint)
        IN  list = <<CreateAta(User, b, fee_mint, fee_program)>>
               \o (IF on_sol_curve THEN <<CreateAta(User, User, mint, p)>> ELSE <<>>)
               \o <<CreateAta(User, User, out_mint, q),
                    Ix("multi_hop_swap",
                       [user |-> User,
                        user_in_token_account |-> AssociatedToken(User, p, mint),
                        user_out_token_account |-> AssociatedToken(User, q, out_mint),
                        buyback_fee_recipient |-> AssociatedToken(b, fee_program, fee_mint)],
                       hops, Amounts(amount, limit))>>
  <2>1. list \in MultiHopSwapInstructions(User, mint, p, q, hops, b, amount, limit)
    BY DEF MultiHopLists, mint, p, q, hops
  <2> QED BY <2>1, Zenon DEF MultiHopSwapInstructions
<1>4. is_buy = buying
  <2>1. is_buy \in BOOLEAN
        /\ Reached(mint, hops, is_buy, 1 - 1)
             = IF is_buy THEN hops[1].quote_mint ELSE hops[1].base_mint
    BY <1>2 DEF MultiHopRoute
  <2>2. Reached(mint, hops, is_buy, 1 - 1) = mint
    BY DEF Reached
  <2> QED BY <1>1, <1>2, <2>1, <2>2 DEF mint
<1> DEFINE out_mint == IF buying THEN Mint ELSE Quote(chain)
           on_sol_curve == buying /\ ~OnPool /\ Quote(chain) = NATIVE_MINT
           one == <<CreateAta(User, b, Quote(chain), SPL_TOKEN)>>
           m == IF on_sol_curve THEN <<CreateAta(User, User, mint, p)>> ELSE <<>>
           c == CreateAta(User, User, out_mint, q)
           accounts == [user |-> User,
                        user_in_token_account |-> AssociatedToken(User, p, mint),
                        user_out_token_account |-> AssociatedToken(User, q, out_mint),
                        buyback_fee_recipient |-> AssociatedToken(b, SPL_TOKEN, Quote(chain))]
           ix == Ix("multi_hop_swap", accounts, hops, Amounts(amount, limit))
           last == <<c>>
           pre == one \o m \o last
<1>5. list = one \o m \o <<c, ix>>
  <2>1. Reached(mint, hops, is_buy, Len(hops)) = out_mint
    BY <1>1, <1>2, <1>4 DEF Reached
  <2>2. /\ (IF is_buy THEN mint ELSE out_mint) = Quote(chain)
        /\ (IF is_buy THEN p ELSE q) = SPL_TOKEN
    BY <1>1, <1>4 DEF mint, p, q
  <2>3. (is_buy /\ mint = NATIVE_MINT /\ hops[1].venue = BondingCurvePda(hops[1].base_mint))
          <=> on_sol_curve
    <3>1. PoolKey(chain) # BondingCurvePda(Mint)
      BY DEF PoolKey, CanonicalPool, PoolPda, BondingCurvePda
    <3> QED BY <1>1, <1>2, <1>4, <3>1 DEF mint
  <2> DEFINE out == Reached(mint, hops, is_buy, Len(hops))
             fee_mint == IF is_buy THEN mint ELSE out
             fee_program == IF is_buy THEN p ELSE q
             sol == is_buy /\ mint = NATIVE_MINT /\ hops[1].venue = BondingCurvePda(hops[1].base_mint)
  <2>4. list = <<CreateAta(User, b, fee_mint, fee_program)>>
               \o (IF sol THEN <<CreateAta(User, User, mint, p)>> ELSE <<>>)
               \o <<CreateAta(User, User, out, q),
                    Ix("multi_hop_swap",
                       [user |-> User,
                        user_in_token_account |-> AssociatedToken(User, p, mint),
                        user_out_token_account |-> AssociatedToken(User, q, out),
                        buyback_fee_recipient |-> AssociatedToken(b, fee_program, fee_mint)],
                       hops, Amounts(amount, limit))>>
    BY <1>3, Zenon
  <2>5. out = out_mint /\ fee_mint = Quote(chain) /\ fee_program = SPL_TOKEN
    BY <2>1, <2>2
  <2>6. (IF sol THEN <<CreateAta(User, User, mint, p)>> ELSE <<>>) = m
    BY <2>3
  <2> HIDE DEF out, fee_mint, fee_program, sol, out_mint, m
  <2> QED BY <2>4, <2>5, <2>6
<1>6. Prelude(one) /\ Openings(one) = {QuoteAta(chain, b)}
  BY <1>1, PreludeOne DEF QuoteAta
<1>7. Prelude(m) /\ (on_sol_curve => Openings(m) = {QuoteAta(chain, User)})
  <2>1. CASE on_sol_curve
    <3>1. mint = Quote(chain) /\ p = SPL_TOKEN
      BY <1>1, <2>1 DEF mint, p
    <3> QED BY <1>1, <2>1, <3>1, PreludeOne DEF QuoteAta
  <2>2. CASE ~on_sol_curve
    BY <2>2, PreludeNone
  <2> QED BY <2>1, <2>2
<1>8. /\ Prelude(last)
      /\ Openings(last) = {IF buying THEN BaseAta(User) ELSE QuoteAta(chain, User)}
  <2>1. CASE buying
    <3>1. out_mint = Mint /\ q = TOKEN_2022
      BY <1>1, <2>1 DEF q
    <3> HIDE DEF out_mint
    <3> QED BY <1>1, <2>1, <3>1, PreludeOne DEF BaseAta
  <2>2. CASE ~buying
    <3>1. out_mint = Quote(chain) /\ q = SPL_TOKEN
      BY <1>1, <2>2 DEF q
    <3> HIDE DEF out_mint
    <3> QED BY <1>1, <2>2, <3>1, PreludeOne DEF QuoteAta
  <2> QED BY <2>1, <2>2
<1>9. /\ ix.op = "multi_hop_swap" /\ ix.rest = hops /\ ix.args = Amounts(amount, limit)
      /\ ix.a.user = User
      /\ ix.a.user_in_token_account = AssociatedToken(User, p, mint)
      /\ ix.a.user_out_token_account = AssociatedToken(User, q, out_mint)
      /\ ix.a.buyback_fee_recipient = AssociatedToken(b, SPL_TOKEN, Quote(chain))
  BY DEF Ix
<1>10. <<c, ix>> = last \o <<ix>>
  <2> HIDE DEF c, ix
  <2> QED BY Pair
<1> HIDE DEF ix
<1>11. IsSeq(<<ix>>)
  BY ShortSeqs
<1> DEFINE lm == one \o m
<1> HIDE DEF one, m, last, c
<1>12. Prelude(lm) /\ Openings(lm) = Openings(one) \cup Openings(m)
  BY <1>6, <1>7, PreludeConcat
<1>13. Prelude(pre) /\ Openings(pre) = Openings(one) \cup Openings(m) \cup Openings(last)
  <2> HIDE DEF lm
  <2>1. Prelude(lm \o last) /\ Openings(lm \o last) = Openings(lm) \cup Openings(last)
    BY <1>8, <1>12, PreludeConcat
  <2> QED BY <1>12, <2>1 DEF lm
<1>14. list = pre \o <<ix>>
  <2> DEFINE e == <<ix>>
  <2> HIDE DEF lm, e
  <2>1. IsSeq(lm) /\ IsSeq(last) /\ IsSeq(e)
    BY <1>8, <1>11, <1>12 DEF Prelude, e
  <2>2. lm \o (last \o e) = (lm \o last) \o e
    BY <2>1, ConcatThree
  <2>3. list = lm \o (last \o e)
    BY <1>5, <1>10 DEF lm, e
  <2> QED BY <2>2, <2>3 DEF lm, e
<1>15. ix.rest[1] = TheHop
  BY <1>2, <1>9
<1>16. /\ ix.a.user_in_token_account = IF buying THEN QuoteAta(chain, User) ELSE BaseAta(User)
       /\ ix.a.user_out_token_account = IF buying THEN BaseAta(User) ELSE QuoteAta(chain, User)
       /\ ix.a.buyback_fee_recipient = QuoteAta(chain, b)
  BY <1>1, <1>9 DEF mint, p, q, QuoteAta, BaseAta
<1> HIDE DEF pre, on_sol_curve
<1>17. /\ {QuoteAta(chain, b), IF buying THEN BaseAta(User) ELSE QuoteAta(chain, User)}
            \subseteq Openings(pre)
       /\ on_sol_curve => QuoteAta(chain, User) \in Openings(pre)
  BY <1>6, <1>7, <1>8, <1>13
<1>18. MultiHopParts(list, pre, ix, b, buying, amount, limit)
  BY <1>9, <1>13, <1>14, <1>15, <1>16, <1>17 DEF on_sol_curve, MultiHopParts
<1> QED BY <1>18

LEMMA MultiHopLands ==
  ASSUME Settled, OnOpenCurve \/ OnPool, NEW b \in BuybackFeeRecipients(PumpGlobal),
         NEW buying \in BOOLEAN, NEW amount, NEW limit,
         IF buying THEN amount = Cost(chain) ELSE Quoted(limit, FALSE),
         NEW list \in MultiHopLists(b, buying, amount, limit)
  PROVE  Lands1("multi_hop", list,
                IF buying THEN IF OnPool THEN QuoteAta(chain, User) ELSE CurvePurse(chain)
                ELSE BaseAta(User),
                IF buying THEN Cost(chain) ELSE 1)
<1> DEFINE from == IF OnPool THEN QuoteAta(chain, User) ELSE CurvePurse(chain)
           purse == IF buying THEN from ELSE BaseAta(User)
           spend == IF buying THEN Cost(chain) ELSE 1
           needed == AmmNeeds(chain, User, b)
           willing == ~chain.curve.is_cashback_coin /\ (chain.curve.is_mayhem_mode => OnPool)
<1>1. /\ Sound(chain) /\ chain.err = "none"
      /\ chain.curve.is_cashback_coin \in BOOLEAN /\ chain.curve.is_mayhem_mode \in BOOLEAN
      /\ OnOpenCurve => ~OnPool
      /\ Cost(chain) \in Nat /\ Cost(chain) > 0
  BY Worth, OpenCurveNoPool DEF Settled, Sound, CurveShape
<1>2. PICK pre, ix : MultiHopParts(list, pre, ix, b, buying, amount, limit)
  BY MultiHopIs
<1>2a. /\ list = pre \o <<ix>> /\ Prelude(pre)
       /\ QuoteAta(chain, b) \in Openings(pre)
       /\ (IF buying THEN BaseAta(User) ELSE QuoteAta(chain, User)) \in Openings(pre)
       /\ buying /\ ~OnPool /\ Quote(chain) = NATIVE_MINT
            => QuoteAta(chain, User) \in Openings(pre)
       /\ ix.op = "multi_hop_swap" /\ ix.rest[1] = TheHop /\ ix.args = Amounts(amount, limit)
       /\ ix.a.user = User
       /\ ix.a.user_in_token_account = IF buying THEN QuoteAta(chain, User) ELSE BaseAta(User)
       /\ ix.a.user_out_token_account = IF buying THEN BaseAta(User) ELSE QuoteAta(chain, User)
       /\ ix.a.buyback_fee_recipient = QuoteAta(chain, b)
  BY <1>2 DEF MultiHopParts
<1>3. Fresh(ix, buying)
  BY <1>2a DEF Fresh, ExactIns, Amounts, Quoted
<1>4. TheHop.venue = IF OnPool THEN PoolKey(chain) ELSE BondingCurvePda(Mint)
  BY HopIs
<1> HIDE DEF TheHop
<1>5. ASSUME NEW v, Opened(chain, v, Openings(pre))
      PROVE  /\ willing => (Exec(v, ix).err = "none"
                  <=> Willing(v, ix, buying, needed, BaseAta(User), from))
             /\ ~willing => Exec(v, ix).err # "none"
  <2>1. /\ Sound(v) /\ v.err = "none" /\ v.curve = chain.curve /\ v.pool = chain.pool
        /\ PoolKey(v) = PoolKey(chain)
        /\ CurvePurse(v) = CurvePurse(chain) /\ \A p : QuoteAta(v, p) = QuoteAta(chain, p)
    BY <1>1, <1>5, OpenedSame
  <2>2. AmmNeeds(v, User, b) = needed
    BY <2>1 DEF AmmNeeds
  <2>3. Exec(v, ix) = ExecMultiHop(v, ix)
    BY <1>2a, Dispatch
  <2>4. \/ ix.rest[1].venue = PoolKey(v) /\ v.pool.exists
        \/ ix.rest[1].venue = BondingCurvePda(Mint) /\ v.curve.exists /\ ~v.curve.complete
    BY <1>1, <1>2a, <1>4, <2>1 DEF OnPool, OnOpenCurve
  <2>5. /\ ix.a.user_in_token_account = IF buying THEN QuoteAta(v, User) ELSE BaseAta(User)
        /\ ix.a.user_out_token_account = IF buying THEN BaseAta(User) ELSE QuoteAta(v, User)
        /\ ix.a.buyback_fee_recipient = QuoteAta(v, b)
    BY <1>2a, <2>1
  <2>6. ExecMultiHop(v, ix).err = "none"
          <=> /\ ~v.curve.is_cashback_coin /\ (v.curve.is_mayhem_mode => v.pool.exists)
              /\ Willing(v, ix, buying, AmmNeeds(v, User, b), BaseAta(User),
                         IF v.pool.exists THEN QuoteAta(v, User) ELSE CurvePurse(v))
    BY <1>2a, <2>1, <2>4, <2>5, MultiHopOutcome
  <2>7. (IF v.pool.exists THEN QuoteAta(v, User) ELSE CurvePurse(v)) = from
    BY <2>1 DEF OnPool
  <2>8. willing <=> ~v.curve.is_cashback_coin /\ (v.curve.is_mayhem_mode => v.pool.exists)
    BY <2>1 DEF OnPool
  <2> HIDE DEF needed, willing, from
  <2>9. Willing(v, ix, buying, AmmNeeds(v, User, b), BaseAta(User),
                IF v.pool.exists THEN QuoteAta(v, User) ELSE CurvePurse(v))
          <=> Willing(v, ix, buying, needed, BaseAta(User), from)
    BY <2>2, <2>7
  <2> QED BY <2>3, <2>6, <2>8, <2>9
<1>6. ASSUME willing
      PROVE  Run(chain, pre \o <<ix>>).err = "none"
        <=> /\ \A a \in needed \cup {BaseAta(User)} : Has(chain, a) \/ a \in Openings(pre)
            /\ IF buying THEN Cost(chain) <= Bal(chain, from) ELSE 1 <= Bal(chain, BaseAta(User))
  <2>1. ASSUME NEW v, Opened(chain, v, Openings(pre))
        PROVE  Exec(v, ix).err = "none"
                 <=> Willing(v, ix, buying, needed, BaseAta(User), from)
    BY <1>5, <1>6, <2>1
  <2> HIDE DEF needed, willing, from
  <2> QED BY <1>1, <1>2a, <1>3, <2>1, TradeLands
<1>7. /\ 1 <= Bal(chain, BaseAta(User)) => Has(chain, BaseAta(User))
      /\ Cost(chain) <= Bal(chain, QuoteAta(chain, User)) => Has(chain, QuoteAta(chain, User))
  BY <1>1, HoldsSome
<1>8. Run(chain, pre \o <<ix>>).err = "none" <=> willing /\ spend <= Bal(chain, purse)
  <2> DEFINE run == Run(chain, pre \o <<ix>>)
  <2>1. ~willing => run.err # "none"
    <3> HIDE DEF needed, willing, from
    <3> QED BY <1>1, <1>2a, <1>5, TradeStops
  <2>2. CASE buying
    <3>1. from = QuoteAta(chain, User) \/ QuoteAta(chain, User) \in Openings(pre)
      BY <1>2a, <2>2 DEF CurvePurse
    <3>2. \A a \in needed \cup {BaseAta(User)} :
            a = QuoteAta(chain, User) \/ a \in Openings(pre)
      BY <1>2a, <2>2 DEF AmmNeeds
    <3> HIDE DEF needed, willing, from
    <3>3. Cost(chain) <= Bal(chain, from) =>
            \A a \in needed \cup {BaseAta(User)} : Has(chain, a) \/ a \in Openings(pre)
      BY <1>7, <3>1, <3>2
    <3> QED BY <1>6, <2>1, <2>2, <3>3
  <2>3. CASE ~buying
    <3>1. \A a \in needed : a \in Openings(pre)
      BY <1>2a, <2>3 DEF AmmNeeds
    <3> HIDE DEF needed, willing, from
    <3>2. 1 <= Bal(chain, BaseAta(User)) =>
            \A a \in needed \cup {BaseAta(User)} : Has(chain, a) \/ a \in Openings(pre)
      BY <1>7, <3>1
    <3> QED BY <1>6, <2>1, <2>3, <3>2
  <2> QED BY <2>2, <2>3
<1>9. spend > Bal(chain, purse) <=> ~(spend <= Bal(chain, purse))
  <2>1. spend \in Nat /\ Bal(chain, purse) \in Nat
    BY <1>1, BalNat DEF Sound
  <2> HIDE DEF spend, purse
  <2> QED BY <2>1
<1> HIDE DEF spend, purse
<1>10. Refused("multi_hop", list, purse, spend) <=> ~(spend <= Bal(chain, purse)) \/ ~willing
  BY <1>1, <1>9 DEF Refused
<1> HIDE DEF willing
<1>11. Lands1("multi_hop", list, purse, spend)
  BY <1>2a, <1>8, <1>10 DEF Lands1
<1> QED BY <1>11 DEF spend, purse

(* ---- creation ---- *)
(* A buy_v2 with its prelude, in any sound state. *)
LEMMA CurveBuyRuns ==
  ASSUME NEW w, Sound(w), w.err = "none", w.curve.exists, ~w.curve.complete,
         NEW c, ResolveQuoteMint(c.quote_mint) = Quote(w), c.creator = w.curve.creator,
         c.is_mayhem_mode = w.curve.is_mayhem_mode,
         c.is_cashback_coin = w.curve.is_cashback_coin,
         \A r \in ListedFeeRecipients : Has(w, QuoteAta(w, r)),
         NEW limit \in Nat, Cost(w) <= limit,
         NEW list \in BuyV2Instructions(PumpGlobal, c, k, 1, limit)
  PROVE  Run(w, list).err = "none" <=> Cost(w) <= Bal(w, CurvePurse(w))
<1> DEFINE pre == UserTradeAtas(k, c, TRUE)
           op == "buy_v2"
<1>1. PICK ix \in V2Trade(op, PumpGlobal, c, k, Amounts(1, limit)) : list = Append(pre, ix)
  BY DEF BuyV2Instructions, BuyV2Instruction
<1>2. PICK fee \in FeeRecipients(PumpGlobal, c.is_mayhem_mode),
           buyback \in BuybackFeeRecipients(PumpGlobal) :
        /\ ix.op = op /\ ix.a = V2TradeAccounts(k, c.quote_mint, c.creator, fee, buyback)
        /\ ix.args = Amounts(1, limit)
  BY DEF V2Trade, PumpFeeRecipientsPair, Ix
<1>3. /\ Quote(w) # Mint /\ w.curve.is_mayhem_mode \in BOOLEAN
      /\ Cost(w) \in Nat /\ \A a : Bal(w, a) \in Nat
  BY Worth, BalNat DEF Sound, CurveShape, Ordinary, Quote
<1>4. /\ Prelude(pre) /\ BaseAta(User) \in Openings(pre)
      /\ Quote(w) # NATIVE_MINT =>
           /\ QuoteAta(w, User) \in Openings(pre)
           /\ QuoteAta(w, BondingCurvePda(Mint)) \in Openings(pre)
           /\ w.curve.is_cashback_coin => QuoteAta(w, UserVolumeAccumulator(User)) \in Openings(pre)
  <2>1. ResolveQuoteMint(c.quote_mint) # Mint
    BY <1>3
  <2> QED BY <2>1, UserTradeAtasOpens DEF QuoteAta
<1> DEFINE v == Run(w, pre)
           run == Run(w, pre \o <<ix>>)
<1>5. list = pre \o <<ix>>
  BY <1>1, <1>4, Appended
<1> HIDE DEF pre
<1>6. Opened(w, v, Openings(pre)) /\ run = Exec(v, ix)
  BY <1>4, RunAfter
<1> HIDE DEF v, run
<1>7. /\ Sound(v) /\ v.err = "none" /\ v.curve = w.curve /\ Quote(v) = Quote(w)
      /\ Cost(v) = Cost(w) /\ CurvePurse(v) = CurvePurse(w)
      /\ \A p : QuoteAta(v, p) = QuoteAta(w, p)
      /\ \A a : Bal(v, a) = Bal(w, a)
      /\ \A a : Has(v, a) <=> Has(w, a) \/ a \in Openings(pre)
  BY <1>6, OpenedSame
<1>8. ExecCurveV2(v, ix).err = "none"
        <=> Willing(v, ix, ix.op \notin Sells, V2Needs(v, fee), BaseAta(User), CurvePurse(v))
  BY <1>2, <1>7, CurveV2Outcome
<1>9. Exec(v, ix) = ExecCurveV2(v, ix) /\ ix.op \notin Sells /\ ix.op \notin ExactIns
  BY <1>2, Dispatch DEF Sells, ExactIns
<1>10. \A a \in V2Needs(v, fee) \cup {BaseAta(User)} : Has(v, a)
  <2>1. fee \in ListedFeeRecipients
    <3>1. c.is_mayhem_mode = TRUE \/ c.is_mayhem_mode = FALSE
      BY <1>3
    <3> QED BY <3>1 DEF ListedFeeRecipients
  <2>2. Has(v, QuoteAta(w, fee)) /\ Has(v, BaseAta(User))
    BY <1>4, <1>7, <2>1
  <2> QED BY <1>4, <1>7, <2>2 DEF V2Needs
<1>11. ~LimitBroken(v, ix, TRUE)
  <2>1. ix.args.limit = limit
    BY <1>2 DEF Amounts
  <2>2. ~(Cost(v) > limit)
    BY <1>3, <1>7
  <2> QED BY <1>9, <2>1, <2>2 DEF LimitBroken
<1>12. Willing(v, ix, TRUE, V2Needs(v, fee), BaseAta(User), CurvePurse(v))
         <=> Cost(w) <= Bal(w, CurvePurse(w))
  <2>1. Cost(v) = Cost(w) /\ Bal(v, CurvePurse(v)) = Bal(w, CurvePurse(w))
    BY <1>7
  <2>2. Bal(v, CurvePurse(v)) >= Cost(v) <=> Cost(w) <= Bal(w, CurvePurse(w))
    BY <1>3, <2>1
  <2> QED BY <1>10, <1>11, <2>2 DEF Willing
<1>13. Willing(v, ix, ix.op \notin Sells, V2Needs(v, fee), BaseAta(User), CurvePurse(v))
         <=> Willing(v, ix, TRUE, V2Needs(v, fee), BaseAta(User), CurvePurse(v))
  <2>1. (ix.op \notin Sells) = TRUE
    BY <1>9
  <2> QED BY <2>1
<1> QED BY <1>5, <1>6, <1>8, <1>9, <1>12, <1>13 DEF run

(* The coin the program stores, and the accounts it opens. *)
LEMMA Created ==
  ASSUME Settled, ~chain.curve.exists, NEW coin \in NewCoins, NEW w,
         w = Exec(chain, CreateV2Instruction(k, coin))
  PROVE  /\ coin.is_cashback_coin => w.err # "none"
         /\ ~coin.is_cashback_coin =>
              /\ Sound(w) /\ w.err = "none" /\ w.curve.exists /\ ~w.curve.complete
              /\ ~w.curve.is_cashback_coin /\ w.curve.creator = coin.creator
              /\ w.curve.is_mayhem_mode = coin.is_mayhem_mode
              /\ Quote(w) = ResolveQuoteMint(coin.quote_mint)
              /\ w.price = chain.price
              /\ \A a : Has(chain, a) => Has(w, a)
              /\ \A a : Bal(w, a) = Bal(chain, a)
<1> DEFINE ix == CreateV2Instruction(k, coin)
           quote == ResolveQuoteMint(coin.quote_mint)
           stored == IF ix.rest = <<>> THEN DEFAULT_KEY ELSE ix.rest[1]
           c == [NoCurve EXCEPT !.exists = TRUE, !.creator = ix.args.creator,
                   !.is_mayhem_mode = ix.args.is_mayhem_mode, !.quote_mint = stored]
           made == [chain EXCEPT !.curve = c]
           opened == {ix.a.associated_bonding_curve} \cup (ToSet(ix.rest) \ {USDC})
           v == Open(made, opened)
<1>1. /\ Sound(chain) /\ chain.err = "none" /\ World(chain) /\ DOMAIN chain = Fields
      /\ coin \in Curve /\ ~IsDerived(coin.creator) /\ quote \in Quotes
  BY WalletAssumption DEF Settled, Sound, World
<1>2. /\ coin.is_cashback_coin \in BOOLEAN /\ coin.is_mayhem_mode \in BOOLEAN
  BY <1>1 DEF Curve
<1>3. ix.op = "create_v2" /\ ix.args = coin
  BY DEF CreateV2Instruction, Ix
<1>4. ResolveQuoteMint(stored) = quote /\ (ix.rest # <<>> => ResolveQuoteMint(ix.rest[1]) = quote)
  <2>1. CASE quote = NATIVE_MINT
    <3>1. ix.rest = <<>>
      BY <2>1 DEF CreateV2Instruction, Ix
    <3> QED BY <2>1, <3>1 DEF ResolveQuoteMint
  <2>2. CASE quote # NATIVE_MINT
    <3>1. ix.rest = <<quote, AssociatedToken(BondingCurvePda(Mint), SPL_TOKEN, quote)>>
      BY <2>2 DEF CreateV2Instruction, Ix, k
    <3>2. ix.rest # <<>> /\ ix.rest[1] = quote
      BY <3>1
    <3>3. ResolveQuoteMint(quote) = quote
      BY DEF ResolveQuoteMint
    <3> HIDE DEF quote, ix
    <3> QED BY <3>2, <3>3
  <2> QED BY <2>1, <2>2
<1> HIDE DEF ix
<1>5. w = ExecCreateV2(chain, ix)
  BY <1>3, Dispatch DEF ix
<1>6. w = Refuse(chain, chain.curve.exists, "AlreadyInUse",
                 Refuse(chain, ix.args.is_cashback_coin, "CashbackDeprecated", v))
  BY <1>5, Zenon DEF ExecCreateV2
<1>7. CASE coin.is_cashback_coin
  <2>1. w = [chain EXCEPT !.err = "CashbackDeprecated"]
    BY <1>3, <1>6, <1>7, Zenon DEF Refuse
  <2>2. w.err # "none"
    BY <1>1, <2>1 DEF Fields
  <2> QED BY <1>7, <2>2
<1>8. CASE ~coin.is_cashback_coin
  <2>1. w = v
    BY <1>3, <1>6, <1>8, Zenon DEF Refuse
  <2>2. /\ c.exists /\ ~c.complete /\ ~c.is_cashback_coin /\ c.creator = coin.creator
        /\ c.is_mayhem_mode = coin.is_mayhem_mode /\ c.quote_mint = stored
    BY <1>3 DEF NoCurve
  <2> HIDE DEF c, stored, opened, quote
  <2>3. /\ World(made) /\ made.curve = c /\ made.price = chain.price /\ made.err = "none"
        /\ made.ledger = chain.ledger
    BY <1>1 DEF World, Fields
  <2> HIDE DEF made
  <2>4. /\ LedgerOnly(made, v) /\ DOMAIN v.ledger = DOMAIN made.ledger \cup opened
        /\ \A a : Bal(v, a) = Bal(made, a)
    BY <2>3, Opens
  <2> HIDE DEF v
  <2>5. \A a : Bal(made, a) = Bal(chain, a)
    BY <2>3 DEF Bal, Has
  <2>6. /\ v.err = "none" /\ v.curve = c /\ v.price = chain.price
        /\ \A a : Has(chain, a) => Has(v, a)
    BY <2>3, <2>4 DEF LedgerOnly, Has
  <2>7. ResolveQuoteMint(ix.rest[1]) \in Quotes \/ ix.rest = <<>>
    BY <1>1, <1>4
  <2>8. Sound(w)
    <3>1. ~IsDerived(ix.args.creator) /\ ix.args.is_mayhem_mode \in BOOLEAN
      BY <1>1, <1>2, <1>3
    <3>2. Kept(chain, ExecCreateV2(chain, ix))
      BY <1>1, <2>7, <3>1, CreateV2Kept
    <3> QED BY <1>5, <2>1, <2>6, <3>2 DEF Kept
  <2>9. Quote(w) = quote
    BY <1>4, <2>1, <2>2, <2>6 DEF Quote
  <2> QED BY <1>8, <2>1, <2>2, <2>4, <2>5, <2>6, <2>8, <2>9 DEF quote
<1> QED BY <1>2, <1>7, <1>8

LEMMA RunStuck ==
  ASSUME NEW w, w.err # "none", NEW list, IsSeq(list)
  PROVE  Run(w, list).err # "none"
<1> DEFINE state == Trace(w, list)
           n == Len(list)
           Good == {i \in 0..n : state[i].err # "none"}
<1>1. n \in Nat
  BY DEF IsSeq
<1>2. /\ state[0] = w
      /\ \A i \in 1..n : state[i] = Step(state[i - 1], list[i])
  BY <1>1, RunSteps
<1> HIDE DEF state, n
<1>3. 0 \in Good
  BY <1>1, <1>2
<1>4. \A i \in 1..n : i - 1 \in Good => i \in Good
  BY <1>1, <1>2 DEF Step
<1> HIDE DEF Good
<1>5. \A i \in 0..n : i \in Good
  BY <1>1, <1>3, <1>4, Along
<1>6. n \in Good
  BY <1>1, <1>5
<1> QED BY <1>6 DEF Good, Run, state, n

LEMMA SetToSeqShort ==
  /\ SetToSeq({}) = <<>>
  /\ \A x : SetToSeq({x}) = <<x>>
<1>1. SetToSeq({}) = <<>>
  <2> DEFINE n == Cardinality({})
             f == SetToSeq({})
  <2>1. n = 0
    BY FS_EmptySet
  <2>2. \E g \in [1..n -> {}] : IsInjective(g)
    <3> DEFINE g == [i \in 1..0 |-> i]
    <3>1. g \in [1..0 -> {}] /\ IsInjective(g)
      BY DEF IsInjective
    <3> HIDE DEF g, n
    <3> QED BY <2>1, <3>1
  <2>3. f \in [1..n -> {}]
    BY <2>2 DEF SetToSeq
  <2> HIDE DEF f, n
  <2>4. f \in [1..0 -> {}]
    BY <2>1, <2>3
  <2>5. f = <<>>
    BY <2>4
  <2> QED BY <2>5 DEF f
<1>2. ASSUME NEW x PROVE SetToSeq({x}) = <<x>>
  <2> DEFINE n == Cardinality({x})
             f == SetToSeq({x})
  <2>1. n = 1
    BY FS_Singleton
  <2>2. \E g \in [1..n -> {x}] : IsInjective(g)
    <3> DEFINE g == [i \in 1..1 |-> x]
    <3>1. g \in [1..1 -> {x}] /\ IsInjective(g)
      BY DEF IsInjective
    <3> HIDE DEF g, n
    <3> QED BY <2>1, <3>1
  <2>3. f \in [1..n -> {x}]
    BY <2>2 DEF SetToSeq
  <2> HIDE DEF f, n
  <2>4. f \in [1..1 -> {x}]
    BY <2>1, <2>3
  <2>5. f = <<x>>
    BY <2>4
  <2> QED BY <2>5 DEF f
<1> QED BY <1>1, <1>2

(* What follows an error is not executed; an agent is always an error. *)
LEMMA AgentStops ==
  ASSUME NEW w, Sound(w), w.err = "none", NEW list, Fits(list), NEW ix, ix.op = "agent_initialize"
  PROVE  Run(w, list \o <<ix>>).err # "none"
<1> DEFINE v == Run(w, list)
<1>1. Run(w, list \o <<ix>>) = Step(v, ix)
  <2>1. IsSeq(list) /\ IsSeq(<<ix>>)
    BY ShortSeqs DEF Fits
  <2>2. Run(w, list \o <<ix>>) = Run(v, <<ix>>)
    BY <2>1, RunConcat
  <2> QED BY <2>2, RunOne
<1>2. Kept(w, v)
  <2>1. Len(list) \in Nat /\ DOMAIN list = 1..Len(list)
    BY DEF Fits, IsSeq
  <2> QED BY <2>1, RunKept DEF Fits
<1> HIDE DEF v
<1>3. CASE v.err = "none"
  <2>1. DOMAIN v = Fields
    BY <1>2, <1>3 DEF Kept, Sound, World
  <2>2. Step(v, ix) = [v EXCEPT !.err = "AgentInitializationNotSupported"]
    BY <1>3, Dispatch DEF Step
  <2> QED BY <1>1, <2>1, <2>2 DEF Fields
<1>4. CASE v.err # "none"
  BY <1>1, <1>4 DEF Step
<1> QED BY <1>3, <1>4

LEMMA CreateLands ==
  ASSUME Settled, ~chain.curve.exists, NEW coin \in NewCoins, NEW agent \in {{}, {100}},
         NEW limit, Quoted(limit, TRUE),
         NEW list \in CreateCoinInstructions(PumpGlobal, k, coin, 1, limit, agent)
  PROVE  LET w == [chain EXCEPT !.curve = coin]
         IN  Lands1(IF agent = {} THEN "create" ELSE "create_agent", list, CurvePurse(w), Cost(chain))
<1> DEFINE preview == [coin EXCEPT !.quote_mint = ResolveQuoteMint(coin.quote_mint)]
           create == CreateV2Instruction(k, coin)
           agents == {AgentInitializeInstruction(k, coin.creator, bps) : bps \in agent}
           w == Exec(chain, create)
           purse == CurvePurse([chain EXCEPT !.curve = coin])
           one == <<create>>
<1>1. /\ Sound(chain) /\ chain.err = "none" /\ DOMAIN chain = Fields /\ World(chain)
      /\ coin \in Curve /\ limit \in Nat /\ Cost(chain) <= limit
      /\ Cost(chain) \in Nat /\ Bal(chain, purse) \in Nat
  BY QuotedFresh, Worth, BalNat, WalletAssumption DEF Settled, Sound, World
<1>2. PICK buy \in BuyV2Instructions(PumpGlobal, preview, k, 1, limit) :
        list = one \o buy \o SetToSeq(agents)
  BY Zenon DEF CreateCoinInstructions, CreateV2AndBuyInstruction
<1>3. Fits(one \o buy)
  <2>1. one \o buy \o SetToSeq({AgentInitializeInstruction(k, coin.creator, bps) : bps \in {}})
          \in CreateCoinInstructions(PumpGlobal, k, coin, 1, limit, {})
    BY Zenon DEF CreateCoinInstructions, CreateV2AndBuyInstruction
  <2>2. SetToSeq({AgentInitializeInstruction(k, coin.creator, bps) : bps \in {}}) = <<>>
    BY SetToSeqShort
  <2>3. IsSeq(one) /\ IsSeq(buy)
    <3>1. Fits(buy)
      BY <1>1, V2Fits DEF AllFit
    <3> QED BY <3>1, ShortSeqs DEF Fits
  <2> HIDE DEF one
  <2>4. IsSeq(one \o buy) /\ (one \o buy) \o <<>> = one \o buy
    <3>1. IsSeq(one \o buy)
      BY <2>3, IsSeqConcat
    <3> QED BY <3>1, NoneAfter
  <2>5. Fits(one \o buy \o <<>>)
    <3>1. one \o buy \o <<>> \in CreateCoinInstructions(PumpGlobal, k, coin, 1, limit, {})
      BY <2>1, <2>2
    <3>2. {} \in {{}, {100}}
      OBVIOUS
    <3> QED BY <1>1, <3>1, <3>2, CreateCoinFits DEF AllFit
  <2> QED BY <2>4, <2>5
<1>4. CASE agent = {100}
  <2>1. agents = {AgentInitializeInstruction(k, coin.creator, 100)}
    BY <1>4
  <2> DEFINE a == AgentInitializeInstruction(k, coin.creator, 100)
  <2>2. a.op = "agent_initialize"
    BY DEF AgentInitializeInstruction, Ix
  <2> HIDE DEF a, agents, one
  <2>3. list = one \o buy \o <<a>>
    BY <1>2, <2>1, SetToSeqShort DEF a
  <2>4. Run(chain, list).err # "none"
    BY <1>1, <1>3, <2>2, <2>3, AgentStops
  <2>5. agent # {}
    BY <1>4
  <2> QED BY <2>4, <2>5 DEF Lands1, Refused
<1>5. CASE agent = {}
  <2>1. /\ IsSeq(buy) /\ IsSeq(one) /\ Len(one) = 1 /\ one[1] = create /\ IsSeq(one \o buy)
    <3>1. Fits(buy)
      BY <1>1, V2Fits DEF AllFit
    <3> QED BY <1>3, <3>1, ShortSeqs DEF Fits
  <2>2. list = one \o buy
    <3>1. agents = {}
      BY <1>5
    <3> HIDE DEF agents, one
    <3> QED BY <1>2, <2>1, <3>1, SetToSeqShort, NoneAfter
  <2>3. list[1].args.is_cashback_coin = coin.is_cashback_coin
    <3>1. create.args = coin
      BY DEF CreateV2Instruction, Ix
    <3> HIDE DEF one, create
    <3> QED BY <2>1, <2>2, <3>1, EndToEnd
  <2>4. Run(chain, list) = Run(w, buy) /\ (w.err # "none" => Run(w, buy).err # "none")
    <3>1. Run(chain, one) = Step(chain, create) /\ Step(chain, create) = w
      BY <1>1, RunOne DEF Step
    <3> HIDE DEF one, create, w
    <3>2. Run(chain, list) = Run(w, buy)
      BY <2>1, <2>2, <3>1, RunConcat
    <3> QED BY <2>1, <3>2, RunStuck
  <2>5. /\ coin.is_cashback_coin => w.err # "none"
        /\ ~coin.is_cashback_coin =>
             /\ Sound(w) /\ w.err = "none" /\ w.curve.exists /\ ~w.curve.complete
             /\ ~w.curve.is_cashback_coin /\ w.curve.creator = coin.creator
             /\ w.curve.is_mayhem_mode = coin.is_mayhem_mode
             /\ Quote(w) = ResolveQuoteMint(coin.quote_mint)
             /\ w.price = chain.price
             /\ \A a : Has(chain, a) => Has(w, a)
             /\ \A a : Bal(w, a) = Bal(chain, a)
    <3> HIDE DEF purse, w
    <3> QED BY Created DEF w
  <2>6. coin.is_cashback_coin \in BOOLEAN
    BY <1>1 DEF Curve
  <2>7. ASSUME ~coin.is_cashback_coin
        PROVE  Run(chain, list).err = "none" <=> Cost(chain) <= Bal(chain, purse)
    <3>1. ResolveQuoteMint(preview.quote_mint) = Quote(w)
      <4>1. preview.quote_mint = ResolveQuoteMint(coin.quote_mint)
        BY <1>1 DEF Curve
      <4> HIDE DEF preview
      <4> QED BY <2>5, <2>7, <4>1 DEF ResolveQuoteMint
    <3>2. /\ preview.creator = w.curve.creator /\ preview.is_mayhem_mode = w.curve.is_mayhem_mode
          /\ preview.is_cashback_coin = w.curve.is_cashback_coin
      <4>1. w.curve.is_cashback_coin \in BOOLEAN /\ w.curve.is_cashback_coin # TRUE
        BY <2>5, <2>7 DEF Sound, CurveShape
      <4>2. preview.is_cashback_coin = FALSE
        BY <1>1, <2>6, <2>7 DEF Curve
      <4>3. preview.creator = coin.creator /\ preview.is_mayhem_mode = coin.is_mayhem_mode
        BY <1>1 DEF Curve
      <4> HIDE DEF preview, w
      <4> QED BY <2>5, <2>7, <4>1, <4>2, <4>3
    <3>3. Cost(w) = Cost(chain)
      BY <2>5, <2>7 DEF Cost, TotalFees, FeesAt
    <3>4. CurvePurse(w) = purse
      <4>1. Quote([chain EXCEPT !.curve = coin]) = ResolveQuoteMint(coin.quote_mint)
        BY <1>1 DEF Quote, Fields
      <4> HIDE DEF w
      <4> QED BY <2>5, <2>7, <4>1 DEF CurvePurse, QuoteAta
    <3> HIDE DEF w, preview, purse
    <3>5. \A r \in ListedFeeRecipients : Has(w, QuoteAta(w, r))
      <4>1. Quote(w) \in Quotes
        BY <2>5, <2>7 DEF Sound, CurveShape, Ordinary, Quote
      <4>2. \A r \in ListedFeeRecipients : QuoteAta(w, r) \in ListedFeeAtas
        BY <4>1 DEF ListedFeeAtas, QuoteAtas, QuoteAta
      <4> QED BY <2>5, <2>7, <4>2 DEF Settled, FeesOpen, Has
    <3>6. Run(w, buy).err = "none" <=> Cost(w) <= Bal(w, CurvePurse(w))
      BY <1>1, <1>2, <2>5, <2>7, <3>1, <3>2, <3>3, <3>5, CurveBuyRuns
    <3> QED BY <2>4, <2>5, <2>7, <3>3, <3>4, <3>6
  <2>8. Run(chain, list).err = "none" <=> ~coin.is_cashback_coin /\ Cost(chain) <= Bal(chain, purse)
    BY <2>4, <2>5, <2>7
  <2>9. Cost(chain) > Bal(chain, purse) <=> ~(Cost(chain) <= Bal(chain, purse))
    BY <1>1
  <2> HIDE DEF purse, w
  <2>10. Refused("create", list, purse, Cost(chain))
           <=> ~(Cost(chain) <= Bal(chain, purse)) \/ coin.is_cashback_coin
    BY <2>3, <2>9 DEF Refused
  <2>11. Lands1("create", list, purse, Cost(chain))
    BY <2>8, <2>10 DEF Lands1
  <2> QED BY <1>5, <2>11 DEF purse
<1> QED BY <1>4, <1>5

(* ---- the legacy builders ---- *)
LEMMA LegacyTradeLands ==
  ASSUME Settled, OnOpenCurve, Quote(chain) = NATIVE_MINT,
         NEW fee \in FeeRecipients(PumpGlobal, chain.curve.is_mayhem_mode),
         NEW b \in BuybackFeeRecipients(PumpGlobal), NEW buying \in BOOLEAN, NEW ix,
         ix.op = IF buying THEN "buy" ELSE "sell",
         ix.a = LegacyAccounts(k, chain.curve.creator, fee), Last(ix.rest) = b,
         ~buying /\ chain.curve.is_cashback_coin => Len(ix.rest) = 3, Fresh(ix, buying)
  PROVE  Lands1("legacy", <<ix>>, IF buying THEN User ELSE BaseAta(User),
                IF buying THEN Cost(chain) ELSE 1)
<1> DEFINE pre == <<>>
           e == <<ix>>
           purse == IF buying THEN User ELSE BaseAta(User)
           spend == IF buying THEN Cost(chain) ELSE 1
<1>1. /\ Sound(chain) /\ chain.err = "none" /\ chain.curve.exists /\ ~chain.curve.complete
      /\ Cost(chain) \in Nat
  BY Worth DEF Settled, OnOpenCurve
<1>2. Prelude(pre) /\ Openings(pre) = {} /\ pre \o e = e
  <2>1. IsSeq(e)
    BY ShortSeqs
  <2> HIDE DEF e
  <2> QED BY <2>1, PreludeNone, NoneAfter
<1>3. (ix.op \notin Sells) = buying /\ ix.op \in {"buy", "sell"}
  BY DEF Sells
<1> HIDE DEF pre
<1>4. ASSUME NEW v, Opened(chain, v, Openings(pre))
      PROVE  Exec(v, ix).err = "none" <=> Willing(v, ix, buying, {}, BaseAta(User), User)
  <2>1. Sound(v) /\ v.err = "none" /\ v.curve = chain.curve /\ Quote(v) = Quote(chain)
    BY <1>1, <1>4, OpenedSame
  <2>2. Exec(v, ix) = ExecLegacy(v, ix)
    BY <1>3, Dispatch
  <2>3. ix.op \in Sells /\ v.curve.is_cashback_coin => Len(ix.rest) = 3
    BY <1>3, <2>1
  <2>4. ExecLegacy(v, ix).err = "none"
          <=> Willing(v, ix, ix.op \notin Sells, {}, BaseAta(User), User)
    BY <1>1, <2>1, <2>3, LegacyOutcome
  <2> QED BY <1>3, <2>2, <2>4
<1>5. Run(chain, pre \o <<ix>>).err = "none"
        <=> /\ \A a \in {} \cup {BaseAta(User)} : Has(chain, a) \/ a \in Openings(pre)
            /\ IF buying THEN Cost(chain) <= Bal(chain, User) ELSE 1 <= Bal(chain, BaseAta(User))
  <2> DEFINE needed == {}
             base == BaseAta(User)
  <2>1. \A v : Opened(chain, v, Openings(pre)) =>
                 (Exec(v, ix).err = "none" <=> Willing(v, ix, buying, needed, base, User))
    BY <1>4
  <2> HIDE DEF needed, base
  <2>2. Run(chain, pre \o <<ix>>).err = "none"
        <=> /\ \A a \in needed \cup {base} : Has(chain, a) \/ a \in Openings(pre)
            /\ IF buying THEN Cost(chain) <= Bal(chain, User) ELSE 1 <= Bal(chain, base)
    BY <1>1, <1>2, <2>1, TradeLands
  <2> QED BY <2>2 DEF needed, base
<1>6. Run(chain, e).err = "none" <=> Has(chain, BaseAta(User)) /\ spend <= Bal(chain, purse)
  <2> DEFINE run == Run(chain, e)
  <2>1. run = Run(chain, pre \o <<ix>>)
    BY <1>2
  <2> HIDE DEF run, e
  <2> QED BY <1>2, <1>5, <2>1 DEF run
<1>7. spend > Bal(chain, purse) <=> ~(spend <= Bal(chain, purse))
  <2>1. spend \in Nat /\ Bal(chain, purse) \in Nat
    BY <1>1, BalNat DEF Sound
  <2> HIDE DEF spend, purse
  <2> QED BY <2>1
<1> HIDE DEF spend, purse, e
<1>8. Refused("legacy", e, purse, spend)
        <=> ~(spend <= Bal(chain, purse)) \/ ~Has(chain, BaseAta(User))
  BY <1>7 DEF Refused
<1>9. Lands1("legacy", e, purse, spend)
  BY <1>6, <1>8 DEF Lands1
<1> QED BY <1>9 DEF e, purse, spend

LEMMA LegacyBuyLands ==
  ASSUME Settled, OnOpenCurve, Quote(chain) = NATIVE_MINT,
         NEW fee \in FeeRecipients(PumpGlobal, chain.curve.is_mayhem_mode),
         NEW b \in BuybackFeeRecipients(PumpGlobal), NEW limit, Quoted(limit, TRUE)
  PROVE  Lands1("legacy", <<BuyInstruction(k, chain.curve.creator, fee, b, 1, limit)>>,
                User, Cost(chain))
<1> DEFINE ix == BuyInstruction(k, chain.curve.creator, fee, b, 1, limit)
<1>1. /\ ix.op = "buy" /\ ix.a = LegacyAccounts(k, chain.curve.creator, fee)
      /\ ix.rest = <<BondingCurveV2Pda(k.base_mint), b>> /\ ix.args = Amounts(1, limit)
  BY DEF BuyInstruction, Ix
<1> HIDE DEF ix
<1>2. Last(ix.rest) = b /\ ix.args.limit = limit /\ ix.op \notin ExactIns
  BY <1>1 DEF Last, Amounts, ExactIns
<1>3. Fresh(ix, TRUE)
  BY <1>2, QuotedFresh
<1>4. LET buying == TRUE
      IN  Lands1("legacy", <<ix>>, IF buying THEN User ELSE BaseAta(User),
                 IF buying THEN Cost(chain) ELSE 1)
  BY <1>1, <1>2, <1>3, LegacyTradeLands
<1> QED BY <1>4 DEF ix

LEMMA LegacySellLands ==
  ASSUME Settled, OnOpenCurve, Quote(chain) = NATIVE_MINT,
         NEW fee \in FeeRecipients(PumpGlobal, chain.curve.is_mayhem_mode),
         NEW b \in BuybackFeeRecipients(PumpGlobal), NEW limit, Quoted(limit, FALSE)
  PROVE  Lands1("legacy", <<SellInstruction(k, chain.curve.creator, fee, b, 1, limit,
                                            chain.curve.is_cashback_coin)>>,
                BaseAta(User), 1)
<1> DEFINE cashback == chain.curve.is_cashback_coin
           ix == SellInstruction(k, chain.curve.creator, fee, b, 1, limit, cashback)
           first == IF cashback THEN <<UserVolumeAccumulator(k.user)>> ELSE <<>>
           v2 == BondingCurveV2Pda(k.base_mint)
           last == <<v2, b>>
<1>1. /\ ix.op = "sell" /\ ix.a = LegacyAccounts(k, chain.curve.creator, fee)
      /\ ix.rest = first \o last /\ ix.args = Amounts(1, limit)
  BY DEF SellInstruction, Ix
<1> HIDE DEF ix
<1>2. /\ IsSeq(first) /\ IsSeq(last) /\ Len(last) = 2 /\ last[2] = b
      /\ cashback => Len(first) = 1
  BY ShortSeqs
<1> HIDE DEF first, last
<1>3. Last(ix.rest) = b /\ (cashback => Len(ix.rest) = 3)
  <2> DEFINE l == first \o last
  <2>1. Len(l) = Len(first) + Len(last) /\ Last(l) = last[2]
    BY <1>2, EndToEnd
  <2> HIDE DEF l
  <2>2. ix.rest = l
    BY <1>1 DEF l
  <2>3. Last(ix.rest) = b
    BY <1>2, <2>1, <2>2, Zenon
  <2>4. ASSUME cashback PROVE Len(ix.rest) = 3
    <3>1. Len(first) = 1 /\ Len(last) = 2
      BY <1>2, <2>4, Zenon
    <3>2. Len(l) = 1 + 2
      BY <2>1, <3>1, Zenon
    <3>3. 1 + 2 = 3
      OBVIOUS
    <3> QED BY <2>2, <3>2, <3>3, Zenon
  <2> QED BY <2>3, <2>4
<1>4. ix.args.limit = limit /\ ix.op \notin ExactIns
  BY <1>1 DEF Amounts, ExactIns
<1>5. Fresh(ix, FALSE)
  BY <1>4, QuotedFresh
<1>6. LET buying == FALSE
      IN  Lands1("legacy", <<ix>>, IF buying THEN User ELSE BaseAta(User),
                 IF buying THEN Cost(chain) ELSE 1)
  BY <1>1, <1>3, <1>5, LegacyTradeLands
<1> QED BY <1>6 DEF ix

(* Lists that spend nothing land whenever they run. *)
LEMMA FreeLands ==
  ASSUME Settled, NEW kind \in {"legacy_create", "sweep", "collect", "distribute",
                                "update_shares", "extend", "claim", "migrate"},
         NEW list, Run(chain, list).err = "none"
  PROVE  Lands1(kind, list, User, 0)
<1>1. Refused(kind, list, User, 0) <=> ~(0 <= Bal(chain, User))
  BY OnlyFunds
<1>2. Bal(chain, User) \in Nat
  BY BalNat DEF Settled, Sound
<1> QED BY <1>1, <1>2 DEF Lands1

LEMMA LegacyCreateLands ==
  ASSUME Settled, ~chain.curve.exists
  PROVE  Lands1("legacy_create", <<CreateInstruction(k, Creator)>>, User, 0)
<1> DEFINE ix == CreateInstruction(k, Creator)
           c == [NoCurve EXCEPT !.exists = TRUE, !.creator = ix.args.creator]
           coin == [chain EXCEPT !.curve = c]
           v == Credit(coin, ix.a.associated_bonding_curve, 0)
<1>1. /\ DOMAIN chain = Fields /\ chain.err = "none" /\ World(chain)
      /\ ix.op = "create"
  BY DEF Settled, Sound, World, CreateInstruction, Ix
<1>2. Run(chain, <<ix>>) = Exec(chain, ix)
  <2> HIDE DEF ix
  <2> QED BY <1>1, RunOne DEF Step
<1>3. Exec(chain, ix) = v
  BY <1>1, Dispatch, Zenon DEF ExecCreate, Refuse
<1> HIDE DEF c
<1>4. World(coin) /\ coin.err = "none"
  BY <1>1 DEF World, Fields
<1> HIDE DEF coin, ix
<1>5. v.err = "none"
  BY <1>4, Credits DEF LedgerOnly
<1>6. Run(chain, <<ix>>).err = "none"
  BY <1>2, <1>3, <1>5
<1> QED BY <1>6, FreeLands DEF ix

LEMMA ExtendLands ==
  ASSUME Settled
  PROVE  Lands1("extend", <<ExtendAccountIx(Mint, User)>>, User, 0)
<1> DEFINE ix == ExtendAccountIx(Mint, User)
<1>1. ix.op = "extend_account" /\ chain.err = "none"
  BY DEF Settled, ExtendAccountIx, Ix
<1> HIDE DEF ix
<1>2. Run(chain, <<ix>>).err = "none"
  BY <1>1, RunOne, Dispatch DEF Step
<1> QED BY <1>2, FreeLands DEF ix

LEMMA ClaimLands ==
  ASSUME Settled
  PROVE  Lands1("claim", <<ClaimCashbackV2Instruction(User, chain.curve.quote_mint, SPL_TOKEN)>>,
                User, 0)
<1> DEFINE ix == ClaimCashbackV2Instruction(User, chain.curve.quote_mint, SPL_TOKEN)
<1>1. ix.op = "claim_cashback_v2" /\ chain.err = "none" /\ World(chain)
  BY DEF Settled, Sound, ClaimCashbackV2Instruction, Ix
<1> HIDE DEF ix
<1>2. Run(chain, <<ix>>) = ExecClaimCashback(chain, ix)
  BY <1>1, RunOne, Dispatch DEF Step
<1>3. ExecClaimCashback(chain, ix).err = "none"
  <2>1. \A from, to : MoveAll(chain, from, to).err = "none"
    BY <1>1, MovesAll DEF LedgerOnly
  <2> QED BY <2>1 DEF ExecClaimCashback
<1> QED BY <1>2, <1>3, FreeLands DEF ix

LEMMA MigrateLands ==
  ASSUME Settled, chain.curve.complete, ~OnPool
  PROVE  Lands1("migrate", <<MigrateV2Instruction(k, Quote(chain))>>, User, 0)
<1> DEFINE ix == MigrateV2Instruction(k, Quote(chain))
           made == [chain EXCEPT !.pool = PoolOf(chain)]
           v == Open(made, {ix.a.pool_base_token_account, ix.a.pool_quote_token_account})
<1>1. DOMAIN chain = Fields /\ chain.err = "none" /\ World(chain)
  BY DEF Settled, Sound, World
<1>2. ix.op = "migrate_v2" /\ ix.a.pool = PoolKey(chain) /\ Len(ix.rest) = 2
  <2> DEFINE pda == PoolKey(chain)
             two == <<BoostVaultAuthority(pda), BoostVault(pda, Quote(chain), SPL_TOKEN)>>
  <2>1. Len(two) = 2
    <3> DEFINE x == BoostVaultAuthority(pda)
               y == BoostVault(pda, Quote(chain), SPL_TOKEN)
    <3> HIDE DEF x, y
    <3>1. Len(<<x, y>>) = 2
      BY ShortSeqs
    <3> QED BY <3>1 DEF x, y
  <2>2. ix.op = "migrate_v2" /\ ix.a.pool = pda /\ ix.rest = two
    BY DEF MigrateV2Instruction, Ix, PoolKey, CanonicalPool, k
  <2> HIDE DEF two, ix
  <2> QED BY <2>1, <2>2
<1> HIDE DEF ix
<1>3. Run(chain, <<ix>>) = ExecMigrateV2(chain, ix)
  BY <1>1, <1>2, RunOne, Dispatch DEF Step
<1>4. ExecMigrateV2(chain, ix) = v
  BY <1>2, Zenon DEF ExecMigrateV2, Refuse, OnPool
<1>5. World(made) /\ made.err = "none"
  BY <1>1 DEF World, Fields
<1> HIDE DEF made
<1>6. v.err = "none"
  BY <1>5, Opens DEF LedgerOnly
<1>7. Run(chain, <<ix>>).err = "none"
  BY <1>3, <1>4, <1>6
<1> QED BY <1>7, FreeLands DEF ix


(* ---- the creator's fees ---- *)
LEMMA CoinReady ==
  ASSUME Settled, chain.curve.exists
  PROVE  Ready(chain) /\ World(chain)
BY DEF Settled, Ready, Sound

LEMMA MovedReady ==
  ASSUME NEW w, Ready(w), NEW from, NEW to, NEW v, v = MoveAll(w, from, to)
  PROVE  Ready(v) /\ v.curve = w.curve /\ v.pool = w.pool /\ v.shareholders = w.shareholders
<1>1. World(w) /\ Sound(w)
  BY DEF Ready, Sound
<1>2. LedgerOnly(w, v)
  BY <1>1, MovesAll
<1>3. Sound(v)
  BY <1>1, <1>2, LedgerOnlySound
<1> QED BY <1>2, <1>3 DEF Ready, LedgerOnly

LEMMA SweepLands ==
  ASSUME Settled, chain.curve.exists
  PROVE  Lands1("sweep", Sweeps, User, 0)
<1>1. Cash(chain, Run(chain, Sweeps))
  BY CoinReady, SweepsCash
<1>2. Run(chain, Sweeps).err = "none"
  BY <1>1 DEF Cash, Ready
<1> QED BY <1>2, FreeLands

LEMMA CollectLands ==
  ASSUME Settled, chain.curve.exists
  PROVE  Lands1("collect", Collects, User, 0)
<1> DEFINE c == chain.curve.creator
           q == chain.curve.quote_mint
           l == CollectCreatorFeeV2Instructions(User, c, q, SPL_TOKEN, TRUE)
           p == CollectCoinCreatorFeeInstructions(User, c, Quote(chain), SPL_TOKEN, TRUE)
           m == IF OnPool THEN p ELSE <<>>
           u == Run(chain, l)
<1>1. Ready(chain)
  BY CoinReady
<1>2. Collects = l \o m
  BY Zenon DEF Collects
<1>3. Fits(l) /\ Fits(p)
  BY CollectListsFit
<1>4. \E x, to : Cash(chain, x) /\ u = MoveAll(x, Vault(x), to)
  BY <1>1, CollectMoves
<1> HIDE DEF l, u
<1>5. PICK x, to : Cash(chain, x) /\ u = MoveAll(x, Vault(x), to)
  BY <1>4
<1>6. Ready(u) /\ u.curve = x.curve /\ u.pool = x.pool
  BY <1>5, MovedReady DEF Cash
<1>7. /\ u.curve.creator = c /\ Quote(u) = Quote(chain)
      /\ u.pool.exists = chain.pool.exists
  <2>1. x.curve.creator = c /\ Quote(x) = Quote(chain) /\ x.pool.exists = chain.pool.exists
    BY <1>1, <1>5, SameAccounts DEF Cash, Ready
  <2> QED BY <1>6, <2>1 DEF Quote
<1>8. Run(chain, l \o m) = Run(u, m)
  <2>1. IsSeq(l) /\ IsSeq(m)
    <3> HIDE DEF p
    <3> QED BY <1>3, FitsNone DEF Fits
  <2> HIDE DEF m
  <2> QED BY <2>1, RunConcat DEF u
<1>9. Run(u, m).err = "none"
  <2>1. CASE OnPool
    <3> DEFINE v == Run(u, p)
    <3>1. \E y, at : Cash(u, y) /\ v = MoveAll(y, AmmVault(y), at)
      <4>1. u.pool.exists
        BY <1>7, <2>1 DEF OnPool
      <4> DEFINE x1 == Run(u, CollectCoinCreatorFeeInstructions(User, u.curve.creator, Quote(u),
                                                               SPL_TOKEN, TRUE))
      <4>2. v = x1
        BY <1>7
      <4>3. \E y, at : Cash(u, y) /\ x1 = MoveAll(y, AmmVault(y), at)
        BY <1>6, <4>1, CollectPoolMoves
      <4> HIDE DEF v, x1
      <4> QED BY <4>2, <4>3
    <3>2. Run(u, m) = v
      BY <2>1
    <3> HIDE DEF v, m
    <3>3. PICK y, at : Cash(u, y) /\ v = MoveAll(y, AmmVault(y), at)
      BY <3>1
    <3>4. Ready(v)
      BY <3>3, MovedReady DEF Cash
    <3> QED BY <3>2, <3>4 DEF Ready
  <2>2. CASE ~OnPool
    <3>1. Run(u, m) = u
      BY <2>2, RunNone
    <3> QED BY <1>6, <3>1 DEF Ready
  <2> QED BY <2>1, <2>2
<1>10. Run(chain, Collects).err = "none"
  BY <1>2, <1>8, <1>9
<1> QED BY <1>10, FreeLands

LEMMA DistributeLands ==
  ASSUME Settled, chain.curve.exists, Shared
  PROVE  Lands1("distribute", Distribution, User, 0)
<1>1. Ready(chain) /\ Cash(chain, chain)
  BY CoinReady, CashNone
<1>2. PICK v : /\ Cash(chain, v) /\ v.curve.creator = chain.curve.creator
               /\ v.shareholders = chain.shareholders
               /\ v.curve.creator_fee = 0
               /\ \A i \in DOMAIN v.shareholders : Has(v, QuoteAta(v, v.shareholders[i]))
               /\ Run(chain, Distribution)
                    = Step(v, DistributeCreatorFeesV2Instruction(User, Mint, v.curve.creator,
                                v.curve.quote_mint, SPL_TOKEN, TRUE, v.shareholders))
  BY <1>1, DistributionReaches
<1>3. Ready(v) /\ v.curve.creator = SharingConfig(Mint)
  BY <1>2 DEF Cash, Shared
<1>4. PICK m : /\ LedgerOnly(v, m)
               /\ Run(chain, Distribution) = Distribute(m, v.shareholders)
  BY <1>2, <1>3, DistributeRuns
<1>5. v.shareholders \in Holders
  BY <1>3 DEF Ready, Sound
<1>6. World(m) /\ m.err = "none"
  BY <1>3, <1>4 DEF LedgerOnly, Ready, Sound
<1>7. LedgerOnly(m, Distribute(m, v.shareholders))
  BY <1>5, <1>6, Distributes
<1>8. Run(chain, Distribution).err = "none"
  BY <1>4, <1>6, <1>7 DEF LedgerOnly
<1> QED BY <1>8, FreeLands

LEMMA PrefixOfConcat ==
  ASSUME NEW l, NEW m, IsSeq(l), IsSeq(m)
  PROVE  IsPrefix(l, l \o m)
<1> DEFINE c == l \o m
           n == Len(l)
           S == ToSet(l) \cup ToSet(c)
<1>1. /\ IsSeq(c) /\ n \in Nat /\ Len(m) \in Nat /\ Len(c) = n + Len(m)
      /\ DOMAIN l = 1..n /\ DOMAIN c = 1..(n + Len(m))
      /\ \A i \in 1..n : c[i] = l[i]
  BY IsSeqConcat
<1> HIDE DEF c, n
<1>2. n <= Len(c)
  BY <1>1
<1>3. \A i \in 1..n : l[i] \in S /\ c[i] \in S
  <2>1. \A i \in 1..n : i \in DOMAIN l
    BY <1>1
  <2>2. \A i \in DOMAIN l : l[i] \in ToSet(l)
    BY DEF ToSet
  <2> QED BY <1>1, <2>1, <2>2
<1> HIDE DEF S
<1>4. ASSUME NEW s, \A i \in 1..n : s[i] \in S
      PROVE  /\ SubSeq(s, 1, n) \in Seq(S) /\ Len(SubSeq(s, 1, n)) = n
             /\ \A i \in 1..n : SubSeq(s, 1, n)[i] = s[i]
  <2>1. 1 \in Int /\ n \in Int /\ n - 1 + 1 = n /\ (1 <= n \/ n = 0)
        /\ \A i \in 1..n : 1 + i - 1 = i
    BY <1>1
  <2>2. /\ SubSeq(s, 1, n) \in Seq(S)
        /\ Len(SubSeq(s, 1, n)) = IF 1 <= n THEN n - 1 + 1 ELSE 0
        /\ \A i \in 1 .. n - 1 + 1 : SubSeq(s, 1, n)[i] = s[1 + i - 1]
    BY <1>4, <2>1, SubSeqProperties
  <2> QED BY <2>1, <2>2
<1>5. SubSeq(l, 1, n) = SubSeq(c, 1, n)
  <2> DEFINE a == SubSeq(l, 1, n)
             b == SubSeq(c, 1, n)
  <2>1. /\ a \in Seq(S) /\ b \in Seq(S) /\ Len(a) = n /\ Len(b) = n
        /\ \A i \in 1..n : a[i] = l[i] /\ b[i] = c[i]
    BY <1>3, <1>4
  <2> HIDE DEF a, b
  <2>2. \A i \in 1..Len(a) : a[i] = b[i]
    BY <1>1, <2>1
  <2>3. a = b
    BY <2>1, <2>2, SeqEqual
  <2> QED BY <2>3 DEF a, b
<1> QED BY <1>2, <1>5 DEF IsPrefix, c, n

(* A share update accepts a swept coin whose holders have their accounts.    *)
LEMMA UpdateRuns ==
  ASSUME NEW w, Ready(w), w.curve.creator = SharingConfig(Mint), Swept(w),
         \A i \in DOMAIN w.shareholders : Has(w, QuoteAta(w, w.shareholders[i])),
         NEW ix, ix.op \in UpdateOps, ix.a.keys.pump_creator_vault = CreatorVault(w.curve.creator),
         ix.a.quote_mint = Quote(w),
         ix.rest = HolderAccounts(w) \o IF w.curve.complete THEN <<PoolKey(w)>> ELSE <<>>
  PROVE  Step(w, ix).err = "none"
<1> DEFINE accounts == HolderAccounts(w)
           tail == IF w.curve.complete THEN <<PoolKey(w)>> ELSE <<>>
           m == ToPumpVault(w, w.curve.creator)
           d == Distribute(m, w.shareholders)
           v == [d EXCEPT !.shareholders = ix.args.shareholders]
           rest == Refuse(w, ix.a.quote_mint # Quote(w), "ConstraintSeeds",
                   Refuse(w, w.curve.complete /\ Last(ix.rest) # PoolKey(w),
                          "NotEnoughRemainingAccounts",
                   Refuse(w, w.pool.exists /\ w.pool.creator_fees > 0,
                          "PoolCreatorFeesNotSwept", v)))
<1>1. World(w) /\ Sound(w) /\ w.err = "none" /\ w.shareholders \in Holders
  BY DEF Ready, Sound
<1>2. IsSeq(w.shareholders)
  BY <1>1, WalletAssumption DEF IsSeq
<1>3. IsSeq(accounts)
  BY <1>2, HoldersSeq
<1>4. IsSeq(tail) /\ (w.curve.complete => Len(tail) = 1 /\ tail[1] = PoolKey(w))
  <2> DEFINE key == PoolKey(w)
  <2> HIDE DEF key
  <2> QED BY ShortSeqs DEF key
<1> HIDE DEF accounts, tail
<1>5. ix.rest = accounts \o tail
  BY DEF accounts, tail
<1>6. IsPrefix(accounts, ix.rest)
  BY <1>3, <1>4, <1>5, PrefixOfConcat
<1>7. w.curve.complete => Last(ix.rest) = PoolKey(w)
  <2> SUFFICES ASSUME w.curve.complete PROVE Last(ix.rest) = PoolKey(w)
    OBVIOUS
  <2>1. /\ Len(accounts) \in Nat /\ Len(accounts \o tail) = Len(accounts) + Len(tail)
        /\ (accounts \o tail)[Len(accounts) + 1] = tail[1]
    BY <1>3, <1>4, EndToEnd
  <2>2. Len(tail) = 1 /\ tail[1] = PoolKey(w)
    BY <1>4
  <2> QED BY <1>5, <2>1, <2>2 DEF Last
<1>8. ~(w.curve.creator_fee > 0) /\ ~(w.pool.creator_fees > 0)
  BY DEF Swept
<1>9. v.err = "none"
  <2>1. LedgerOnly(w, m)
    BY <1>1, TransferToPumpKept
  <2> HIDE DEF m
  <2>2. World(m)
    BY <2>1 DEF LedgerOnly
  <2>3. LedgerOnly(m, d)
    BY <1>1, <2>2, Distributes
  <2> HIDE DEF d
  <2> QED BY <1>1, <2>1, <2>3 DEF LedgerOnly, World, Fields
<1>10. Step(w, ix) = ExecUpdateFeeShares(w, ix)
  BY <1>1, Dispatch DEF Step, UpdateOps
<1>11. ExecUpdateFeeShares(w, ix) = SharesChecked(w, CreatorVault(w.curve.creator), ix.rest, rest)
  BY Zenon DEF ExecUpdateFeeShares
<1> HIDE DEF v
<1>12. rest = v
  BY <1>7, <1>8, Zenon DEF Refuse
<1> HIDE DEF rest
<1>13. SharesChecked(w, CreatorVault(w.curve.creator), ix.rest, rest) = rest
  BY <1>6, <1>8, Zenon DEF SharesChecked, Refuse, accounts
<1> QED BY <1>9, <1>10, <1>11, <1>12, <1>13

LEMMA UpdateSharesLands ==
  ASSUME Settled, chain.curve.exists, Shared, NEW holders \in Holders, NEW u,
         \/ u = UpdateFeeSharesV2Instruction(User, Mint, chain.curve, SPL_TOKEN,
                                            chain.shareholders, holders)
         \/ /\ Quote(chain) = NATIVE_MINT
            /\ u = UpdateFeeSharesInstruction(User, Mint, chain.curve, chain.shareholders, holders),
         NEW creates, creates = [i \in DOMAIN chain.shareholders |->
                   CreateAta(User, chain.shareholders[i], Quote(chain), SPL_TOKEN)]
  PROVE  Lands1("update_shares", Sweeps \o creates \o <<u>>, User, 0)
<1> DEFINE current == chain.shareholders
           s == Sweeps
           w == Run(chain, s)
           v == Run(w, creates)
           tail == IF chain.curve.complete THEN <<PoolKey(chain)>> ELSE <<>>
<1>1. Ready(chain) /\ IsSeq(current)
  BY CoinReady, WalletAssumption DEF Ready, Sound, Shared, IsSeq
<1>2. Cash(chain, w) /\ Swept(w)
  BY <1>1, SweepsCash
<1>3. IsSeq(s) /\ IsSeq(creates) /\ IsSeq(<<u>>)
  <2>1. Quiet(creates)
    BY <1>1, CreatesQuiet
  <2> QED BY <2>1, SweepsQuiet, ShortSeqs DEF Quiet, Fits
<1> HIDE DEF s
<1>4. Run(chain, s \o creates \o <<u>>) = Step(v, u)
  <2>1. IsSeq(s \o creates)
    BY <1>3, IsSeqConcat
  <2>2. Run(chain, (s \o creates) \o <<u>>) = Run(Run(chain, s \o creates), <<u>>)
    BY <1>3, <2>1, RunConcat
  <2>3. Run(chain, s \o creates) = v
    BY <1>3, RunConcat
  <2> QED BY <2>2, <2>3, RunOne
<1> HIDE DEF w
<1>5. /\ Ready(w) /\ Quote(w) = Quote(chain) /\ w.shareholders = current
      /\ \A p : QuoteAta(w, p) = QuoteAta(chain, p)
  BY <1>1, <1>2, SameAccounts DEF Cash, Ready
<1>6. Cash(w, v) /\ \A i \in DOMAIN current : Has(v, QuoteAta(w, current[i]))
  BY <1>1, <1>5, CreatesCash
<1> HIDE DEF v
<1>7. Cash(chain, v)
  BY <1>1, <1>2, <1>6, CashThrough DEF Ready
<1>8. /\ Ready(v) /\ Quote(v) = Quote(chain) /\ v.shareholders = current
      /\ v.curve.creator = chain.curve.creator /\ Swept(v)
      /\ \A p : QuoteAta(v, p) = QuoteAta(chain, p)
  BY <1>1, <1>2, <1>6, <1>7, SameAccounts DEF Cash, Ready, Swept
<1>9. v.curve.complete = chain.curve.complete /\ PoolKey(v) = PoolKey(chain)
  <2>1. v.curve.complete = chain.curve.complete
    BY <1>7 DEF Cash, Frame, CurveFields
  <2> QED BY <1>8, <2>1 DEF PoolKey
<1>10. \A i \in DOMAIN v.shareholders : Has(v, QuoteAta(v, v.shareholders[i]))
  BY <1>5, <1>6, <1>8
<1>11. HolderAccounts(v) = HolderAccounts(chain) /\ IsSeq(HolderAccounts(chain))
  <2> DEFINE Atas(x) == [i \in DOMAIN x.shareholders |-> QuoteAta(x, x.shareholders[i])]
             More(x) == IF Quote(x) = NATIVE_MINT THEN <<>> ELSE Atas(x)
  <2>1. \A x : HolderAccounts(x) = x.shareholders \o More(x)
    BY Zenon DEF HolderAccounts
  <2>2. Atas(v) = Atas(chain)
    BY <1>8
  <2> HIDE DEF Atas
  <2>3. More(v) = More(chain)
    BY <1>8, <2>2
  <2> HIDE DEF Tail
  <2>4. HolderAccounts(v) = HolderAccounts(chain)
    BY <1>8, <2>1, <2>3, Zenon
  <2> QED BY <1>1, <2>4, HoldersSeq
<1>12. PoolIfComplete(Mint, chain.curve) = tail
  BY DEF PoolIfComplete, PoolKey, Quote
<1> HIDE DEF tail
<1>13. /\ u.op \in UpdateOps /\ u.a.keys.pump_creator_vault = CreatorVault(SharingConfig(Mint))
       /\ u.a.quote_mint = Quote(chain) /\ u.rest = HolderAccounts(chain) \o tail
  <2>1. CASE u = UpdateFeeSharesV2Instruction(User, Mint, chain.curve, SPL_TOKEN, current, holders)
    <3>1. u.rest = HolderAccounts(chain) \o PoolIfComplete(Mint, chain.curve)
      BY <2>1 DEF UpdateFeeSharesV2Instruction, Ix, HolderAccounts, QuoteAta, Quote
    <3>2. /\ u.op = "update_fee_shares_v2" /\ u.a.keys = FeeSharesKeys(Mint)
          /\ u.a.quote_mint = Quote(chain)
      BY <2>1 DEF UpdateFeeSharesV2Instruction, Ix, Quote
    <3> QED BY <1>12, <3>1, <3>2 DEF FeeSharesKeys, UpdateOps
  <2>2. CASE /\ Quote(chain) = NATIVE_MINT
             /\ u = UpdateFeeSharesInstruction(User, Mint, chain.curve, current, holders)
    <3>1. HolderAccounts(chain) = current
      <4>1. HolderAccounts(chain) = current \o <<>>
        BY <2>2 DEF HolderAccounts
      <4> QED BY <1>1, <4>1, NoneAfter
    <3>2. /\ u.op = "update_fee_shares" /\ u.a.keys = FeeSharesKeys(Mint)
          /\ u.a.quote_mint = NATIVE_MINT
          /\ u.rest = current \o PoolIfComplete(Mint, chain.curve)
      BY <2>2 DEF UpdateFeeSharesInstruction, Ix
    <3> QED BY <1>12, <2>2, <3>1, <3>2 DEF FeeSharesKeys, UpdateOps
  <2> QED BY <2>1, <2>2
<1>14. u.rest = HolderAccounts(v) \o IF v.curve.complete THEN <<PoolKey(v)>> ELSE <<>>
  BY <1>9, <1>11, <1>13 DEF tail
<1>15. v.curve.creator = SharingConfig(Mint)
  BY <1>8 DEF Shared
<1>16. Step(v, u).err = "none"
  BY <1>8, <1>10, <1>13, <1>14, <1>15, UpdateRuns
<1>17. Run(chain, s \o creates \o <<u>>).err = "none"
  BY <1>4, <1>16
<1> QED BY <1>17, FreeLands DEF s


(* ---- the actions ---- *)
(* A list just built from a settled chain lands or is refused as Refused     *)
(* says; chain, and with it FeesOpen, stays.                                 *)
(* What holds between the steps: the listed recipients' accounts stay open,  *)
(* and a fresh list lands unless a refusal is known.                         *)
Landing ==
  /\ FeesOpen
  /\ "fresh" \in DOMAIN job
  /\ FreshListLands

LEMMA BuildLands ==
  ASSUME FeesOpen, NEW kind, NEW lists, NEW purse, NEW spend, NEW limit, NEW buying,
         Build(kind, lists, purse, spend, limit, buying),
         \A list \in lists : Lands1(kind, list, purse, spend)
  PROVE  Landing'
<1>1. PICK list \in lists :
        job' = [kind |-> kind, list |-> list, purse |-> purse, spend |-> spend,
                limit |-> limit, buying |-> buying, fresh |-> TRUE]
  BY DEF Build
<1>2. chain' = chain
  BY DEF Build
<1>3. job'.kind = kind /\ job'.list = list /\ job'.purse = purse /\ job'.spend = spend
  BY <1>1
<1>4. FeesOpen'
  BY <1>2 DEF FeesOpen
<1>5. KnownRefusal' <=> Refused(kind, list, purse, spend)
  <2>1. (BuybackMissing(job.list))' <=> BuybackMissing(list)
    BY <1>2, <1>3 DEF BuybackMissing
  <2>2. Shifted' <=> Shifted
    BY <1>2 DEF Shifted
  <2>3. OnPool' <=> OnPool
    BY <1>2 DEF OnPool
  <2> QED BY <1>2, <1>3, <2>1, <2>2, <2>3 DEF KnownRefusal, Refused
<1>6. (Outcome.err = "none")' <=> Run(chain, list).err = "none"
  BY <1>2, <1>3 DEF Outcome
<1>7. Lands1(kind, list, purse, spend)
  BY <1>1
<1>8. FreshListLands'
  BY <1>5, <1>6, <1>7 DEF FreshListLands, Lands1
<1>9. "fresh" \in DOMAIN job'
  BY <1>1
<1> QED BY <1>4, <1>8, <1>9 DEF Landing

LEMMA BuildOneLands ==
  ASSUME Settled, NEW kind, NEW list, NEW purse, NEW spend, NEW limit, NEW buying,
         Build(kind, {list}, purse, spend, limit, buying), Lands1(kind, list, purse, spend)
  PROVE  Landing'
<1> DEFINE lists == {list}
<1>1. FeesOpen /\ \A l \in lists : Lands1(kind, l, purse, spend)
  BY DEF Settled
<1>2. Build(kind, lists, purse, spend, limit, buying)
  OBVIOUS
<1> HIDE DEF lists
<1> QED BY <1>1, <1>2, BuildLands

LEMMA LimitFresh ==
  ASSUME Settled, NEW buying \in BOOLEAN, NEW limit, Quoted(limit, buying),
         NEW ix, ix.op \notin ExactIns, ix.args = Amounts(1, limit)
  PROVE  Fresh(ix, buying)
<1>1. ix.args.limit = limit
  BY DEF Amounts
<1> QED BY <1>1, QuotedFresh

LEMMA BuildTradeTxLands ==
  ASSUME Settled, BuildTradeTx
  PROVE  Landing'
<1> DEFINE Lists(is_buy, limit) ==
             TradeTxInstructions(PumpGlobal, AmmConfig, chain.curve,
                                 IF OnPool THEN {pool} ELSE {}, k, is_buy, 1, limit)
           wraps == chain.curve.complete /\ Quote(chain) = NATIVE_MINT
           spend(is_buy, limit) == IF is_buy THEN IF wraps THEN limit ELSE Cost(chain) ELSE 1
           purse(is_buy) == IF is_buy THEN CurvePurse(chain) ELSE BaseAta(User)
<1>1. \/ BuildBuy("trade_tx", LAMBDA limit : Lists(TRUE, limit), CurvePurse(chain), wraps)
      \/ BuildSell("trade_tx", LAMBDA limit : Lists(FALSE, limit))
  BY DEF BuildTradeTx
<1>2. ASSUME NEW is_buy \in BOOLEAN, NEW limit, Quoted(limit, is_buy),
             NEW list \in Lists(is_buy, limit)
      PROVE  Lands1("trade_tx", list, purse(is_buy), spend(is_buy, limit))
  <2>1. chain.curve.exists
    BY DEF BuildTradeTx
  <2> QED BY <1>2, <2>1, TradeTxLands
<1>3. CASE BuildBuy("trade_tx", LAMBDA limit : Lists(TRUE, limit), CurvePurse(chain), wraps)
  <2>1. PICK s \in Slippages :
          Build("trade_tx", Lists(TRUE, MaxCost(s)), CurvePurse(chain),
                IF wraps THEN MaxCost(s) ELSE Cost(chain), MaxCost(s), TRUE)
    BY <1>3 DEF BuildBuy
  <2>2. Quoted(MaxCost(s), TRUE)
    BY DEF Quoted
  <2>3. \A list \in Lists(TRUE, MaxCost(s)) :
          Lands1("trade_tx", list, purse(TRUE), spend(TRUE, MaxCost(s)))
    BY <1>2, <2>2
  <2>4. /\ purse(TRUE) = CurvePurse(chain)
        /\ spend(TRUE, MaxCost(s)) = IF wraps THEN MaxCost(s) ELSE Cost(chain)
    OBVIOUS
  <2> HIDE DEF Lists, purse, spend
  <2> QED BY <2>1, <2>3, <2>4, BuildLands DEF Settled
<1>4. CASE BuildSell("trade_tx", LAMBDA limit : Lists(FALSE, limit))
  <2>1. PICK s \in Slippages :
          Build("trade_tx", Lists(FALSE, MinProceeds(s)), BaseAta(User), 1, MinProceeds(s), FALSE)
    BY <1>4 DEF BuildSell
  <2>2. Quoted(MinProceeds(s), FALSE)
    BY DEF Quoted
  <2>3. \A list \in Lists(FALSE, MinProceeds(s)) :
          Lands1("trade_tx", list, purse(FALSE), spend(FALSE, MinProceeds(s)))
    BY <1>2, <2>2
  <2>4. purse(FALSE) = BaseAta(User) /\ spend(FALSE, MinProceeds(s)) = 1
    OBVIOUS
  <2> HIDE DEF Lists, purse, spend
  <2> QED BY <2>1, <2>3, <2>4, BuildLands DEF Settled
<1> QED BY <1>1, <1>3, <1>4

LEMMA BuildAmmLands ==
  ASSUME Settled, BuildAmm
  PROVE  Landing'
<1> DEFINE Buys(limit) == BuyAmmInstructions(pool.key, AmmConfig, pool.state, k, 1, limit)
           Sales(limit) == SellAmmInstructions(pool.key, AmmConfig, pool.state, k, 1, limit)
<1>1. OnPool /\ pool.key = PoolKey(chain) /\ pool.state = chain.pool
      /\ PoolPurse(chain) = QuoteAta(chain, User)
  BY DEF BuildAmm, pool, PoolPurse
<1>2. \/ BuildBuy("amm", LAMBDA limit : Buys(limit), PoolPurse(chain), FALSE)
      \/ BuildSell("amm", LAMBDA limit : Sales(limit))
  BY DEF BuildAmm
<1>3. chain.pool.base_mint = Mint /\ chain.pool.quote_mint = Quote(chain)
  BY <1>1, PoolFacts
<1>4. ASSUME NEW limit, Quoted(limit, TRUE), NEW list \in Buys(limit)
      PROVE  Lands1("amm", list, QuoteAta(chain, User), Cost(chain))
  <2> DEFINE args == Amounts(1, limit)
             create == CreateAta(User, User, Mint, TOKEN_2022)
             trades == AmmTrade("buy_amm", PoolKey(chain), AmmConfig, chain.pool, k, args)
  <2>1. PICK ix \in trades : list = <<create, ix>>
    BY <1>1, <1>3, <1>4 DEF BuyAmmInstructions, BuyAmmInstruction, k
  <2>2. ix.op \notin ExactIns /\ ix.args = args
    BY AmmIs DEF ExactIns
  <2> HIDE DEF trades
  <2>3. Fresh(ix, TRUE)
    BY <1>4, <2>2, LimitFresh
  <2> HIDE DEF create, args
  <2>4. LET buying == TRUE
        IN  Lands1("amm", <<create, ix>>, IF buying THEN QuoteAta(chain, User) ELSE BaseAta(User),
                   IF buying THEN Cost(chain) ELSE 1)
    BY <1>1, <2>3, AmmListLands DEF create, trades
  <2> QED BY <2>1, <2>4
<1>5. ASSUME NEW limit, Quoted(limit, FALSE), NEW list \in Sales(limit)
      PROVE  Lands1("amm", list, BaseAta(User), 1)
  <2> DEFINE args == Amounts(1, limit)
             create == CreateAta(User, User, Quote(chain), SPL_TOKEN)
             trades == AmmTrade("sell_amm", PoolKey(chain), AmmConfig, chain.pool, k, args)
  <2>1. PICK ix \in trades : list = <<create, ix>>
    BY <1>1, <1>3, <1>5 DEF SellAmmInstructions, SellAmmInstruction, k
  <2>2. ix.op \notin ExactIns /\ ix.args = args
    BY AmmIs DEF ExactIns
  <2> HIDE DEF trades
  <2>3. Fresh(ix, FALSE)
    BY <1>5, <2>2, LimitFresh
  <2> HIDE DEF create, args
  <2>4. LET buying == FALSE
        IN  Lands1("amm", <<create, ix>>, IF buying THEN QuoteAta(chain, User) ELSE BaseAta(User),
                   IF buying THEN Cost(chain) ELSE 1)
    BY <1>1, <2>3, AmmListLands DEF create, trades
  <2> QED BY <2>1, <2>4
<1>6. CASE BuildBuy("amm", LAMBDA limit : Buys(limit), PoolPurse(chain), FALSE)
  <2>1. PICK s \in Slippages :
          Build("amm", Buys(MaxCost(s)), QuoteAta(chain, User), Cost(chain), MaxCost(s), TRUE)
    BY <1>1, <1>6 DEF BuildBuy
  <2>2. Quoted(MaxCost(s), TRUE)
    BY DEF Quoted
  <2> HIDE DEF Buys
  <2> QED BY <1>4, <2>1, <2>2, BuildLands DEF Settled
<1>7. CASE BuildSell("amm", LAMBDA limit : Sales(limit))
  <2>1. PICK s \in Slippages :
          Build("amm", Sales(MinProceeds(s)), BaseAta(User), 1, MinProceeds(s), FALSE)
    BY <1>7 DEF BuildSell
  <2>2. Quoted(MinProceeds(s), FALSE)
    BY DEF Quoted
  <2> HIDE DEF Sales
  <2> QED BY <1>5, <2>1, <2>2, BuildLands DEF Settled
<1> QED BY <1>2, <1>6, <1>7

LEMMA BuildCurveV2ExactInLands ==
  ASSUME Settled, BuildCurveV2ExactIn
  PROVE  Landing'
<1> DEFINE op == "buy_exact_quote_in_v2"
           args == Amounts(Cost(chain), 1)
           lists == BuyExactQuoteInV2Instructions(PumpGlobal, chain.curve, k, Cost(chain), 1)
<1>1. OnOpenCurve /\ op \in V2Ops /\ op \in ExactIns /\ op \notin Sells
  BY DEF BuildCurveV2ExactIn, V2Ops, ExactIns, Sells
<1>2. Build("v2", lists, CurvePurse(chain), Cost(chain), 1, TRUE)
  BY DEF BuildCurveV2ExactIn, BuildExactIn
<1>3. ASSUME NEW list \in lists PROVE Lands1("v2", list, CurvePurse(chain), Cost(chain))
  <2> DEFINE trades == V2Trade(op, PumpGlobal, chain.curve, k, args)
  <2>1. PICK ix \in trades : list = Append(UserTradeAtas(k, chain.curve, TRUE), ix)
    BY DEF BuyExactQuoteInV2Instructions, BuyExactQuoteInV2Instruction
  <2>2. ix.op = op /\ ix.args = args
    BY DEF V2Trade, Ix
  <2>3. ix.args.amount = Cost(chain)
    BY <2>2 DEF Amounts
  <2>4. Fresh(ix, op \notin Sells)
    BY <1>1, <2>2, <2>3 DEF Fresh
  <2> HIDE DEF args
  <2>5. LET buying == op \notin Sells
        IN  Lands1("v2", Append(UserTradeAtas(k, chain.curve, buying), ix),
                   IF buying THEN CurvePurse(chain) ELSE BaseAta(User),
                   IF buying THEN Cost(chain) ELSE 1)
    BY <1>1, <2>4, V2Lands
  <2> DEFINE buying == op \notin Sells
  <2>6. buying = TRUE
    BY <1>1
  <2> QED BY <2>1, <2>5, <2>6
<1> HIDE DEF lists
<1> QED BY <1>2, <1>3, BuildLands DEF Settled

LEMMA BuildV3Lands ==
  ASSUME Settled, BuildV3
  PROVE  Landing'
<1> DEFINE q == chain.curve.quote_mint
           Buys(b, limit) == BuyV3Instructions(k, q, b, 1, limit)
           Sales(b, limit) == SellV3Instructions(k, q, b, 1, limit)
           Exact(b) == BuyExactQuoteInV3Instructions(k, q, b, Cost(chain), 1)
<1>1. OnOpenCurve
  BY DEF BuildV3
<1>2. PICK b \in BuybackFeeRecipients(PumpGlobal) :
        \/ BuildBuy("v3", LAMBDA limit : {Buys(b, limit)}, CurvePurse(chain), FALSE)
        \/ BuildSell("v3", LAMBDA limit : {Sales(b, limit)})
        \/ BuildExactIn("v3", {Exact(b)}, CurvePurse(chain))
  BY DEF BuildV3
<1>3. ASSUME NEW op \in V3Ops, NEW args, NEW ix,
             ix = Ix(op, V3Accounts(k, q, b), <<>>, args), Fresh(ix, op \notin Sells)
      PROVE  LET buying == op \notin Sells
             IN  Lands1("v3", WithUserAtas(k, q, b, buying, ix),
                        IF buying THEN CurvePurse(chain) ELSE BaseAta(User),
                        IF buying THEN Cost(chain) ELSE 1)
  <2>1. ix.op = op /\ ix.a = V3Accounts(k, q, b)
    BY <1>3 DEF Ix
  <2> QED BY <1>1, <1>3, <2>1, V3Lands
<1>4. ASSUME NEW limit, Quoted(limit, TRUE)
      PROVE  Lands1("v3", Buys(b, limit), CurvePurse(chain), Cost(chain))
  <2> DEFINE op == "buy_v3"
             ix == Ix(op, V3Accounts(k, q, b), <<>>, Amounts(1, limit))
             buying == op \notin Sells
  <2>1. op \in V3Ops /\ op \notin ExactIns /\ buying = TRUE
    BY DEF V3Ops, ExactIns, Sells
  <2>2. ix.op = op /\ ix.args = Amounts(1, limit) /\ Buys(b, limit) = WithUserAtas(k, q, b, TRUE, ix)
    BY DEF Ix, BuyV3Instructions
  <2> HIDE DEF ix, op
  <2>3. Fresh(ix, buying)
    BY <1>4, <2>1, <2>2, LimitFresh
  <2>4. Lands1("v3", WithUserAtas(k, q, b, buying, ix),
               IF buying THEN CurvePurse(chain) ELSE BaseAta(User),
               IF buying THEN Cost(chain) ELSE 1)
    BY <1>3, <2>1, <2>3 DEF ix
  <2> QED BY <2>1, <2>2, <2>4
<1>5. ASSUME NEW limit, Quoted(limit, FALSE)
      PROVE  Lands1("v3", Sales(b, limit), BaseAta(User), 1)
  <2> DEFINE op == "sell_v3"
             ix == Ix(op, V3Accounts(k, q, b), <<>>, Amounts(1, limit))
             buying == op \notin Sells
  <2>1. op \in V3Ops /\ op \notin ExactIns /\ buying = FALSE
    BY DEF V3Ops, ExactIns, Sells
  <2>2. ix.op = op /\ ix.args = Amounts(1, limit) /\ Sales(b, limit) = WithUserAtas(k, q, b, FALSE, ix)
    BY DEF Ix, SellV3Instructions
  <2> HIDE DEF ix, op
  <2>3. Fresh(ix, buying)
    BY <1>5, <2>1, <2>2, LimitFresh
  <2>4. Lands1("v3", WithUserAtas(k, q, b, buying, ix),
               IF buying THEN CurvePurse(chain) ELSE BaseAta(User),
               IF buying THEN Cost(chain) ELSE 1)
    BY <1>3, <2>1, <2>3 DEF ix
  <2> QED BY <2>1, <2>2, <2>4
<1>6. Lands1("v3", Exact(b), CurvePurse(chain), Cost(chain))
  <2> DEFINE op == "buy_exact_quote_in_v3"
             ix == Ix(op, V3Accounts(k, q, b), <<>>, Amounts(Cost(chain), 1))
             buying == op \notin Sells
  <2>1. op \in V3Ops /\ op \in ExactIns /\ buying = TRUE
    BY DEF V3Ops, ExactIns, Sells
  <2>2. ix.op = op /\ ix.args.amount = Cost(chain) /\ Exact(b) = WithUserAtas(k, q, b, TRUE, ix)
    BY DEF Ix, Amounts, BuyExactQuoteInV3Instructions
  <2> HIDE DEF ix, op
  <2>3. Fresh(ix, buying)
    BY <2>1, <2>2 DEF Fresh
  <2>4. Lands1("v3", WithUserAtas(k, q, b, buying, ix),
               IF buying THEN CurvePurse(chain) ELSE BaseAta(User),
               IF buying THEN Cost(chain) ELSE 1)
    BY <1>3, <2>1, <2>3 DEF ix
  <2> QED BY <2>1, <2>2, <2>4
<1> HIDE DEF Buys, Sales, Exact
<1>7. CASE BuildBuy("v3", LAMBDA limit : {Buys(b, limit)}, CurvePurse(chain), FALSE)
  <2>1. PICK s \in Slippages :
          Build("v3", {Buys(b, MaxCost(s))}, CurvePurse(chain), Cost(chain), MaxCost(s), TRUE)
    BY <1>7 DEF BuildBuy
  <2>2. Quoted(MaxCost(s), TRUE)
    BY DEF Quoted
  <2> QED BY <1>4, <2>1, <2>2, BuildOneLands
<1>8. CASE BuildSell("v3", LAMBDA limit : {Sales(b, limit)})
  <2>1. PICK s \in Slippages :
          Build("v3", {Sales(b, MinProceeds(s))}, BaseAta(User), 1, MinProceeds(s), FALSE)
    BY <1>8 DEF BuildSell
  <2>2. Quoted(MinProceeds(s), FALSE)
    BY DEF Quoted
  <2> QED BY <1>5, <2>1, <2>2, BuildOneLands
<1>9. CASE BuildExactIn("v3", {Exact(b)}, CurvePurse(chain))
  <2>1. Build("v3", {Exact(b)}, CurvePurse(chain), Cost(chain), 1, TRUE)
    BY <1>9 DEF BuildExactIn
  <2> QED BY <1>6, <2>1, BuildOneLands
<1> QED BY <1>2, <1>7, <1>8, <1>9

LEMMA BuildAmmV2Lands ==
  ASSUME Settled, BuildAmmV2
  PROVE  Landing'
<1> DEFINE Buys(b, limit) == BuyAmmV2Instructions(pool.state, k, b, 1, limit)
           Sales(b, limit) == SellAmmV2Instructions(pool.state, k, b, 1, limit)
           Exact(b) == <<BuyExactQuoteInAmmV2Instruction(pool.state, k, b, Cost(chain), 1)>>
           purse == QuoteAta(chain, User)
<1>1. OnPool /\ pool.state = chain.pool /\ PoolPurse(chain) = purse
  BY DEF BuildAmmV2, pool, PoolPurse
<1>2. chain.pool.base_mint = Mint /\ chain.pool.quote_mint = Quote(chain)
  BY <1>1, PoolFacts
<1>3. PICK b \in BuybackFeeRecipients(AmmConfig) :
        \/ BuildBuy("amm_v2", LAMBDA limit : {Buys(b, limit)}, PoolPurse(chain), FALSE)
        \/ BuildSell("amm_v2", LAMBDA limit : {Sales(b, limit)})
        \/ BuildExactIn("amm_v2_singular", {Exact(b)}, PoolPurse(chain))
  BY DEF BuildAmmV2
<1>4. ASSUME NEW limit, Quoted(limit, TRUE)
      PROVE  Lands1("amm_v2", Buys(b, limit), purse, Cost(chain))
  <2> DEFINE args == Amounts(1, limit)
             create == CreateAta(User, User, Mint, TOKEN_2022)
             ix == AmmV2Instruction("buy_amm_v2", chain.pool, k, b, args)
  <2>1. Buys(b, limit) = <<create, ix>>
    BY <1>1, <1>2 DEF BuyAmmV2Instructions, k
  <2>2. ix.op \notin ExactIns /\ ix.args = args
    BY DEF AmmV2Instruction, Ix, ExactIns
  <2> HIDE DEF ix, create, args, Buys
  <2>3. Fresh(ix, TRUE)
    BY <1>4, <2>2, LimitFresh DEF args
  <2>4. LET buying == TRUE
        IN  Lands1("amm_v2", <<create, ix>>,
                   IF buying THEN QuoteAta(chain, User) ELSE BaseAta(User),
                   IF buying THEN Cost(chain) ELSE 1)
    BY <1>1, <2>3, AmmV2Lands DEF create, ix
  <2> QED BY <2>1, <2>4
<1>5. ASSUME NEW limit, Quoted(limit, FALSE)
      PROVE  Lands1("amm_v2", Sales(b, limit), BaseAta(User), 1)
  <2> DEFINE args == Amounts(1, limit)
             create == CreateAta(User, User, Quote(chain), SPL_TOKEN)
             ix == AmmV2Instruction("sell_amm_v2", chain.pool, k, b, args)
  <2>1. Sales(b, limit) = <<create, ix>>
    BY <1>1, <1>2 DEF SellAmmV2Instructions, k
  <2>2. ix.op \notin ExactIns /\ ix.args = args
    BY DEF AmmV2Instruction, Ix, ExactIns
  <2> HIDE DEF ix, create, args, Sales
  <2>3. Fresh(ix, FALSE)
    BY <1>5, <2>2, LimitFresh DEF args
  <2>4. LET buying == FALSE
        IN  Lands1("amm_v2", <<create, ix>>,
                   IF buying THEN QuoteAta(chain, User) ELSE BaseAta(User),
                   IF buying THEN Cost(chain) ELSE 1)
    BY <1>1, <2>3, AmmV2Lands DEF create, ix
  <2> QED BY <2>1, <2>4
<1>6. Lands1("amm_v2_singular", Exact(b), purse, Cost(chain))
  BY <1>1, SingularLands
<1> HIDE DEF Buys, Sales, Exact, purse
<1>7. CASE BuildBuy("amm_v2", LAMBDA limit : {Buys(b, limit)}, PoolPurse(chain), FALSE)
  <2>1. PICK s \in Slippages :
          Build("amm_v2", {Buys(b, MaxCost(s))}, purse, Cost(chain), MaxCost(s), TRUE)
    BY <1>1, <1>7 DEF BuildBuy
  <2>2. Quoted(MaxCost(s), TRUE)
    BY DEF Quoted
  <2> QED BY <1>4, <2>1, <2>2, BuildOneLands
<1>8. CASE BuildSell("amm_v2", LAMBDA limit : {Sales(b, limit)})
  <2>1. PICK s \in Slippages :
          Build("amm_v2", {Sales(b, MinProceeds(s))}, BaseAta(User), 1, MinProceeds(s), FALSE)
    BY <1>8 DEF BuildSell
  <2>2. Quoted(MinProceeds(s), FALSE)
    BY DEF Quoted
  <2> QED BY <1>5, <2>1, <2>2, BuildOneLands
<1>9. CASE BuildExactIn("amm_v2_singular", {Exact(b)}, PoolPurse(chain))
  <2>1. Build("amm_v2_singular", {Exact(b)}, purse, Cost(chain), 1, TRUE)
    BY <1>1, <1>9 DEF BuildExactIn
  <2> QED BY <1>6, <2>1, BuildOneLands
<1> QED BY <1>3, <1>7, <1>8, <1>9

LEMMA BuildMultiHopLands ==
  ASSUME Settled, BuildMultiHop
  PROVE  Landing'
<1> DEFINE purse == IF OnPool THEN PoolPurse(chain) ELSE CurvePurse(chain)
           Exact(b) == MultiHopSwapInstructions(User, Quote(chain), k.quote_program, k.base_program,
                                                <<TheHop>>, b, Cost(chain), 1)
           Sales(b, limit) == MultiHopSwapInstructions(User, Mint, k.base_program, k.quote_program,
                                                       <<TheHop>>, b, 1, limit)
<1>1. OnOpenCurve \/ OnPool
  BY DEF BuildMultiHop
<1>2. PICK b \in BuybackFeeRecipients(PumpGlobal) :
        \/ BuildExactIn("multi_hop", Exact(b), purse)
        \/ BuildSell("multi_hop", LAMBDA limit : Sales(b, limit))
  BY Zenon DEF BuildMultiHop, TheHop
<1>3. ASSUME NEW list \in Exact(b) PROVE Lands1("multi_hop", list, purse, Cost(chain))
  <2> DEFINE buying == TRUE
             lists == MultiHopLists(b, buying, Cost(chain), 1)
  <2>1. list \in lists
    BY <1>3 DEF MultiHopLists
  <2>2. purse = IF OnPool THEN QuoteAta(chain, User) ELSE CurvePurse(chain)
    BY DEF PoolPurse
  <2> HIDE DEF purse
  <2>3. Lands1("multi_hop", list,
               IF buying THEN IF OnPool THEN QuoteAta(chain, User) ELSE CurvePurse(chain)
               ELSE BaseAta(User),
               IF buying THEN Cost(chain) ELSE 1)
    <3>1. IF buying THEN Cost(chain) = Cost(chain) ELSE Quoted(1, FALSE)
      OBVIOUS
    <3> QED BY <1>1, <2>1, <3>1, MultiHopLands
  <2> QED BY <2>2, <2>3
<1>4. ASSUME NEW limit, Quoted(limit, FALSE), NEW list \in Sales(b, limit)
      PROVE  Lands1("multi_hop", list, BaseAta(User), 1)
  <2> DEFINE buying == FALSE
             lists == MultiHopLists(b, buying, 1, limit)
  <2>1. list \in lists
    BY <1>4 DEF MultiHopLists
  <2>2. Lands1("multi_hop", list,
               IF buying THEN IF OnPool THEN QuoteAta(chain, User) ELSE CurvePurse(chain)
               ELSE BaseAta(User),
               IF buying THEN Cost(chain) ELSE 1)
    <3>1. IF buying THEN 1 = Cost(chain) ELSE Quoted(limit, FALSE)
      BY <1>4
    <3> QED BY <1>1, <2>1, <3>1, MultiHopLands
  <2> QED BY <2>2
<1> HIDE DEF purse
<1>5. CASE BuildExactIn("multi_hop", Exact(b), purse)
  <2>1. Build("multi_hop", Exact(b), purse, Cost(chain), 1, TRUE)
    BY <1>5 DEF BuildExactIn
  <2> HIDE DEF Exact
  <2> QED BY <1>3, <2>1, BuildLands DEF Settled
<1>6. CASE BuildSell("multi_hop", LAMBDA limit : Sales(b, limit))
  <2>1. PICK s \in Slippages :
          Build("multi_hop", Sales(b, MinProceeds(s)), BaseAta(User), 1, MinProceeds(s), FALSE)
    BY <1>6 DEF BuildSell
  <2>2. Quoted(MinProceeds(s), FALSE)
    BY DEF Quoted
  <2> HIDE DEF Sales
  <2> QED BY <1>4, <2>1, <2>2, BuildLands DEF Settled
<1> QED BY <1>2, <1>5, <1>6

LEMMA BuildCreateCoinLands ==
  ASSUME Settled, BuildCreateCoin
  PROVE  Landing'
<1> DEFINE Lists(coin, limit, agent) == CreateCoinInstructions(PumpGlobal, k, coin, 1, limit, agent)
           purse(coin) == CurvePurse([chain EXCEPT !.curve = coin])
           kind(agent) == IF agent = {} THEN "create" ELSE "create_agent"
<1>1. ~chain.curve.exists
  BY DEF BuildCreateCoin
<1>2. PICK coin \in NewCoins, agent \in {{}, {100}} :
        BuildBuy(kind(agent), LAMBDA limit : Lists(coin, limit, agent), purse(coin), FALSE)
  BY Zenon DEF BuildCreateCoin
<1>3. PICK s \in Slippages :
        Build(kind(agent), Lists(coin, MaxCost(s), agent), purse(coin), Cost(chain),
              MaxCost(s), TRUE)
  BY <1>2 DEF BuildBuy
<1>4. Quoted(MaxCost(s), TRUE)
  BY DEF Quoted
<1>5. \A list \in Lists(coin, MaxCost(s), agent) :
        Lands1(kind(agent), list, purse(coin), Cost(chain))
  BY <1>1, <1>4, CreateLands
<1> HIDE DEF Lists, purse, kind
<1> QED BY <1>3, <1>5, BuildLands DEF Settled

LEMMA BuildLegacyLands ==
  ASSUME Settled, BuildLegacy
  PROVE  Landing'
<1> DEFINE creator == chain.curve.creator
           cashback == chain.curve.is_cashback_coin
           created == <<CreateInstruction(k, Creator)>>
           Buys(f, b, limit) == <<BuyInstruction(k, creator, f, b, 1, limit)>>
           Sales(f, b, limit) == <<SellInstruction(k, creator, f, b, 1, limit, cashback)>>
           trading == OnOpenCurve /\ Quote(chain) = NATIVE_MINT
<1>1. PICK f \in FeeRecipients(PumpGlobal, chain.curve.is_mayhem_mode),
           b \in BuybackFeeRecipients(PumpGlobal) :
        \/ ~chain.curve.exists /\ BuildOther("legacy_create", {created})
        \/ trading /\ BuildBuy("legacy", LAMBDA limit : {Buys(f, b, limit)}, User, FALSE)
        \/ trading /\ BuildSell("legacy", LAMBDA limit : {Sales(f, b, limit)})
  BY Zenon DEF BuildLegacy
<1>2. CASE ~chain.curve.exists /\ BuildOther("legacy_create", {created})
  <2>1. Build("legacy_create", {created}, User, 0, 0, FALSE)
    BY <1>2 DEF BuildOther
  <2>2. Lands1("legacy_create", created, User, 0)
    BY <1>2, LegacyCreateLands
  <2> HIDE DEF created
  <2> QED BY <2>1, <2>2, BuildOneLands
<1>3. CASE trading /\ BuildBuy("legacy", LAMBDA limit : {Buys(f, b, limit)}, User, FALSE)
  <2>1. PICK s \in Slippages :
          Build("legacy", {Buys(f, b, MaxCost(s))}, User, Cost(chain), MaxCost(s), TRUE)
    BY <1>3 DEF BuildBuy
  <2>2. Quoted(MaxCost(s), TRUE)
    BY DEF Quoted
  <2>3. Lands1("legacy", Buys(f, b, MaxCost(s)), User, Cost(chain))
    BY <1>3, <2>2, LegacyBuyLands
  <2> HIDE DEF Buys
  <2> QED BY <2>1, <2>3, BuildOneLands
<1>4. CASE trading /\ BuildSell("legacy", LAMBDA limit : {Sales(f, b, limit)})
  <2>1. PICK s \in Slippages :
          Build("legacy", {Sales(f, b, MinProceeds(s))}, BaseAta(User), 1, MinProceeds(s), FALSE)
    BY <1>4 DEF BuildSell
  <2>2. Quoted(MinProceeds(s), FALSE)
    BY DEF Quoted
  <2>3. Lands1("legacy", Sales(f, b, MinProceeds(s)), BaseAta(User), 1)
    BY <1>4, <2>2, LegacySellLands
  <2> HIDE DEF Sales
  <2> QED BY <2>1, <2>3, BuildOneLands
<1> QED BY <1>1, <1>2, <1>3, <1>4

LEMMA BuildCreatorFeesLands ==
  ASSUME Settled, BuildCreatorFees
  PROVE  Landing'
<1> DEFINE creates == [i \in DOMAIN chain.shareholders |->
                        CreateAta(User, chain.shareholders[i], Quote(chain), SPL_TOKEN)]
           V2(holders) == UpdateFeeSharesV2Instruction(User, Mint, chain.curve, SPL_TOKEN,
                                                       chain.shareholders, holders)
           V1(holders) == UpdateFeeSharesInstruction(User, Mint, chain.curve, chain.shareholders,
                                                     holders)
           updates(holders) == {V2(holders)}
                               \cup IF Quote(chain) # NATIVE_MINT THEN {} ELSE {V1(holders)}
           Lists(holders) == {Sweeps \o creates \o <<u>> : u \in updates(holders)}
<1>1. chain.curve.exists
  BY DEF BuildCreatorFees
<1>2. \/ BuildOther("sweep", {Sweeps})
      \/ BuildOther("collect", {Collects})
      \/ Shared /\ BuildOther("distribute", {Distribution})
      \/ Shared /\ \E holders \in Holders : BuildOther("update_shares", Lists(holders))
  BY Zenon DEF BuildCreatorFees
<1>3. CASE BuildOther("sweep", {Sweeps})
  <2>1. Lands1("sweep", Sweeps, User, 0)
    BY <1>1, SweepLands
  <2> QED BY <1>3, <2>1, BuildOneLands DEF BuildOther
<1>4. CASE BuildOther("collect", {Collects})
  <2>1. Lands1("collect", Collects, User, 0)
    BY <1>1, CollectLands
  <2> QED BY <1>4, <2>1, BuildOneLands DEF BuildOther
<1>5. CASE Shared /\ BuildOther("distribute", {Distribution})
  <2>1. Lands1("distribute", Distribution, User, 0)
    BY <1>1, <1>5, DistributeLands
  <2> QED BY <1>5, <2>1, BuildOneLands DEF BuildOther
<1>6. CASE Shared /\ \E holders \in Holders : BuildOther("update_shares", Lists(holders))
  <2>1. PICK holders \in Holders : BuildOther("update_shares", Lists(holders))
    BY <1>6
  <2>2. ASSUME NEW list \in Lists(holders) PROVE Lands1("update_shares", list, User, 0)
    <3>1. PICK u \in updates(holders) : list = Sweeps \o creates \o <<u>>
      BY <2>2
    <3>2. u = V2(holders) \/ (Quote(chain) = NATIVE_MINT /\ u = V1(holders))
      BY Zenon
    <3> HIDE DEF updates
    <3>3. Lands1("update_shares", Sweeps \o creates \o <<u>>, User, 0)
      BY <1>1, <1>6, <3>2, UpdateSharesLands
    <3> QED BY <3>1, <3>3
  <2> HIDE DEF Lists
  <2> QED BY <2>1, <2>2, BuildLands DEF BuildOther, Settled
<1> QED BY <1>2, <1>3, <1>4, <1>5, <1>6

LEMMA BuildUpkeepLands ==
  ASSUME Settled, BuildUpkeep
  PROVE  Landing'
<1> DEFINE extend == <<ExtendAccountIx(Mint, User)>>
           claim == <<ClaimCashbackV2Instruction(User, chain.curve.quote_mint, SPL_TOKEN)>>
           migrate == <<MigrateV2Instruction(k, Quote(chain))>>
<1>1. \/ BuildOther("extend", {extend})
      \/ BuildOther("claim", {claim})
      \/ chain.curve.complete /\ ~OnPool /\ BuildOther("migrate", {migrate})
  BY DEF BuildUpkeep
<1>2. Lands1("extend", extend, User, 0) /\ Lands1("claim", claim, User, 0)
  BY ExtendLands, ClaimLands
<1>3. chain.curve.complete /\ ~OnPool => Lands1("migrate", migrate, User, 0)
  BY MigrateLands
<1> HIDE DEF extend, claim, migrate
<1>4. CASE BuildOther("extend", {extend})
  BY <1>2, <1>4, BuildOneLands DEF BuildOther
<1>5. CASE BuildOther("claim", {claim})
  BY <1>2, <1>5, BuildOneLands DEF BuildOther
<1>6. CASE chain.curve.complete /\ ~OnPool /\ BuildOther("migrate", {migrate})
  BY <1>3, <1>6, BuildOneLands DEF BuildOther
<1> QED BY <1>1, <1>4, <1>5, <1>6

(* ---- the start, a landing and the others ---- *)
LEMMA InitLands ==
  Init => Landing
<1> SUFFICES ASSUME Init PROVE Landing
  OBVIOUS
<1>1. job = Idle
  BY DEF Init
<1>2. PICK accounts, l :
        /\ ListedFeeAtas \subseteq accounts
        /\ DOMAIN l = accounts /\ chain.ledger = l
  <2>1. PICK curve \in Coins, held \in Holdings, holders \in Holders,
             buyback \in {{}, ListedBuybackAtas} :
          LET w == [curve |-> curve]
              venues == IF ~curve.exists THEN {}
                        ELSE {BondingCurvePda(Mint)}
                             \cup IF curve.complete THEN {PoolKey(w)} ELSE {}
              accounts == {User} \cup DOMAIN held \cup buyback \cup ListedFeeAtas
                          \cup {BaseAta(v) : v \in venues}
                          \cup {QuoteAta(w, v) : v \in venues}
          IN  chain = [curve |-> curve, pool |-> IF curve.complete THEN PoolOf(w) ELSE NoPool,
                       price |-> StartPrice,
                       shareholders |-> IF curve.creator = SharingConfig(Mint) THEN holders
                                        ELSE <<>>,
                       err |-> "none",
                       ledger |-> [a \in accounts |->
                         IF a = User THEN Funds ELSE IF a \in DOMAIN held THEN held[a] ELSE 0]]
    BY Zenon DEF Init
  <2> DEFINE w == [curve |-> curve]
             venues == IF ~curve.exists THEN {}
                       ELSE {BondingCurvePda(Mint)} \cup IF curve.complete THEN {PoolKey(w)} ELSE {}
             accounts == {User} \cup DOMAIN held \cup buyback \cup ListedFeeAtas
                         \cup {BaseAta(v) : v \in venues}
                         \cup {QuoteAta(w, v) : v \in venues}
             l == [a \in accounts |->
                     IF a = User THEN Funds ELSE IF a \in DOMAIN held THEN held[a] ELSE 0]
             p == IF curve.complete THEN PoolOf(w) ELSE NoPool
             list == IF curve.creator = SharingConfig(Mint) THEN holders ELSE <<>>
  <2>2. chain = [curve |-> curve, pool |-> p, price |-> StartPrice, shareholders |-> list,
                 err |-> "none", ledger |-> l]
    BY <2>1, Zenon
  <2>3. ListedFeeAtas \subseteq accounts
    OBVIOUS
  <2> HIDE DEF accounts, p, list
  <2>4. DOMAIN l = accounts
    OBVIOUS
  <2> HIDE DEF l
  <2>5. chain.ledger = l
    BY <2>2
  <2> QED BY <2>3, <2>4, <2>5
<1>3. FeesOpen
  BY <1>2 DEF FeesOpen
<1>4. "fresh" \in DOMAIN job /\ ~job.fresh
  BY <1>1 DEF Idle
<1> QED BY <1>3, <1>4 DEF Landing, FreshListLands

(* A transaction closes no account but the user's own wSOL account. *)
LEMMA FeesNotClosable ==
  ListedFeeAtas \cap Closable = {}
<1>1. SUFFICES ASSUME NEW r \in ListedFeeRecipients, NEW q \in Quotes
               PROVE  AssociatedToken(r, SPL_TOKEN, q) \notin Closable
  BY DEF ListedFeeAtas, QuoteAtas
<1>2. r # User
  BY WalletAssumption
<1>3. Wsol = AssociatedToken(User, SPL_TOKEN, NATIVE_MINT)
  BY DEF Wsol, UserWsolAta
<1>4. AssociatedToken(r, SPL_TOKEN, q) # Wsol
  BY <1>2, <1>3 DEF AssociatedToken
<1>5. AssociatedToken(r, SPL_TOKEN, q) # Unsynced(Wsol)
  BY DEF AssociatedToken, Unsynced
<1> QED BY <1>4, <1>5 DEF Closable

LEMMA LandLands ==
  ASSUME Inv, FeesOpen, Land
  PROVE  Landing'
<1>1. Frame(chain, Outcome)
  BY Lands DEF Land
<1>2. chain' = Outcome /\ job' = Idle
  BY DEF Land
<1>3. ListedFeeAtas \subseteq DOMAIN Outcome.ledger
  BY <1>1, FeesNotClosable DEF Frame, FeesOpen
<1>4. "fresh" \in DOMAIN job' /\ ~job'.fresh
  BY <1>2 DEF Idle
<1> QED BY <1>2, <1>3, <1>4 DEF Landing, FeesOpen, FreshListLands

LEMMA DroppedLands ==
  ASSUME FeesOpen, Dropped
  PROVE  Landing'
<1>1. chain' = chain /\ job' = Idle
  BY DEF Dropped
<1>2. "fresh" \in DOMAIN job' /\ ~job'.fresh
  BY <1>1 DEF Idle
<1> QED BY <1>1, <1>2 DEF Landing, FeesOpen, FreshListLands

(* Whatever others do, the list in flight is no longer fresh. *)
LEMMA OthersLand ==
  ASSUME Landing, NEW w, DOMAIN chain.ledger \subseteq DOMAIN w.ledger, Others(w)
  PROVE  Landing'
<1>1. chain' = w /\ job' = [job EXCEPT !.fresh = FALSE]
  BY DEF Others
<1>2. "fresh" \in DOMAIN job' /\ ~job'.fresh
  BY <1>1 DEF Landing
<1> QED BY <1>1, <1>2 DEF Landing, FeesOpen, FreshListLands

LEMMA OthersTradeLands ==
  ASSUME Inv, Landing, OthersTrade
  PROVE  Landing'
<1>1. PICK p \in Prices, fee \in 0..1 :
        LET w == [chain EXCEPT !.price = p]
        IN  \/ Others([w EXCEPT !.curve.creator_fee = @ + fee])
            \/ Others([w EXCEPT !.pool.creator_fees = @ + fee])
  BY Zenon DEF OthersTrade
<1> DEFINE w == [chain EXCEPT !.price = p]
           onCurve == [w EXCEPT !.curve.creator_fee = @ + fee]
           inPool == [w EXCEPT !.pool.creator_fees = @ + fee]
<1>2. Others(onCurve) \/ Others(inPool)
  BY <1>1
<1>3. onCurve.ledger = chain.ledger /\ inPool.ledger = chain.ledger
  BY DEF Inv, Sound, World, Fields
<1> HIDE DEF onCurve, inPool
<1> QED BY <1>2, <1>3, OthersLand

LEMMA OthersCompleteLands ==
  ASSUME Inv, Landing, OthersComplete
  PROVE  Landing'
<1> DEFINE w == [chain EXCEPT !.curve.complete = TRUE]
<1>1. Others(w)
  BY DEF OthersComplete
<1>2. w.ledger = chain.ledger
  BY DEF Inv, Sound, World, Fields
<1> HIDE DEF w
<1> QED BY <1>1, <1>2, OthersLand

LEMMA OthersMigrateLands ==
  ASSUME Inv, Landing, OthersMigrate
  PROVE  Landing'
<1> DEFINE ix == MigrateV2Instruction(k, Quote(chain))
           list == <<ix>>
           m == [chain EXCEPT !.pool = PoolOf(chain)]
           opened == {ix.a.pool_base_token_account, ix.a.pool_quote_token_account}
<1>1. /\ chain.curve.complete /\ ~chain.pool.exists /\ Others(Run(chain, list))
      /\ Sound(chain) /\ chain.err = "none" /\ DOMAIN chain = Fields
  BY DEF OthersMigrate, OnPool, Inv, Sound, World
<1>2. Run(chain, list) = Exec(chain, ix)
  <2> HIDE DEF ix
  <2> QED BY <1>1, RunOne DEF Step
<1>3. ix.op = "migrate_v2" /\ ix.a.pool = PoolKey(chain) /\ Len(ix.rest) = 2
  <2>1. k.base_mint = Mint
    BY DEF k
  <2>2. PoolKey(chain) = PoolPda(0, PoolAuthority(Mint), Mint, Quote(chain))
    BY DEF PoolKey, CanonicalPool
  <2>3. ix.op = "migrate_v2" /\ ix.a.pool = PoolKey(chain)
    BY <2>1, <2>2 DEF MigrateV2Instruction, Ix
  <2>4. PICK x, y : ix.rest = <<x, y>>
    BY Zenon DEF MigrateV2Instruction, Ix
  <2>5. Len(<<x, y>>) = 2
    OBVIOUS
  <2> QED BY <2>3, <2>4, <2>5
<1> HIDE DEF ix
<1>4. Exec(chain, ix) = Open(m, opened)
  <2>1. Exec(chain, ix) = ExecMigrateV2(chain, ix)
    BY <1>3, Dispatch
  <2>2. ExecMigrateV2(chain, ix) = Open(m, opened)
    BY <1>1, <1>3 DEF ExecMigrateV2, Refuse
  <2> QED BY <2>1, <2>2
<1>5. m.ledger = chain.ledger /\ DOMAIN m = Fields
  BY <1>1 DEF Fields
<1>6. DOMAIN chain.ledger \subseteq DOMAIN Open(m, opened).ledger
  <2> HIDE DEF m, opened
  <2> QED BY <1>5 DEF Open, Fields
<1> HIDE DEF m, opened, list
<1> QED BY <1>1, <1>2, <1>4, <1>6, OthersLand

LEMMA SetUpSharingLands ==
  ASSUME Inv, Landing, SetUpSharing
  PROVE  Landing'
<1>1. PICK holders \in Holders :
        Others([chain EXCEPT !.curve.creator = SharingConfig(Mint),
                  !.pool.coin_creator = IF OnPool THEN SharingConfig(Mint) ELSE @,
                  !.shareholders = holders])
  BY Zenon DEF SetUpSharing
<1> DEFINE w == [chain EXCEPT !.curve.creator = SharingConfig(Mint),
                   !.pool.coin_creator = IF OnPool THEN SharingConfig(Mint) ELSE @,
                   !.shareholders = holders]
<1>2. w.ledger = chain.ledger
  BY DEF Inv, Sound, World, Fields
<1>3. Others(w)
  BY <1>1
<1> HIDE DEF w
<1> QED BY <1>2, <1>3, OthersLand

LandingInv == Inv /\ Landing

LEMMA NextLands ==
  LandingInv /\ [Next]_vars => LandingInv'
<1> SUFFICES ASSUME LandingInv, [Next]_vars PROVE LandingInv'
  OBVIOUS
<1>1. Inv /\ Landing /\ Settled /\ FeesOpen
  BY DEF LandingInv, Landing, Settled, Inv
<1>2. Inv'
  BY <1>1, NextInv
<1>3. CASE UNCHANGED vars
  <2>1. chain' = chain /\ job' = job
    BY <1>3 DEF vars
  <2>2. Outcome' = Outcome
    BY <2>1 DEF Outcome
  <2>3. KnownRefusal' <=> KnownRefusal
    BY <2>1 DEF KnownRefusal, OnPool, Shifted, BuybackMissing
  <2>4. Landing'
    BY <1>1, <2>1, <2>2, <2>3 DEF Landing, FeesOpen, FreshListLands
  <2> QED BY <1>2, <2>4 DEF LandingInv
<1>4. ASSUME Next PROVE Landing'
  <2>1. CASE \/ BuildTradeTx \/ BuildCurveV2ExactIn \/ BuildV3 \/ BuildAmm \/ BuildAmmV2
             \/ BuildMultiHop
    BY <1>1, <2>1, BuildTradeTxLands, BuildCurveV2ExactInLands, BuildV3Lands, BuildAmmLands,
       BuildAmmV2Lands, BuildMultiHopLands
  <2>2. CASE \/ BuildCreateCoin \/ BuildLegacy \/ BuildCreatorFees \/ BuildUpkeep
    BY <1>1, <2>2, BuildCreateCoinLands, BuildLegacyLands, BuildCreatorFeesLands,
       BuildUpkeepLands
  <2>3. CASE Land \/ Dropped
    BY <1>1, <2>3, LandLands, DroppedLands
  <2>4. CASE OthersTrade \/ OthersComplete \/ OthersMigrate \/ SetUpSharing
    BY <1>1, <2>4, OthersTradeLands, OthersCompleteLands, OthersMigrateLands, SetUpSharingLands
  <2> QED BY <1>4, <2>1, <2>2, <2>3, <2>4, Zenon DEF Next
<1> QED BY <1>2, <1>3, <1>4, Zenon DEF LandingInv

(* A list sent while nothing has moved since its state was fetched lands if  *)
(* and only if no refusal the documentation names applies: for every coin,   *)
(* quote, venue, holding and price, the builders' preludes open what their   *)
(* instructions need, and nothing less than the named refusals stops them.   *)
THEOREM FreshListLandsHolds ==
  Spec => []FreshListLands
<1>1. Init => LandingInv
  BY InitInv, InitLands DEF LandingInv
<1>2. LandingInv => FreshListLands
  BY DEF LandingInv, Landing
<1> QED BY <1>1, <1>2, NextLands, PTL DEF Spec
=============================================================================
