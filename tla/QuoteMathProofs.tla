-------------------------- MODULE QuoteMathProofs --------------------------
(***************************************************************************)
(* Facts about the quote arithmetic and the fee schedule, for every value  *)
(* of their arguments: what the rounding directions of src/math guarantee. *)
(***************************************************************************)
EXTENDS FeeSchedule, WellFoundedInduction, TLAPS

(* Integer division rounds down by less than one divisor. *)
LEMMA DivBounds ==
  ASSUME NEW a \in Nat, NEW b \in Nat, b > 0
  PROVE  /\ a \div b \in Nat
         /\ b * (a \div b) <= a
         /\ a < b * (a \div b) + b
OBVIOUS

(* Multiplication by a natural preserves order ... *)
LEMMA MulMono ==
  ASSUME NEW a \in Nat, NEW b \in Nat, NEW c \in Nat, a <= b
  PROVE  a * c <= b * c
OBVIOUS

(* ... and a positive factor can be cancelled. *)
LEMMA MulCancel ==
  ASSUME NEW a \in Nat, NEW b \in Nat, NEW c \in Nat, c > 0, a * c <= b * c
  PROVE  a <= b
OBVIOUS

(* A sale whose proceeds g are rounded down keeps the product of the        *)
(* reserves (sell_sol_amount_from_token_amount).                            *)
LEMMA SellKeepsProduct ==
  ASSUME NEW q \in Nat, NEW t \in Nat, NEW a \in Nat, NEW g \in Nat,
         g * (t + a) <= a * q, t + a > 0
  PROVE  /\ g <= q
         /\ q * t <= (q - g) * (t + a)
OBVIOUS

(* A purchase whose cost is rounded up keeps the product (buy_quote).       *)
LEMMA BuyKeepsProduct ==
  ASSUME NEW q \in Nat, NEW t \in Nat, NEW a \in Nat, NEW cost \in Nat,
         a <= t, a * q <= cost * (t - a)
  PROVE  q * t <= (q + cost) * (t - a)
OBVIOUS

(* An exact-in purchase that swaps n and takes n + 1 keeps the product      *)
(* (buy_tokens_exact_in).                                                   *)
LEMMA ExactInKeepsProduct ==
  ASSUME NEW q \in Nat, NEW t \in Nat, NEW n \in Nat, NEW out \in Nat,
         out <= t, out * (q + n) <= n * t
  PROVE  q * t <= (q + (n + 1)) * (t - out)
<1>1. (q + n) * (t - out) = q * t + (n * t - out * (q + n))
  OBVIOUS
<1>2. (q + (n + 1)) * (t - out) = (q + n) * (t - out) + (t - out)
  OBVIOUS
<1> QED BY <1>1, <1>2

(* A swap into a reserve with a non-empty other side never empties it       *)
(* (swap_exact_input).                                                      *)
LEMMA SwapLeavesReserve ==
  ASSUME NEW n \in Nat, NEW q \in Nat, NEW b \in Nat, q > 0, b > 0
  PROVE  /\ (n * b) \div (q + n) \in Nat
         /\ (n * b) \div (q + n) < b
<1> DEFINE out == (n * b) \div (q + n)
<1>1. n * b \in Nat /\ q + n \in Nat /\ q + n > 0
  OBVIOUS
<1>2. out \in Nat /\ (q + n) * out <= n * b
  BY <1>1, DivBounds
<1>3. n * b < (q + n) * b
  OBVIOUS
<1>4. ~ (b <= out)
  <2> SUFFICES ASSUME b <= out PROVE FALSE
    OBVIOUS
  <2>1. b * (q + n) <= out * (q + n)
    BY <1>1, <1>2, MulMono
  <2> HIDE DEF out
  <2> QED BY <1>1, <1>2, <1>3, <2>1
<1> QED BY <1>2, <1>4

(* A fee is a natural number, whatever the rate. *)
LEMMA FeeAmountNat ==
  ASSUME NEW amount \in Nat, NEW bps \in Nat
  PROVE  FeeAmount(amount, bps) \in Nat
<1>1. amount * bps + BPS - 1 \in Nat
  BY DEF BPS
<1> QED BY <1>1, DivBounds DEF FeeAmount, CeilDiv, BPS

(* A quotient that is rounded up covers its dividend, and is the least       *)
(* natural number that does (ceil_div).                                      *)
LEMMA CeilDivLeast ==
  ASSUME NEW a \in Nat, NEW b \in Nat, b > 0
  PROVE  /\ CeilDiv(a, b) \in Nat
         /\ a <= b * CeilDiv(a, b)
         /\ \A n \in Nat : a <= n * b => CeilDiv(a, b) <= n
<1> DEFINE d == (a + b - 1) \div b
<1>1. a + b - 1 \in Nat
  OBVIOUS
<1>2. d \in Nat /\ b * d <= a + b - 1 /\ a + b - 1 < b * d + b
  <2> DEFINE x == a + b - 1
  <2>1. x \in Nat
    BY <1>1
  <2> HIDE DEF x
  <2>2. x \div b \in Nat /\ b * (x \div b) <= x /\ x < b * (x \div b) + b
    BY <2>1, DivBounds
  <2> QED BY <2>2 DEF x
<1> HIDE DEF d
<1>3. a <= b * d
  BY <1>2
<1>4. ASSUME NEW n \in Nat, a <= n * b PROVE d <= n
  <2> SUFFICES ASSUME n + 1 <= d PROVE FALSE
    BY <1>2
  <2>1. (n + 1) * b <= d * b
    BY <1>2, MulMono
  <2> QED BY <1>2, <1>4, <2>1
<1> QED BY <1>2, <1>3, <1>4 DEF CeilDiv, d

(* Rounding down stays below every natural number that covers the dividend.  *)
LEMMA DivLeast ==
  ASSUME NEW a \in Nat, NEW b \in Nat, b > 0, NEW n \in Nat, a <= n * b
  PROVE  a \div b <= n
<1> DEFINE d == a \div b
<1>1. d \in Nat /\ b * d <= a
  BY DivBounds
<1> HIDE DEF d
<1>2. d * b <= n * b
  BY <1>1
<1>3. d <= n
  BY <1>1, <1>2, MulCancel
<1> QED BY <1>3 DEF d

(* A larger amount never pays a smaller fee at the same rate.                *)
LEMMA FeeAmountMono ==
  ASSUME NEW small \in Nat, NEW large \in Nat, small <= large, NEW bps \in Nat
  PROVE  FeeAmount(small, bps) <= FeeAmount(large, bps)
<1> DEFINE a == small * bps
           b == large * bps
<1>1. a \in Nat /\ b \in Nat /\ a <= b /\ BPS \in Nat /\ BPS > 0
  BY MulMono DEF BPS
<1> HIDE DEF a, b
<1>2. CeilDiv(b, BPS) \in Nat /\ b <= BPS * CeilDiv(b, BPS)
  BY <1>1, CeilDivLeast
<1>3. a <= CeilDiv(b, BPS) * BPS
  BY <1>1, <1>2 DEF BPS
<1>4. CeilDiv(a, BPS) <= CeilDiv(b, BPS)
  BY <1>1, <1>2, <1>3, CeilDivLeast
<1> QED BY <1>4 DEF FeeAmount, a, b

(* The truncating cast never grows a value, and leaves a u64 as it is.       *)
LEMMA AsU64Shrinks ==
  ASSUME NEW x \in Nat
  PROVE  /\ AsU64(x) \in Nat /\ AsU64(x) <= x
         /\ AsU64(x) \in U64
         /\ x <= U64_MAX => AsU64(x) = x
<1> DEFINE m == U64_MAX + 1
<1>1. m \in Nat /\ m > 0 /\ U64_MAX \in Nat
  BY U64Assumption
<1>2. x = m * (x \div m) + (x % m) /\ x % m \in 0 .. m - 1 /\ x \div m \in Nat
  <2> HIDE DEF m
  <2>1. x % m \in 0 .. m - 1
    BY <1>1
  <2>2. x = m * (x \div m) + (x % m)
    BY <1>1
  <2> QED BY <1>1, <2>1, <2>2, DivBounds
<1>3. x <= U64_MAX => x \div m = 0
  <2> HIDE DEF m
  <2> DEFINE d == x \div m
  <2>1. d \in Nat /\ m * d <= x
    BY <1>1, DivBounds
  <2> HIDE DEF d
  <2>2. d >= 1 => m <= m * d
    BY <1>1, <2>1
  <2>3. x <= U64_MAX => d = 0
    <3>1. m = U64_MAX + 1
      BY DEF m
    <3> QED BY <1>1, <2>1, <2>2, <3>1
  <2> QED BY <2>3 DEF d
<1>4. m * (x \div m) \in Nat /\ (x \div m = 0 => m * (x \div m) = 0)
  <2> HIDE DEF m
  <2> DEFINE d == x \div m
  <2>1. d \in Nat
    BY <1>2
  <2> HIDE DEF d
  <2>2. m * d \in Nat /\ (d = 0 => m * d = 0)
    BY <1>1, <2>1
  <2> QED BY <2>2 DEF d
<1>5. AsU64(x) = x % m
  BY DEF AsU64
<1> DEFINE p == m * (x \div m)
           r == x % m
<1>6. p \in Nat /\ r \in 0 .. U64_MAX /\ x = p + r /\ (x <= U64_MAX => p = 0)
  BY <1>1, <1>2, <1>3, <1>4
<1> HIDE DEF p, r
<1>7. AsU64(x) = r
  BY <1>5 DEF r
<1> QED BY <1>1, <1>6, <1>7 DEF U64

(* add_slippage and sub_slippage yield naturals; the lower limit is never    *)
(* above the quoted amount, the upper one never above the slipped amount.    *)
LEMMA SlippageBounds ==
  ASSUME NEW value \in Nat, NEW bps \in Nat
  PROVE  /\ (value * (BPS + bps)) \div BPS \in Nat
         /\ AddSlippage(value, bps) \in Nat
         /\ AddSlippage(value, bps) <= (value * (BPS + bps)) \div BPS
         /\ (value * (BPS + bps)) \div BPS <= U64_MAX =>
              value <= AddSlippage(value, bps)
         /\ SubSlippage(value, bps) \in Nat /\ SubSlippage(value, bps) <= value
<1> DEFINE up == value * (BPS + bps)
           k  == BPS - Least(bps, BPS)
           dn == value * k
<1>1. BPS \in Nat /\ BPS > 0
  BY DEF BPS
<1>2. up \in Nat /\ value * BPS <= up
  <2> HIDE DEF up
  <2>1. value * (BPS + bps) = value * BPS + value * bps /\ value * bps \in Nat /\ value * BPS \in Nat
    BY <1>1
  <2> QED BY <2>1 DEF up
<1>3. k \in Nat /\ k <= BPS
  BY <1>1 DEF Least
<1> HIDE DEF up, k
<1>4. dn \in Nat /\ dn <= value * BPS
  <2>1. k * value <= BPS * value
    BY <1>1, <1>3, MulMono
  <2> QED BY <1>1, <1>3, <2>1
<1> HIDE DEF dn
<1>5. up \div BPS \in Nat /\ up < BPS * (up \div BPS) + BPS
  BY <1>1, <1>2, DivBounds
<1> DEFINE u == up \div BPS
<1>6. value <= u
  <2> HIDE DEF u
  <2>1. u \in Nat /\ value * BPS < BPS * u + BPS
    BY <1>1, <1>2, <1>5 DEF u
  <2> SUFFICES ASSUME u + 1 <= value PROVE FALSE
    BY <2>1
  <2>2. (u + 1) * BPS <= value * BPS
    BY <1>1, <2>1, MulMono
  <2> QED BY <1>1, <2>1, <2>2 DEF BPS
<1>7. dn \div BPS \in Nat /\ dn \div BPS <= value
  BY <1>1, <1>4, DivBounds, DivLeast
<1>8. u \in Nat
  BY <1>5
<1>9. AddSlippage(value, bps) = AsU64(u) /\ SubSlippage(value, bps) = dn \div BPS
  BY DEF AddSlippage, SubSlippage, up, dn, k
<1> HIDE DEF u
<1>10. /\ u \in Nat /\ AddSlippage(value, bps) \in Nat
       /\ AddSlippage(value, bps) <= u
       /\ u <= U64_MAX => value <= AddSlippage(value, bps)
  BY <1>6, <1>8, <1>9, AsU64Shrinks
<1> QED BY <1>7, <1>9, <1>10 DEF u, up

(* exact_in_fee_amounts: a successful split leaves at least one unit to      *)
(* swap, and the net and the three fees together stay within the budget.     *)
LEMMA ExactInSplit ==
  ASSUME NEW amount_in \in Nat, NEW bps \in Nat \X Nat \X Nat,
         ExactInFeeAmounts(amount_in, bps).err = OK
  PROVE  LET s == ExactInFeeAmounts(amount_in, bps)
         IN  /\ s.net \in Nat /\ s.net > 0
             /\ s.fees \in Nat \X Nat \X Nat
             /\ s.net + (s.fees[1] + s.fees[2] + s.fees[3]) <= amount_in
<1> DEFINE net0 == UnshavedNet(amount_in, bps)
           fees == ThreeFees(net0, bps)
           cost == net0 + (fees[1] + fees[2] + fees[3])
           net  == IF cost > amount_in THEN net0 - (cost - amount_in) ELSE net0
<1>1. net0 \in Nat
  <2>1. amount_in * BPS \in Nat /\ BPS + (bps[1] + bps[2] + bps[3]) \in Nat
        /\ BPS + (bps[1] + bps[2] + bps[3]) > 0
    BY DEF BPS
  <2> QED BY <2>1, DivBounds DEF UnshavedNet
<1>2. fees \in Nat \X Nat \X Nat
  <2> HIDE DEF net0
  <2> QED BY <1>1, FeeAmountNat DEF ThreeFees
<1>3. ~ (net0 = 0 \/ net <= 0)
  BY DEF ExactInFeeAmounts, ShaveNet, OK
<1>4. ExactInFeeAmounts(amount_in, bps) = [err |-> OK, net |-> net, fees |-> fees]
  BY <1>3 DEF ExactInFeeAmounts, ShaveNet
<1> HIDE DEF net0, fees
<1>5. net \in Nat /\ net > 0 /\ net + (fees[1] + fees[2] + fees[3]) <= amount_in
  BY <1>1, <1>2, <1>3
<1> HIDE DEF cost, net
<1> QED BY <1>2, <1>4, <1>5

(* ... and the fees of the split are charged on a net that is no smaller     *)
(* than the one swapped.                                                     *)
LEMMA SplitFees ==
  ASSUME NEW amount_in \in Nat, NEW bps \in Nat \X Nat \X Nat,
         ExactInFeeAmounts(amount_in, bps).err = OK
  PROVE  \E net0 \in Nat : /\ ExactInFeeAmounts(amount_in, bps).net <= net0
                           /\ ExactInFeeAmounts(amount_in, bps).fees = ThreeFees(net0, bps)
<1> DEFINE net0 == UnshavedNet(amount_in, bps)
           fees == ThreeFees(net0, bps)
           cost == net0 + (fees[1] + fees[2] + fees[3])
           net  == IF cost > amount_in THEN net0 - (cost - amount_in) ELSE net0
<1>1. net0 \in Nat
  <2>1. amount_in * BPS \in Nat /\ BPS + (bps[1] + bps[2] + bps[3]) \in Nat
        /\ BPS + (bps[1] + bps[2] + bps[3]) > 0
    BY DEF BPS
  <2> QED BY <2>1, DivBounds DEF UnshavedNet
<1>2. fees \in Nat \X Nat \X Nat
  <2> HIDE DEF net0
  <2> QED BY <1>1, FeeAmountNat DEF ThreeFees
<1>3. ~ (net0 = 0 \/ net <= 0)
  BY DEF ExactInFeeAmounts, ShaveNet, OK
<1>4. ExactInFeeAmounts(amount_in, bps) = [err |-> OK, net |-> net, fees |-> fees]
  BY <1>3 DEF ExactInFeeAmounts, ShaveNet
<1> HIDE DEF net0
<1>5. net <= net0
  <2> HIDE DEF fees
  <2> QED BY <1>1, <1>2
<1>6. /\ ExactInFeeAmounts(amount_in, bps).net <= net0
      /\ ExactInFeeAmounts(amount_in, bps).fees = ThreeFees(net0, bps)
  BY <1>4, <1>5
<1> QED BY <1>1, <1>6

(* A non-empty set of positions has a last one. *)
LEMMA HasLast ==
  ASSUME NEW n \in Nat, NEW S \in SUBSET (1 .. n), S # {}
  PROVE  \E i \in S : \A j \in S : j <= i
<1> DEFINE R == {ss \in Nat \X Nat : ss[1] < ss[2]}
           T == {n - i : i \in S}
<1>1. T \subseteq Nat /\ T # {}
  <2>1. \A i \in S : i \in Int /\ n - i \in Nat
    OBVIOUS
  <2>2. PICK i \in S : TRUE
    OBVIOUS
  <2>3. n - i \in T
    BY <2>2
  <2> QED BY <2>1, <2>3
<1>2. IsWellFoundedOn(R, Nat)
  BY NatLessThanWellFounded, Zenon DEF OpToRel
<1>3. PICK x \in T : \A y \in T : ~ (<<y, x>> \in R)
  <2> HIDE DEF R, T
  <2> QED BY <1>1, <1>2, WFMin
<1>4. \A y \in T : x <= y
  <2> TAKE y \in T
  <2> HIDE DEF T
  <2>1. x \in Nat /\ y \in Nat /\ ~ (<<y, x>> \in R)
    BY <1>1, <1>3
  <2> QED BY <2>1
<1>5. PICK i \in S : x = n - i
  BY <1>3
<1>6. \A j \in S : j <= i
  <2> TAKE j \in S
  <2>1. n - j \in T
    OBVIOUS
  <2> QED BY <1>4, <1>5, <2>1
<1> QED BY <1>6

(* calculate_fee_tier picks fees of its table. *)
LEMMA FeeTierType ==
  ASSUME NEW tiers \in Seq(FeeTier), NEW cap \in Nat
  PROVE  CalculateFeeTier(tiers, cap).fees \in Fees
<1> DEFINE reached == {i \in DOMAIN tiers : tiers[i].threshold <= cap}
<1>0. NoFees \in Fees
  BY DEF NoFees, Fees
<1>1. CASE tiers = <<>>
  BY <1>0, <1>1 DEF CalculateFeeTier, FeeError
<1>2. CASE tiers # <<>>
  <2>1. 1 \in DOMAIN tiers /\ DOMAIN tiers = 1 .. Len(tiers) /\ Len(tiers) \in Nat
    BY <1>2
  <2>2. \A i \in DOMAIN tiers : tiers[i].fees \in Fees /\ tiers[i].threshold \in Nat
    <3>1. \A i \in DOMAIN tiers : tiers[i] \in FeeTier
      BY <2>1
    <3> QED BY <3>1 DEF FeeTier
  <2>3. CASE cap < tiers[1].threshold
    BY <1>2, <2>1, <2>2, <2>3 DEF CalculateFeeTier, FeeResult
  <2>4. CASE ~ (cap < tiers[1].threshold)
    <3>1. 1 \in reached
      BY <2>1, <2>2, <2>4
    <3>2. \E i \in reached : \A j \in reached : j <= i
      <4>1. reached \in SUBSET (1 .. Len(tiers)) /\ reached # {}
        BY <2>1, <3>1
      <4> HIDE DEF reached
      <4> QED BY <2>1, <4>1, HasLast
    <3>3. (CHOOSE i \in reached : \A j \in reached : j <= i) \in DOMAIN tiers
      BY <3>2
    <3> QED BY <1>2, <2>2, <2>4, <3>3 DEF CalculateFeeTier, FeeResult
  <2> QED BY <2>3, <2>4
<1> QED BY <1>1, <1>2

(* compute_bonding_curve_fee_bps returns rates that are natural numbers.     *)
LEMMA ComputeFeeBpsType ==
  ASSUME NEW cfg \in FeeConfigs, NEW gate, NEW isPump, NEW mint,
         NEW stored \in Nat, NEW cap \in Nat
  PROVE  ComputeFeeBps(gate, cfg, isPump, mint, stored, cap).fees \in Fees
<1> DEFINE r == FeesForQuoteMint(cfg, isPump, cap, mint)
<1>1. r.fees \in Fees
  BY FeeTierType DEF FeesForQuoteMint, FeeConfigs, FeeResult
<1>2. ComputeFeeBps(gate, cfg, isPump, mint, stored, cap).fees
        = [r.fees EXCEPT !.creator_fee_bps = ConfiguredCreatorFeeBps(gate, stored, @)]
  BY DEF ComputeFeeBps
<1> HIDE DEF r
<1>3. ConfiguredCreatorFeeBps(gate, stored, r.fees.creator_fee_bps) \in Nat
  BY <1>1 DEF ConfiguredCreatorFeeBps, Fees
<1> QED BY <1>1, <1>2, <1>3 DEF Fees
=============================================================================
