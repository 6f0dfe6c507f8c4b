----------------------------- MODULE QuoteMath -----------------------------
(***************************************************************************)
(* The integer arithmetic every quote is built from: src/math/utils.rs and *)
(* the fee arithmetic of src/math/fees.rs.                                 *)
(*                                                                         *)
(* A QuoteResult is a record whose field err is OK or the name of a        *)
(* QuoteError.  Amounts are u64 in the code and intermediate products      *)
(* u128.  A product of two u64 values always fits a u128, so only the      *)
(* conversions back to u64 are modelled: AsU64 is the truncating cast      *)
(* `as u64` and U64 the range that `u64::try_from` accepts.                *)
(***************************************************************************)
EXTENDS Integers

CONSTANT U64_MAX      \* the largest u64; small in the models

ASSUME U64Assumption == U64_MAX \in Nat

U64 == 0 .. U64_MAX

BPS == 10000          \* basis points in one

OK == "Ok"
Ok(v) == [err |-> OK, val |-> v]
Err(e) == [err |-> e, val |-> 0]

AsU64(x) == x % (U64_MAX + 1)

Least(a, b) == IF a <= b THEN a ELSE b
Greatest(a, b) == IF a >= b THEN a ELSE b

MulDiv(a, b, c) == IF c = 0 THEN Err("MathOverflow") ELSE Ok((a * b) \div c)

(* Constant-product exact-in swap. *)
SwapExactInput(amount, in_reserve, out_reserve) ==
  MulDiv(amount, out_reserve, in_reserve + amount)

(* Mutant: slippage on the wrong side. *)
AddSlippageBelow(value, bps) == AsU64((value * (BPS - bps)) \div BPS)

(* Mutant: the product is computed in a u64. *)
AddSlippageInU64(value, bps) == AsU64(value * (BPS + bps)) \div BPS

AddSlippage(value, bps) == AsU64((value * (BPS + bps)) \div BPS)

SubSlippage(value, bps) == (value * (BPS - Least(bps, BPS))) \div BPS

CeilDiv(a, b) == (a + b - 1) \div b

FeeAmount(amount, basis_points) == CeilDiv(amount * basis_points, BPS)

UnshavedNet(amount_in, bps) == (amount_in * BPS) \div (BPS + (bps[1] + bps[2] + bps[3]))

ThreeFees(net, bps) ==
  <<FeeAmount(net, bps[1]), FeeAmount(net, bps[2]), FeeAmount(net, bps[3])>>

(* What is left of net0 once the fees' overshoot of the budget is shaved off. *)
ShaveNet(amount_in, net0, fees) ==
  LET cost == net0 + (fees[1] + fees[2] + fees[3])
      net  == IF cost > amount_in THEN net0 - (cost - amount_in) ELSE net0
  IN  IF net0 = 0 \/ net <= 0
        THEN [err |-> "ZeroAmount", net |-> 0, fees |-> <<0, 0, 0>>]
        ELSE [err |-> OK, net |-> net, fees |-> fees]

(* Mutant: the overshoot of the rounded-up fees is not shaved off the net. *)
ExactInFeeAmountsUnshaved(amount_in, bps) ==
  LET net0 == UnshavedNet(amount_in, bps)
  IN  [ShaveNet(amount_in, net0, ThreeFees(net0, bps)) EXCEPT !.net = net0]

(* The split of an exact-quote-in budget into the net that is swapped and   *)
(* three fees, charged on the unshaved net.                                  *)
ExactInFeeAmounts(amount_in, bps) ==
  LET net0 == UnshavedNet(amount_in, bps)
  IN  ShaveNet(amount_in, net0, ThreeFees(net0, bps))

=============================================================================
