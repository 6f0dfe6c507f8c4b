---------------------------- MODULE AbstractPool ----------------------------
(***************************************************************************)
(* What a pump-amm pool promises its traders and its fee recipients, with  *)
(* no account, vault or signed virtual reserve in sight.  The pool prices  *)
(* against base and eff; it can pay real; it owes owed to its fee          *)
(* recipients.  A trade never lowers base * eff, moves eff and real        *)
(* together and only adds to what is owed; paying fees moves no price.     *)
(***************************************************************************)
EXTENDS Integers

VARIABLES base, eff, real, owed

abstract == <<base, eff, real, owed>>

Init ==
  /\ base \in Nat /\ base > 0
  /\ real \in Nat /\ real > 0
  /\ eff \in Nat /\ real <= eff
  /\ owed = 0

Trade ==
  /\ base' \in Nat /\ base' > 0
  /\ base * eff <= base' * eff'
  /\ eff' - eff = real' - real
  /\ real' \in Nat
  /\ owed' \in Nat /\ owed <= owed'

PayFees ==
  /\ owed' \in Nat /\ owed' < owed
  /\ UNCHANGED <<base, eff, real>>

Spec == Init /\ [][Trade \/ PayFees]_abstract

=============================================================================
