----------------------------- MODULE WalletProofs ------------------------------
(*****************************************************************************)
(* Theorems about Wallet for every value of its constants: any coins, quotes, *)
(* holders, recipients, prices, slippages and number of moves.                *)
(*                                                                            *)
(* A list of instructions is run by a function of the position, so what a     *)
(* list does is an induction along it (Along), as are payments and shares.    *)
(* Sound is what no transaction may break: balances are naturals, a pool is   *)
(* the one its curve opens, a shared coin has holders.  Frame is what no      *)
(* transaction changes of a coin.  ExecKept proves both of every instruction  *)
(* the builders make (Known).                                                 *)
(*                                                                            *)
(* The inductive invariant Inv is Sound of the chain with Built of the user's *)
(* list, which says of the lists SweptInTime and WsolRoundTrip are about what *)
(* their builders put in them, whatever happened since they were built.       *)
(*****************************************************************************)
EXTENDS Wallet, SequenceTheorems, FiniteSetTheorems, WellFoundedInduction, TLAPS

Fields == {"curve", "pool", "price", "shareholders", "err", "ledger"}

(* A world: its fields, and no balance below zero. *)
World(w) ==
  /\ DOMAIN w = Fields
  /\ \A a \in DOMAIN w.ledger : w.ledger[a] \in Nat

(* Nothing but the ledger differs, and no account was closed. *)
LedgerOnly(w, v) ==
  /\ World(v)
  /\ v.curve = w.curve /\ v.pool = w.pool /\ v.price = w.price
  /\ v.shareholders = w.shareholders /\ v.err = w.err
  /\ DOMAIN w.ledger \subseteq DOMAIN v.ledger

(* Every balance of w is at most that of v. *)
NoLess(w, v) == \A a : Bal(w, a) <= Bal(v, a)

(* Induction over the natural numbers, for the numbers where it fails. *)
LEMMA Induction ==
  ASSUME NEW Failing, Failing \subseteq Nat, 0 \notin Failing,
         \A i \in Nat : i + 1 \in Failing => i \in Failing
  PROVE  Failing = {}
<1> SUFFICES ASSUME Failing # {} PROVE FALSE
  OBVIOUS
<1> DEFINE R == OpToRel(<, Nat)
<1>1. IsWellFoundedOn(R, Nat)
  BY NatLessThanWellFounded, Zenon DEF OpToRel
<1>2. PICK x \in Failing : \A y \in Failing : ~ (<<y, x>> \in R)
  <2> HIDE DEF R
  <2> QED BY <1>1, WFMin
<1>3. x \in Nat /\ x # 0
  OBVIOUS
<1>4. x - 1 \in Nat /\ (x - 1) + 1 = x
  BY <1>3
<1>5. x - 1 \in Failing
  BY <1>4
<1>6. <<x - 1, x>> \in R
  BY <1>3, <1>4 DEF OpToRel
<1> QED BY <1>2, <1>5, <1>6

(* ---- the ledger ---- *)
LEMMA BalNat ==
  ASSUME NEW w, World(w), NEW a
  PROVE  Bal(w, a) \in Nat
BY DEF World, Bal, Has

LEMMA Credits ==
  ASSUME NEW w, World(w), NEW account, NEW n \in Nat
  PROVE  /\ LedgerOnly(w, Credit(w, account, n))
         /\ NoLess(w, Credit(w, account, n))
         /\ DOMAIN Credit(w, account, n).ledger = DOMAIN w.ledger \cup {account}
         /\ \A a : Bal(Credit(w, account, n), a) = Bal(w, a) + IF a = account THEN n ELSE 0
<1> DEFINE v == Credit(w, account, n)
           l == [a \in DOMAIN w.ledger \cup {account} |-> Bal(w, a) + IF a = account THEN n ELSE 0]
<1>1. /\ DOMAIN v = Fields /\ v.ledger = l
      /\ v.curve = w.curve /\ v.pool = w.pool /\ v.price = w.price
      /\ v.shareholders = w.shareholders /\ v.err = w.err
  BY DEF World, Fields, Credit
<1>2. \A a : Bal(w, a) \in Nat
  BY BalNat
<1>3. DOMAIN l = DOMAIN w.ledger \cup {account}
  OBVIOUS
<1>4. \A a \in DOMAIN l : l[a] = Bal(w, a) + IF a = account THEN n ELSE 0
  OBVIOUS
<1> HIDE DEF v, l
<1>5. \A a \in DOMAIN l : l[a] \in Nat
  BY <1>2, <1>4
<1>6. \A a : a \notin DOMAIN l => Bal(w, a) = 0 /\ a # account
  BY <1>3 DEF Bal, Has
<1>7. \A a : Bal(v, a) = Bal(w, a) + IF a = account THEN n ELSE 0
  BY <1>1, <1>2, <1>4, <1>6 DEF Bal, Has
<1>8. LedgerOnly(w, v)
  BY <1>1, <1>3, <1>5 DEF LedgerOnly, World
<1>9. NoLess(w, v)
  BY <1>2, <1>7 DEF NoLess
<1> QED BY <1>1, <1>3, <1>7, <1>8, <1>9 DEF v

LEMMA Debits ==
  ASSUME NEW w, World(w), NEW account, NEW n \in Nat, Bal(w, account) >= n
  PROVE  /\ LedgerOnly(w, Debit(w, account, n))
         /\ DOMAIN Debit(w, account, n).ledger = DOMAIN w.ledger
         /\ \A a : Bal(Debit(w, account, n), a) = Bal(w, a) - IF a = account THEN n ELSE 0
<1> DEFINE v == Debit(w, account, n)
           l == [w.ledger EXCEPT ![account] = @ - n]
<1>1. /\ DOMAIN v = Fields /\ v.ledger = l
      /\ v.curve = w.curve /\ v.pool = w.pool /\ v.price = w.price
      /\ v.shareholders = w.shareholders /\ v.err = w.err
  BY DEF World, Fields, Debit
<1>2. \A a : Bal(w, a) \in Nat
  BY BalNat
<1>3. DOMAIN l = DOMAIN w.ledger
  OBVIOUS
<1>4. \A a \in DOMAIN l : l[a] = w.ledger[a] - IF a = account THEN n ELSE 0
  BY DEF World
<1>5. \A a \in DOMAIN l : l[a] = Bal(w, a) - IF a = account THEN n ELSE 0
  BY <1>3, <1>4 DEF Bal, Has
<1> HIDE DEF v, l
<1>6. \A a \in DOMAIN l : l[a] \in Nat
  BY <1>2, <1>5
<1>7. \A a : a \notin DOMAIN l => Bal(w, a) = 0 /\ (a = account => n = 0)
  BY <1>3 DEF Bal, Has
<1>8. \A a : Bal(v, a) = Bal(w, a) - IF a = account THEN n ELSE 0
  BY <1>1, <1>2, <1>5, <1>7 DEF Bal, Has
<1>9. LedgerOnly(w, v)
  BY <1>1, <1>3, <1>6 DEF LedgerOnly, World
<1> QED BY <1>1, <1>3, <1>8, <1>9 DEF v

LEMMA Opens ==
  ASSUME NEW w, World(w), NEW accounts
  PROVE  /\ LedgerOnly(w, Open(w, accounts))
         /\ DOMAIN Open(w, accounts).ledger = DOMAIN w.ledger \cup accounts
         /\ \A a : Bal(Open(w, accounts), a) = Bal(w, a)
<1> DEFINE v == Open(w, accounts)
           l == [a \in DOMAIN w.ledger \cup accounts |-> Bal(w, a)]
<1>1. /\ DOMAIN v = Fields /\ v.ledger = l
      /\ v.curve = w.curve /\ v.pool = w.pool /\ v.price = w.price
      /\ v.shareholders = w.shareholders /\ v.err = w.err
  BY DEF World, Fields, Open
<1>2. \A a : Bal(w, a) \in Nat
  BY BalNat
<1>3. /\ DOMAIN l = DOMAIN w.ledger \cup accounts
      /\ \A a \in DOMAIN l : l[a] = Bal(w, a)
  OBVIOUS
<1> HIDE DEF v, l
<1>4. \A a : a \notin DOMAIN l => Bal(w, a) = 0
  BY <1>3 DEF Bal, Has
<1>5. \A a : Bal(v, a) = Bal(w, a)
  BY <1>1, <1>3, <1>4 DEF Bal, Has
<1>6. LedgerOnly(w, v)
  BY <1>1, <1>2, <1>3 DEF LedgerOnly, World
<1> QED BY <1>1, <1>3, <1>5, <1>6 DEF v

(* ---- payments ---- *)
PayStep(v, p) == IF p[2] = 0 THEN v ELSE Credit(v, p[1], p[2])

LEMMA PaidSteps ==
  ASSUME NEW w, NEW payments, Len(payments) \in Nat
  PROVE  /\ Paid(w, payments)[0] = w
         /\ \A i \in 1..Len(payments) :
              Paid(w, payments)[i] = PayStep(Paid(w, payments)[i - 1], payments[i])
<1> DEFINE n == Len(payments)
           Steps(g, m) == [i \in 0..m |-> IF i = 0 THEN w ELSE PayStep(g[i - 1], payments[i])]
           Failing == {m \in Nat : ~ \E g : g = Steps(g, m)}
<1>1. 0 \notin Failing
  <2> DEFINE g == [i \in 0..0 |-> w]
  <2>1. g = Steps(g, 0)
    OBVIOUS
  <2> QED BY <2>1
<1>2. ASSUME NEW m \in Nat, m + 1 \in Failing PROVE m \in Failing
  <2> SUFFICES ASSUME NEW g, g = Steps(g, m) PROVE \E h : h = Steps(h, m + 1)
    BY <1>2
  <2> DEFINE h == [i \in 0..(m + 1) |-> IF i = m + 1 THEN PayStep(g[m], payments[m + 1]) ELSE g[i]]
  <2>1. \A i \in 0..(m + 1) : h[i] = IF i = 0 THEN w ELSE PayStep(h[i - 1], payments[i])
    <3> TAKE i \in 0..(m + 1)
    <3>1. CASE i = m + 1
      <4>1. h[i - 1] = g[m] /\ h[i] = PayStep(g[m], payments[m + 1])
        BY <3>1
      <4> QED BY <4>1, <3>1
    <3>2. CASE i = 0
      BY <3>2
    <3>3. CASE i # m + 1 /\ i # 0
      <4>1. i \in 0..m /\ i - 1 \in 0..m /\ i - 1 \in 0..(m + 1) /\ i - 1 # m + 1
        BY <3>3
      <4>2. h[i] = g[i] /\ h[i - 1] = g[i - 1]
        BY <4>1, <3>3
      <4>3. g[i] = PayStep(g[i - 1], payments[i])
        BY <4>1, <3>3
      <4> QED BY <4>2, <4>3, <3>3
    <3> QED BY <3>1, <3>2, <3>3
  <2>2. h = Steps(h, m + 1)
    <3>1. DOMAIN h = 0..(m + 1) /\ h = [i \in 0..(m + 1) |-> h[i]]
      OBVIOUS
    <3> HIDE DEF h
    <3> QED BY <2>1, <3>1
  <2> QED BY <2>2
<1>3. Failing = {}
  <2> HIDE DEF Failing
  <2>1. Failing \subseteq Nat
    BY DEF Failing
  <2> QED BY <1>1, <1>2, <2>1, Induction
<1>4. \E g : g = Steps(g, n)
  BY <1>3
<1>5. Paid(w, payments) = CHOOSE g : g = Steps(g, n)
  BY Zenon DEF Paid, PayStep
<1>6. Paid(w, payments) = Steps(Paid(w, payments), n)
  <2> HIDE DEF Steps
  <2> QED BY <1>4, <1>5, Zenon
<1>7. \A i \in 0..n : Paid(w, payments)[i]
        = IF i = 0 THEN w ELSE PayStep(Paid(w, payments)[i - 1], payments[i])
  <2> DEFINE P == Paid(w, payments)
  <2>1. P = Steps(P, n)
    BY <1>6
  <2> HIDE DEF P
  <2>2. \A i \in 0..n : P[i] = IF i = 0 THEN w ELSE PayStep(P[i - 1], payments[i])
    BY <2>1
  <2> QED BY <2>2 DEF P
<1> QED BY <1>7

(* Induction along a list. *)
LEMMA Along ==
  ASSUME NEW n \in Nat, NEW Good, 0 \in Good, \A i \in 1..n : i - 1 \in Good => i \in Good
  PROVE  \A i \in 0..n : i \in Good
<1> DEFINE Failing == {i \in 0..n : i \notin Good}
<1>1. Failing \subseteq Nat /\ 0 \notin Failing
  OBVIOUS
<1>2. ASSUME NEW i \in Nat, i + 1 \in Failing PROVE i \in Failing
  <2>1. i + 1 \in 1..n /\ i \in 0..n /\ (i + 1) - 1 = i
    BY <1>2
  <2> QED BY <1>2, <2>1
<1>3. Failing = {}
  <2> HIDE DEF Failing
  <2> QED BY <1>1, <1>2, Induction
<1> QED BY <1>3

IsSeq(list) == list \in Seq(ToSet(list))

(* What payments leave: no account has less than before, and those that are  *)
(* not paid have the same.                                                   *)
LEMMA Pays ==
  ASSUME NEW w, World(w), NEW payments, Len(payments) \in Nat,
         \A i \in 1..Len(payments) : payments[i][2] \in Nat
  PROVE  /\ LedgerOnly(w, Pay(w, payments))
         /\ NoLess(w, Pay(w, payments))
         /\ \A a : (\A i \in 1..Len(payments) : payments[i][1] # a \/ payments[i][2] = 0) =>
                  /\ Bal(Pay(w, payments), a) = Bal(w, a)
                  /\ Has(Pay(w, payments), a) <=> Has(w, a)
<1> DEFINE n == Len(payments)
           P == Paid(w, payments)
           Unpaid(a) == \A i \in 1..n : payments[i][1] # a \/ payments[i][2] = 0
           Fine(v) == /\ LedgerOnly(w, v)
                      /\ NoLess(w, v)
                      /\ \A a : Unpaid(a) => Bal(v, a) = Bal(w, a) /\ (Has(v, a) <=> Has(w, a))
           Good == {i \in 0..n : Fine(P[i])}
<1>1. 0 \in Good
  <2>1. P[0] = w
    BY PaidSteps
  <2>2. \A a : Bal(w, a) \in Nat
    BY BalNat
  <2>3. LedgerOnly(w, w)
    BY DEF LedgerOnly
  <2>4. NoLess(w, w)
    BY <2>2 DEF NoLess
  <2>5. Fine(w)
    BY <2>3, <2>4
  <2> QED BY <2>1, <2>5
<1>2. ASSUME NEW i \in 1..n, i - 1 \in Good PROVE i \in Good
  <2> DEFINE v == P[i - 1]
             p == payments[i]
  <2>1. P[i] = PayStep(v, p)
    BY PaidSteps
  <2>2. Fine(v) /\ p[2] \in Nat
    BY <1>2
  <2>3. ASSUME p[2] # 0 PROVE Fine(Credit(v, p[1], p[2]))
    <3> DEFINE u == Credit(v, p[1], p[2])
    <3>1. World(v)
      BY <2>2 DEF LedgerOnly
    <3>2. /\ LedgerOnly(v, u) /\ NoLess(v, u)
          /\ DOMAIN u.ledger = DOMAIN v.ledger \cup {p[1]}
          /\ \A a : Bal(u, a) = Bal(v, a) + IF a = p[1] THEN p[2] ELSE 0
      <4> HIDE DEF v
      <4> QED BY <2>2, <3>1, Credits
    <3> HIDE DEF u, P
    <3>3. LedgerOnly(w, u)
      BY <2>2, <3>2 DEF LedgerOnly
    <3>4. NoLess(w, u)
      <4>1. \A a : Bal(w, a) \in Nat /\ Bal(v, a) \in Nat /\ Bal(u, a) \in Nat
        BY <3>1, <3>3, BalNat DEF LedgerOnly
      <4> QED BY <2>2, <3>2, <4>1 DEF NoLess
    <3>5. \A a : Unpaid(a) => a # p[1]
      BY <2>3
    <3>6. \A a : Bal(v, a) \in Nat
      BY <3>1, BalNat
    <3>7. \A a : Unpaid(a) => Bal(u, a) = Bal(w, a) /\ (Has(u, a) <=> Has(w, a))
      <4> TAKE a
      <4> SUFFICES ASSUME Unpaid(a) PROVE Bal(u, a) = Bal(w, a) /\ (Has(u, a) <=> Has(w, a))
        OBVIOUS
      <4>1. a # p[1] /\ Bal(u, a) = Bal(v, a)
        <5>1. a # p[1]
          BY <3>5
        <5>2. Bal(u, a) = Bal(v, a) + 0
          BY <3>2, <5>1
        <5> QED BY <3>6, <5>1, <5>2
      <4>2. Has(u, a) <=> Has(v, a)
        BY <3>2, <4>1 DEF Has
      <4> QED BY <2>2, <4>1, <4>2
    <3> QED BY <3>3, <3>4, <3>7 DEF u
  <2>4. Fine(P[i])
    <3> HIDE DEF P, Fine
    <3> QED BY <2>1, <2>2, <2>3 DEF PayStep
  <2> QED BY <2>4
<1>3. n \in 0..n
  OBVIOUS
<1>4. n \in Good
  <2> HIDE DEF Good
  <2> QED BY <1>1, <1>2, <1>3, Along
<1> QED BY <1>4 DEF Pay

(* ---- a transaction ---- *)
Step(v, ix) == IF v.err # "none" THEN v ELSE Exec(v, ix)

LEMMA RunSteps ==
  ASSUME NEW w, NEW list, Len(list) \in Nat
  PROVE  /\ Trace(w, list)[0] = w
         /\ \A i \in 1..Len(list) : Trace(w, list)[i] = Step(Trace(w, list)[i - 1], list[i])
<1> DEFINE n == Len(list)
           Steps(g, m) == [i \in 0..m |-> IF i = 0 THEN w ELSE Step(g[i - 1], list[i])]
           Failing == {m \in Nat : ~ \E g : g = Steps(g, m)}
<1>1. 0 \notin Failing
  <2> DEFINE g == [i \in 0..0 |-> w]
  <2>1. g = Steps(g, 0)
    OBVIOUS
  <2> QED BY <2>1
<1>2. ASSUME NEW m \in Nat, m + 1 \in Failing PROVE m \in Failing
  <2> SUFFICES ASSUME NEW g, g = Steps(g, m) PROVE \E h : h = Steps(h, m + 1)
    BY <1>2
  <2> DEFINE h == [i \in 0..(m + 1) |-> IF i = m + 1 THEN Step(g[m], list[m + 1]) ELSE g[i]]
  <2>1. \A i \in 0..(m + 1) : h[i] = IF i = 0 THEN w ELSE Step(h[i - 1], list[i])
    <3> TAKE i \in 0..(m + 1)
    <3>1. CASE i = m + 1
      <4>1. h[i - 1] = g[m] /\ h[i] = Step(g[m], list[m + 1])
        BY <3>1
      <4> QED BY <4>1, <3>1
    <3>2. CASE i = 0
      BY <3>2
    <3>3. CASE i # m + 1 /\ i # 0
      <4>1. i \in 0..m /\ i - 1 \in 0..m /\ i - 1 \in 0..(m + 1) /\ i - 1 # m + 1
        BY <3>3
      <4>2. h[i] = g[i] /\ h[i - 1] = g[i - 1]
        BY <4>1, <3>3
      <4>3. g[i] = Step(g[i - 1], list[i])
        BY <4>1, <3>3
      <4> QED BY <4>2, <4>3, <3>3
    <3> QED BY <3>1, <3>2, <3>3
  <2>2. h = Steps(h, m + 1)
    <3>1. DOMAIN h = 0..(m + 1) /\ h = [i \in 0..(m + 1) |-> h[i]]
      OBVIOUS
    <3> HIDE DEF h
    <3> QED BY <2>1, <3>1
  <2> QED BY <2>2
<1>3. Failing = {}
  <2> HIDE DEF Failing
  <2>1. Failing \subseteq Nat
    BY DEF Failing
  <2> QED BY <1>1, <1>2, <2>1, Induction
<1>4. \E g : g = Steps(g, n)
  BY <1>3
<1>5. Trace(w, list) = CHOOSE g : g = Steps(g, n)
  BY Zenon DEF Trace, Step
<1>6. Trace(w, list) = Steps(Trace(w, list), n)
  <2> HIDE DEF Steps
  <2> QED BY <1>4, <1>5, Zenon
<1> DEFINE P == Trace(w, list)
<1>7. P = Steps(P, n)
  BY <1>6
<1> HIDE DEF P
<1>8. \A i \in 0..n : P[i] = IF i = 0 THEN w ELSE Step(P[i - 1], list[i])
  BY <1>7
<1> QED BY <1>8 DEF P

(* ---- refusals ---- *)
LEMMA Refusal ==
  ASSUME NEW w, DOMAIN w = Fields, NEW condition, NEW error, NEW rest
  PROVE  \/ ~condition /\ Refuse(w, condition, error, rest) = rest
         \/ /\ condition /\ Refuse(w, condition, error, rest) = [w EXCEPT !.err = error]
            /\ Refuse(w, condition, error, rest).err = error
BY DEF Refuse, Fields

(* ---- trades ---- *)
LEMMA FeesNat ==
  ASSUME NEW w, w.price \in Nat
  PROVE  /\ FeesAt(w).protocol \in Nat /\ FeesAt(w).buyback \in Nat /\ FeesAt(w).creator \in Nat
         /\ Cost(w) \in Nat /\ Cost(w) > 0 /\ Proceeds(w) \in Int
BY DEF FeesAt, Cost, Proceeds, TotalFees

LEMMA OnePayment ==
  ASSUME NEW a, NEW n \in Nat
  PROVE  /\ Len(<<<<a, n>>>>) \in Nat
         /\ \A i \in 1..Len(<<<<a, n>>>>) : <<<<a, n>>>>[i][2] \in Nat
OBVIOUS

LEMMA ThreePayments ==
  ASSUME NEW a, NEW b, NEW c, NEW l \in Nat, NEW m \in Nat, NEW n \in Nat
  PROVE  LET p == <<<<a, l>>, <<b, m>>, <<c, n>>>>
         IN  Len(p) \in Nat /\ \A i \in 1..Len(p) : p[i][2] \in Nat
OBVIOUS

Payable(payments) == Len(payments) \in Nat /\ \A i \in 1..Len(payments) : payments[i][2] \in Nat

LEMMA Boughts ==
  ASSUME NEW w, World(w), w.price \in Nat, NEW base, NEW purse, Bal(w, purse) >= Cost(w)
  PROVE  /\ LedgerOnly(w, Bought(w, base, purse))
         /\ \A a : Bal(Bought(w, base, purse), a)
                  = Bal(w, a) - (IF a = purse THEN Cost(w) ELSE 0) + (IF a = base THEN 1 ELSE 0)
         /\ DOMAIN Bought(w, base, purse).ledger = DOMAIN w.ledger \cup {base}
<1> DEFINE d == Debit(w, purse, Cost(w))
<1>1. Cost(w) \in Nat
  BY FeesNat
<1>2. /\ LedgerOnly(w, d) /\ DOMAIN d.ledger = DOMAIN w.ledger
      /\ \A a : Bal(d, a) = Bal(w, a) - IF a = purse THEN Cost(w) ELSE 0
  BY <1>1, Debits
<1> HIDE DEF d
<1>3. World(d)
  BY <1>2 DEF LedgerOnly
<1>4. /\ LedgerOnly(d, Credit(d, base, 1))
      /\ DOMAIN Credit(d, base, 1).ledger = DOMAIN d.ledger \cup {base}
      /\ \A a : Bal(Credit(d, base, 1), a) = Bal(d, a) + IF a = base THEN 1 ELSE 0
  BY <1>3, Credits
<1> QED BY <1>2, <1>4 DEF LedgerOnly, Bought, d

LEMMA Solds ==
  ASSUME NEW w, World(w), w.price \in Nat, NEW base, NEW purse, Bal(w, base) >= 1,
         Proceeds(w) \in Nat
  PROVE  /\ LedgerOnly(w, Sold(w, base, purse))
         /\ \A a : Bal(Sold(w, base, purse), a)
                  = Bal(w, a) - (IF a = base THEN 1 ELSE 0) + (IF a = purse THEN Proceeds(w) ELSE 0)
         /\ DOMAIN Sold(w, base, purse).ledger = DOMAIN w.ledger \cup {purse}
<1> DEFINE d == Debit(w, base, 1)
<1>2. /\ LedgerOnly(w, d) /\ DOMAIN d.ledger = DOMAIN w.ledger
      /\ \A a : Bal(d, a) = Bal(w, a) - IF a = base THEN 1 ELSE 0
  BY Debits
<1>5. d.price = w.price /\ Proceeds(w) = Proceeds(w)
  BY <1>2 DEF LedgerOnly
<1> HIDE DEF d
<1>3. World(d)
  BY <1>2 DEF LedgerOnly
<1>4. /\ LedgerOnly(d, Credit(d, purse, Proceeds(w)))
      /\ DOMAIN Credit(d, purse, Proceeds(w)).ledger = DOMAIN d.ledger \cup {purse}
      /\ \A a : Bal(Credit(d, purse, Proceeds(w)), a)
               = Bal(d, a) + IF a = purse THEN Proceeds(w) ELSE 0
  BY <1>3, Credits
<1> QED BY <1>2, <1>4 DEF LedgerOnly, Sold, d

(* What a trade that is not refused has checked, and what it moves.          *)
LEMMA Trades ==
  ASSUME NEW w, World(w), w.err = "none", w.price \in Nat,
         NEW ix, ix.args.limit \in Nat,
         NEW buying \in BOOLEAN, NEW needed, NEW base, NEW purse, NEW payments, Payable(payments),
         Trade(w, ix, buying, needed, base, purse, payments).err = "none"
  PROVE  LET v == Trade(w, ix, buying, needed, base, purse, payments)
             t == IF buying THEN Bought(w, base, purse) ELSE Sold(w, base, purse)
         IN  /\ LedgerOnly(w, v)
             /\ LedgerOnly(w, t) /\ v = Pay(t, payments) /\ NoLess(t, v)
             /\ ~LimitBroken(w, ix, buying)
             /\ IF buying THEN Bal(w, purse) >= Cost(w)
                ELSE Bal(w, base) >= 1 /\ Proceeds(w) \in Nat /\ Proceeds(w) >= ix.args.limit
<1> DEFINE v == Trade(w, ix, buying, needed, base, purse, payments)
           t == IF buying THEN Bought(w, base, purse) ELSE Sold(w, base, purse)
           short == IF buying THEN Bal(w, purse) < Cost(w) ELSE Bal(w, base) < 1
<1>1. DOMAIN w = Fields
  BY DEF World
<1>2. ~LimitBroken(w, ix, buying) /\ ~short /\ v = Pay(t, payments)
  BY <1>1 DEF Trade, Refuse, Fields
<1>3. Cost(w) \in Nat /\ Proceeds(w) \in Int
  BY FeesNat
<1>4. CASE buying
  <2>1. Bal(w, purse) >= Cost(w)
    BY <1>2, <1>3, <1>4, BalNat
  <2>2. LedgerOnly(w, Bought(w, base, purse))
    BY <2>1, Boughts
  <2>3. t = Bought(w, base, purse)
    BY <1>4
  <2> HIDE DEF t, v
  <2>4. World(t)
    BY <2>2, <2>3 DEF LedgerOnly
  <2>5. LedgerOnly(t, v) /\ NoLess(t, v)
    BY <1>2, <2>4, Pays DEF Payable
  <2>6. LedgerOnly(w, v)
    BY <2>2, <2>3, <2>5 DEF LedgerOnly
  <2> QED BY <1>2, <1>4, <2>1, <2>2, <2>3, <2>5, <2>6 DEF t, v
<1>5. CASE ~buying
  <2>1. Bal(w, base) >= 1
    BY <1>2, <1>5, BalNat
  <2>2. Proceeds(w) >= ix.args.limit /\ Proceeds(w) \in Nat
    BY <1>2, <1>3, <1>5 DEF LimitBroken
  <2>3. LedgerOnly(w, Sold(w, base, purse))
    BY <2>1, <2>2, Solds
  <2>4. t = Sold(w, base, purse)
    BY <1>5
  <2> HIDE DEF t, v
  <2>5. World(t)
    BY <2>3, <2>4 DEF LedgerOnly
  <2>6. LedgerOnly(t, v) /\ NoLess(t, v)
    BY <1>2, <2>5, Pays DEF Payable
  <2>7. LedgerOnly(w, v)
    BY <2>3, <2>4, <2>6 DEF LedgerOnly
  <2> QED BY <1>2, <1>5, <2>1, <2>2, <2>3, <2>4, <2>6, <2>7 DEF t, v
<1> QED BY <1>4, <1>5

(* ---- transfers ---- *)
LEMMA Moves ==
  ASSUME NEW w, World(w), NEW from, NEW to, NEW n \in Nat, Bal(w, from) >= n
  PROVE  /\ LedgerOnly(w, Move(w, from, to, n))
         /\ DOMAIN Move(w, from, to, n).ledger = DOMAIN w.ledger \cup {to}
         /\ \A a : Bal(Move(w, from, to, n), a)
                  = Bal(w, a) - (IF a = from THEN n ELSE 0) + (IF a = to THEN n ELSE 0)
<1> DEFINE d == Debit(w, from, n)
<1>1. /\ LedgerOnly(w, d) /\ DOMAIN d.ledger = DOMAIN w.ledger
      /\ \A a : Bal(d, a) = Bal(w, a) - IF a = from THEN n ELSE 0
  BY Debits
<1> HIDE DEF d
<1>2. World(d)
  BY <1>1 DEF LedgerOnly
<1>3. /\ LedgerOnly(d, Credit(d, to, n))
      /\ DOMAIN Credit(d, to, n).ledger = DOMAIN d.ledger \cup {to}
      /\ \A a : Bal(Credit(d, to, n), a) = Bal(d, a) + IF a = to THEN n ELSE 0
  BY <1>2, Credits
<1> QED BY <1>1, <1>3 DEF LedgerOnly, Move, d

LEMMA MovesAll ==
  ASSUME NEW w, World(w), NEW from, NEW to
  PROVE  /\ LedgerOnly(w, MoveAll(w, from, to))
         /\ DOMAIN MoveAll(w, from, to).ledger \subseteq DOMAIN w.ledger \cup {to}
         /\ \A a : Bal(MoveAll(w, from, to), a)
                  = Bal(w, a) - (IF a = from THEN Bal(w, from) ELSE 0)
                              + (IF a = to THEN Bal(w, from) ELSE 0)
<1>1. \A a : Bal(w, a) \in Nat
  BY BalNat
<1>2. CASE Bal(w, from) = 0
  <2>1. MoveAll(w, from, to) = w
    BY <1>2 DEF MoveAll
  <2>2. LedgerOnly(w, w)
    BY DEF LedgerOnly
  <2> QED BY <1>1, <1>2, <2>1, <2>2
<1>3. CASE Bal(w, from) # 0
  <2>1. MoveAll(w, from, to) = Move(w, from, to, Bal(w, from))
    BY <1>3 DEF MoveAll
  <2>2. Bal(w, from) \in Nat /\ Bal(w, from) >= Bal(w, from)
    BY <1>1
  <2> QED BY <2>1, <2>2, Moves
<1> QED BY <1>2, <1>3

LEMMA EvenShares ==
  ASSUME NEW n \in Nat, NEW m \in Nat, m > 0
  PROVE  n \div m \in Nat /\ (n \div m) * m <= n /\ n - (n \div m) * m < m
<1>1. n \div m \in Nat /\ m * (n \div m) <= n /\ n < m * (n \div m) + m
  OBVIOUS
<1>2. m * (n \div m) = (n \div m) * m
  BY <1>1
<1> QED BY <1>1, <1>2

LEMMA Mapped ==
  ASSUME NEW holders, IsSeq(holders), NEW s, DOMAIN s = DOMAIN holders,
         s = [i \in DOMAIN s |-> s[i]]
  PROVE  Len(s) = Len(holders) /\ Len(holders) \in Nat /\ DOMAIN holders = 1..Len(holders)
<1>1. Len(holders) \in Nat /\ DOMAIN holders = 1..Len(holders)
  BY LenProperties DEF IsSeq
<1>2. s \in Seq({s[i] : i \in 1..Len(holders)})
  BY <1>1
<1>3. DOMAIN s = 1..Len(s) /\ Len(s) \in Nat
  BY <1>2, LenProperties
<1> QED BY <1>1, <1>3

(* The shares of a distribution are at most what the vault has.              *)
LEMMA Distributes ==
  ASSUME NEW w, World(w), NEW holders \in Holders
  PROVE  LedgerOnly(w, Distribute(w, holders))
<1> DEFINE vault == VaultAccount(w, w.curve.creator)
           share == Bal(w, vault) \div Len(holders)
           AccountOf(h) == IF Quote(w) = NATIVE_MINT THEN h ELSE QuoteAta(w, h)
           payments == [i \in DOMAIN holders |-> <<AccountOf(holders[i]), share>>]
           d == Debit(w, vault, share * Len(holders))
<1>1. /\ Distribute(w, holders) = IF share = 0 THEN w ELSE Pay(d, payments)
      /\ DOMAIN payments = DOMAIN holders /\ payments = [i \in DOMAIN payments |-> payments[i]]
      /\ \A i \in DOMAIN holders : payments[i][2] = share
  BY DEF Distribute
<1>2. IsSeq(holders) /\ holders # <<>>
  BY WalletAssumption DEF IsSeq
<1>3. Len(holders) \in Nat /\ Len(holders) > 0
  BY <1>2, LenProperties, EmptySeq DEF IsSeq
<1>4. Bal(w, vault) \in Nat
  BY BalNat
<1>5. share \in Nat /\ share * Len(holders) \in Nat /\ Bal(w, vault) >= share * Len(holders)
  <2> HIDE DEF vault
  <2> QED BY <1>3, <1>4, EvenShares
<1> HIDE DEF vault, share, payments
<1>6. Payable(payments)
  BY <1>1, <1>2, <1>5, Mapped DEF Payable
<1>7. LedgerOnly(w, d)
  BY <1>5, Debits
<1>8. LedgerOnly(d, Pay(d, payments))
  <2> HIDE DEF d
  <2>1. World(d)
    BY <1>7 DEF LedgerOnly
  <2> QED BY <1>6, <2>1, Pays DEF Payable
<1>9. LedgerOnly(w, w)
  BY DEF LedgerOnly
<1> HIDE DEF d
<1> QED BY <1>1, <1>7, <1>8, <1>9 DEF LedgerOnly

(* ---- what every transaction keeps ---- *)
CurveFields == {"exists", "quote_mint", "creator", "is_mayhem_mode", "is_cashback_coin",
                "complete", "creator_fee"}
NoPoolFields == {"exists", "coin_creator", "is_cashback_coin", "creator_fees"}
PoolFields == {"exists", "index", "creator", "base_mint", "quote_mint", "coin_creator",
               "is_cashback_coin", "pool_base_token_account", "pool_quote_token_account",
               "creator_fees"}

(* One of the quotes, other than the coin itself; a creator who is a wallet or *)
(* the coin's own sharing config.                                            *)
Ordinary(quote_mint, creator) ==
  /\ ResolveQuoteMint(quote_mint) \in Quotes /\ ResolveQuoteMint(quote_mint) # Mint
  /\ creator = SharingConfig(Mint) \/ ~IsDerived(creator)

CurveShape(c) ==
  /\ DOMAIN c = CurveFields
  /\ c.exists \in BOOLEAN /\ c.complete \in BOOLEAN
  /\ c.is_mayhem_mode \in BOOLEAN /\ c.is_cashback_coin \in BOOLEAN
  /\ c.creator_fee \in Nat
  /\ c.complete => c.exists
  /\ c.exists => Ordinary(c.quote_mint, c.creator)

(* A pool is the one the migration of the curve opens, but for its fees.     *)
PoolMatches(w) ==
  /\ w.pool.exists \in BOOLEAN /\ w.pool.creator_fees \in Nat
  /\ NoPoolFields \subseteq DOMAIN w.pool
  /\ w.pool.exists =>
       /\ w.curve.complete
       /\ DOMAIN w.pool = PoolFields
       /\ \A f \in PoolFields \ {"creator_fees"} : w.pool[f] = PoolOf(w)[f]
  /\ ~w.pool.exists => w.pool.creator_fees = 0

Sound(w) ==
  /\ World(w) /\ CurveShape(w.curve) /\ PoolMatches(w)
  /\ w.price \in Prices
  /\ w.curve.creator = SharingConfig(Mint) => w.shareholders \in Holders

(* What no transaction changes of a coin: its price, and once the curve or   *)
(* the pool exists all of it but the creator fees; and the one account a      *)
(* transaction may close is the user's wSOL account.                          *)
Wsol == UserWsolAta(User)
Closable == {Wsol, Unsynced(Wsol)}

Frame(w, v) ==
  /\ DOMAIN w.ledger \subseteq DOMAIN v.ledger \cup Closable
  /\ v.price = w.price
  /\ w.curve.exists => \A f \in CurveFields \ {"creator_fee"} : v.curve[f] = w.curve[f]
  /\ w.pool.exists => \A f \in PoolFields \ {"creator_fees"} : v.pool[f] = w.pool[f]

SameCoin(w, v) ==
  /\ World(v) /\ DOMAIN w.ledger \subseteq DOMAIN v.ledger \cup Closable
  /\ v.curve = w.curve /\ v.pool = w.pool /\ v.price = w.price
  /\ v.shareholders = w.shareholders

LEMMA SameCoinSound ==
  ASSUME NEW w, NEW v, Sound(w), SameCoin(w, v)
  PROVE  Sound(v) /\ Frame(w, v)
<1>1. PoolOf(v) = PoolOf(w)
  BY DEF PoolOf, SameCoin, Quote, PoolKey, QuoteAta
<1>2. PoolMatches(v)
  BY <1>1 DEF PoolMatches, SameCoin, Sound
<1> QED BY <1>2 DEF Sound, Frame, SameCoin

LEMMA LedgerOnlySound ==
  ASSUME NEW w, NEW v, Sound(w), LedgerOnly(w, v)
  PROVE  Sound(v) /\ Frame(w, v)
BY SameCoinSound DEF SameCoin, LedgerOnly

(* The fee buckets. *)
LEMMA CurveFeeSound ==
  ASSUME NEW w, Sound(w), NEW n \in Nat, NEW v, DOMAIN v = Fields,
         v.curve = [w.curve EXCEPT !.creator_fee = n], v.ledger = w.ledger,
         v.pool = w.pool, v.price = w.price, v.shareholders = w.shareholders
  PROVE  Sound(v) /\ Frame(w, v) /\ v.curve.creator_fee = n
<1>1. /\ DOMAIN v.curve = CurveFields /\ v.curve.creator_fee = n
      /\ \A f \in CurveFields \ {"creator_fee"} : v.curve[f] = w.curve[f]
  BY DEF Sound, CurveShape, CurveFields
<1>2. /\ v.curve.exists = w.curve.exists /\ v.curve.complete = w.curve.complete
      /\ v.curve.creator = w.curve.creator /\ v.curve.quote_mint = w.curve.quote_mint
      /\ v.curve.is_mayhem_mode = w.curve.is_mayhem_mode
      /\ v.curve.is_cashback_coin = w.curve.is_cashback_coin
  BY <1>1 DEF CurveFields
<1>3. CurveShape(v.curve)
  BY <1>1, <1>2 DEF Sound, CurveShape
<1>4. PoolOf(v) = PoolOf(w)
  BY <1>2 DEF PoolOf, Quote, PoolKey, QuoteAta
<1>5. PoolMatches(v)
  BY <1>2, <1>4 DEF PoolMatches, Sound
<1> QED BY <1>1, <1>2, <1>3, <1>5 DEF Sound, Frame, World

LEMMA PoolFeeSound ==
  ASSUME NEW w, Sound(w), w.pool.exists, NEW n \in Nat, NEW v, DOMAIN v = Fields,
         v.pool = [w.pool EXCEPT !.creator_fees = n], v.ledger = w.ledger,
         v.curve = w.curve, v.price = w.price, v.shareholders = w.shareholders
  PROVE  Sound(v) /\ Frame(w, v) /\ v.pool.creator_fees = n
<1>1. DOMAIN w.pool = PoolFields
  BY DEF Sound, PoolMatches
<1>2. /\ DOMAIN v.pool = PoolFields /\ v.pool.creator_fees = n
      /\ \A f \in PoolFields \ {"creator_fees"} : v.pool[f] = w.pool[f]
  BY <1>1 DEF PoolFields
<1>3. v.pool.exists = w.pool.exists
  BY <1>2 DEF PoolFields
<1>4. PoolOf(v) = PoolOf(w)
  BY DEF PoolOf, Quote, PoolKey, QuoteAta
<1>5. PoolMatches(v)
  BY <1>1, <1>2, <1>3, <1>4 DEF PoolMatches, Sound
<1> QED BY <1>2, <1>5 DEF Sound, Frame, World

TradeOps == {"buy_v2", "buy_exact_quote_in_v2", "sell_v2", "buy", "sell", "buy_v3",
             "buy_exact_quote_in_v3", "sell_v3", "buy_amm", "sell_amm", "buy_amm_v2",
             "buy_exact_quote_in_amm_v2", "sell_amm_v2", "multi_hop_swap"}
UpdateOps == {"update_fee_shares", "update_fee_shares_v2"}
Ops == TradeOps \cup UpdateOps \cup
       {"create_ata", "transfer", "sync_native", "close_account", "create", "create_v2",
        "agent_initialize", "extend_account", "migrate_v2", "sweep_creator_fee",
        "sweep_pool_creator_fee", "collect_creator_fee_v2", "collect_coin_creator_fee",
        "transfer_creator_fees_to_pump_v2", "distribute_creator_fees_v2", "claim_cashback_v2"}

(* An instruction a builder makes: its amounts are numbers, its shareholders *)
(* a list the program allows, its creator a wallet.                          *)
Known(ix) ==
  /\ ix.op \in Ops
  /\ ix.op \in TradeOps => ix.args.limit \in Nat
  /\ ix.op = "transfer" => ix.args.amount \in Nat
  /\ ix.op \in UpdateOps => ix.args.shareholders \in Holders
  /\ ix.op = "close_account" => ix.a.account = Wsol
  /\ ix.op = "create" => ~IsDerived(ix.args.creator)
  /\ ix.op = "create_v2" =>
       /\ ~IsDerived(ix.args.creator) /\ ix.args.is_mayhem_mode \in BOOLEAN
       /\ ix.rest # <<>> => ResolveQuoteMint(ix.rest[1]) \in Quotes

Kept(w, v) == v.err = "none" => Sound(v) /\ Frame(w, v)

LEMMA Dispatch ==
  ASSUME NEW w, NEW ix
  PROVE  /\ ix.op = "create_ata" => Exec(w, ix) = ExecCreateAta(w, ix)
         /\ ix.op = "transfer" => Exec(w, ix) = ExecTransfer(w, ix)
         /\ ix.op = "sync_native" => Exec(w, ix) = ExecSyncNative(w, ix)
         /\ ix.op = "close_account" => Exec(w, ix) = ExecCloseAccount(w, ix)
         /\ ix.op \in {"buy_v2", "buy_exact_quote_in_v2", "sell_v2"} =>
              Exec(w, ix) = ExecCurveV2(w, ix)
         /\ ix.op \in {"buy", "sell"} => Exec(w, ix) = ExecLegacy(w, ix)
         /\ ix.op \in {"buy_v3", "buy_exact_quote_in_v3", "sell_v3"} =>
              Exec(w, ix) = ExecCurveV3(w, ix)
         /\ ix.op \in {"buy_amm", "sell_amm"} => Exec(w, ix) = ExecAmm(w, ix)
         /\ ix.op \in {"buy_amm_v2", "buy_exact_quote_in_amm_v2", "sell_amm_v2"} =>
              Exec(w, ix) = ExecAmmV2(w, ix)
         /\ ix.op = "multi_hop_swap" => Exec(w, ix) = ExecMultiHop(w, ix)
         /\ ix.op = "create" => Exec(w, ix) = ExecCreate(w, ix)
         /\ ix.op = "create_v2" => Exec(w, ix) = ExecCreateV2(w, ix)
         /\ ix.op = "agent_initialize" =>
              Exec(w, ix) = [w EXCEPT !.err = "AgentInitializationNotSupported"]
         /\ ix.op = "extend_account" => Exec(w, ix) = w
         /\ ix.op = "migrate_v2" => Exec(w, ix) = ExecMigrateV2(w, ix)
         /\ ix.op = "sweep_creator_fee" => Exec(w, ix) = ExecSweepCreatorFee(w, ix)
         /\ ix.op = "sweep_pool_creator_fee" => Exec(w, ix) = ExecSweepPoolCreatorFee(w, ix)
         /\ ix.op = "collect_creator_fee_v2" => Exec(w, ix) = ExecCollectCreatorFee(w, ix)
         /\ ix.op = "collect_coin_creator_fee" => Exec(w, ix) = ExecCollectCoinCreatorFee(w, ix)
         /\ ix.op = "transfer_creator_fees_to_pump_v2" => Exec(w, ix) = ExecTransferToPump(w, ix)
         /\ ix.op = "distribute_creator_fees_v2" => Exec(w, ix) = ExecDistribute(w, ix)
         /\ ix.op \in UpdateOps => Exec(w, ix) = ExecUpdateFeeShares(w, ix)
         /\ ix.op = "claim_cashback_v2" => Exec(w, ix) = ExecClaimCashback(w, ix)
BY DEF Exec, UpdateOps

(* ---- each instruction ---- *)
LEMMA CreateAtaKept ==
  ASSUME NEW w, Sound(w), NEW ix
  PROVE  Kept(w, ExecCreateAta(w, ix))
<1>1. World(w) /\ DOMAIN w = Fields
  BY DEF Sound, World
<1>2. LedgerOnly(w, Credit(w, ix.a.account, 0))
  BY <1>1, Credits
<1>3. ExecCreateAta(w, ix).err = "none" => ExecCreateAta(w, ix) = Credit(w, ix.a.account, 0)
  BY <1>1, Refusal DEF ExecCreateAta
<1> QED BY <1>2, <1>3, LedgerOnlySound DEF Kept

LEMMA TransferKept ==
  ASSUME NEW w, Sound(w), NEW ix, ix.args.amount \in Nat
  PROVE  Kept(w, ExecTransfer(w, ix))
<1> DEFINE n == ix.args.amount
           v == Move(w, ix.a.from, Unsynced(ix.a.to), n)
<1>1. World(w) /\ DOMAIN w = Fields
  BY DEF Sound, World
<1>2. ExecTransfer(w, ix).err = "none" => ~(Bal(w, ix.a.from) < n) /\ ExecTransfer(w, ix) = v
  BY <1>1 DEF ExecTransfer, Refuse, Fields
<1>3. Bal(w, ix.a.from) \in Nat
  BY <1>1, BalNat
<1>4. Bal(w, ix.a.from) >= n => LedgerOnly(w, v)
  BY <1>1, Moves
<1>5. ExecTransfer(w, ix).err = "none" => LedgerOnly(w, ExecTransfer(w, ix))
  BY <1>2, <1>3, <1>4
<1> QED BY <1>5, LedgerOnlySound DEF Kept

LEMMA SyncNativeKept ==
  ASSUME NEW w, Sound(w), NEW ix
  PROVE  Kept(w, ExecSyncNative(w, ix))
<1> DEFINE n == Bal(w, Unsynced(ix.a.account))
           v == Move(w, Unsynced(ix.a.account), ix.a.account, n)
<1>1. World(w) /\ DOMAIN w = Fields
  BY DEF Sound, World
<1>2. ExecSyncNative(w, ix).err = "none" => ExecSyncNative(w, ix) = v
  BY <1>1 DEF ExecSyncNative, Refuse, Fields
<1>3. n \in Nat /\ n >= n
  BY <1>1, BalNat
<1>4. LedgerOnly(w, v)
  BY <1>1, <1>3, Moves
<1> QED BY <1>2, <1>4, LedgerOnlySound DEF Kept

LEMMA Closes ==
  ASSUME NEW w, World(w), NEW ix, ix.a.account = Wsol, ExecCloseAccount(w, ix).err = "none"
  PROVE  LET v == ExecCloseAccount(w, ix)
             n == Bal(w, ix.a.account) + Bal(w, Unsynced(ix.a.account))
         IN  /\ SameCoin(w, v) /\ v.err = w.err
             /\ DOMAIN v.ledger = (DOMAIN w.ledger \cup {ix.a.destination})
                                  \ {ix.a.account, Unsynced(ix.a.account)}
             /\ \A a \in DOMAIN v.ledger :
                  Bal(v, a) = Bal(w, a) + IF a = ix.a.destination THEN n ELSE 0
<1> DEFINE gone == {ix.a.account, Unsynced(ix.a.account)}
           n == Bal(w, ix.a.account) + Bal(w, Unsynced(ix.a.account))
           paid == Credit(w, ix.a.destination, n)
           v == [paid EXCEPT !.ledger = [a \in DOMAIN @ \ gone |-> @[a]]]
<1>1. n \in Nat
  BY BalNat
<1>2. /\ LedgerOnly(w, paid)
      /\ DOMAIN paid.ledger = DOMAIN w.ledger \cup {ix.a.destination}
      /\ \A a : Bal(paid, a) = Bal(w, a) + IF a = ix.a.destination THEN n ELSE 0
  <2> HIDE DEF n
  <2> QED BY <1>1, Credits
<1>3. ExecCloseAccount(w, ix) = v
  BY DEF ExecCloseAccount, Refuse, World, Fields
<1> HIDE DEF paid
<1>4. DOMAIN paid = Fields
  BY <1>2 DEF LedgerOnly, World
<1>5. /\ DOMAIN v = Fields /\ v.ledger = [a \in DOMAIN paid.ledger \ gone |-> paid.ledger[a]]
      /\ v.curve = paid.curve /\ v.pool = paid.pool /\ v.price = paid.price
      /\ v.shareholders = paid.shareholders /\ v.err = paid.err
  BY <1>4 DEF Fields
<1> HIDE DEF v, gone, n
<1>6. DOMAIN v.ledger = DOMAIN paid.ledger \ gone
  BY <1>5
<1>7. \A a \in DOMAIN v.ledger : v.ledger[a] = paid.ledger[a] /\ a \in DOMAIN paid.ledger
  BY <1>5
<1>8. \A a \in DOMAIN v.ledger : v.ledger[a] \in Nat
  BY <1>2, <1>7 DEF LedgerOnly, World
<1>9. SameCoin(w, v) /\ v.err = w.err
  BY <1>2, <1>5, <1>6, <1>8 DEF SameCoin, LedgerOnly, World, gone, Closable
<1>10. \A a \in DOMAIN v.ledger : Bal(v, a) = Bal(paid, a)
  BY <1>7 DEF Bal, Has
<1> QED BY <1>2, <1>3, <1>6, <1>9, <1>10 DEF gone, n

LEMMA CloseAccountKept ==
  ASSUME NEW w, Sound(w), NEW ix, ix.a.account = Wsol
  PROVE  Kept(w, ExecCloseAccount(w, ix))
<1>1. World(w)
  BY DEF Sound
<1>2. ExecCloseAccount(w, ix).err = "none" => SameCoin(w, ExecCloseAccount(w, ix))
  BY <1>1, Closes
<1> QED BY <1>2, SameCoinSound DEF Kept

(* The fees of a trade as payments. *)
LEMMA FeePayments ==
  ASSUME NEW w, Sound(w), NEW a, NEW b, NEW c
  PROVE  /\ Payable(<<<<a, FeesAt(w).buyback>>>>)
         /\ Payable(<<<<a, FeesAt(w).protocol>>, <<b, FeesAt(w).buyback>>, <<c, FeesAt(w).creator>>>>)
<1>1. w.price \in Nat
  BY WalletAssumption DEF Sound
<1> QED BY <1>1, FeesNat, OnePayment, ThreePayments DEF Payable

LEMMA TradeLedger ==
  ASSUME NEW w, Sound(w), w.err = "none", NEW ix, ix.args.limit \in Nat,
         NEW buying \in BOOLEAN, NEW needed, NEW base, NEW purse, NEW payments, Payable(payments),
         Trade(w, ix, buying, needed, base, purse, payments).err = "none"
  PROVE  LedgerOnly(w, Trade(w, ix, buying, needed, base, purse, payments))
<1>1. World(w) /\ w.price \in Nat
  BY WalletAssumption DEF Sound
<1> QED BY <1>1, Trades

LEMMA CurveV2Kept ==
  ASSUME NEW w, Sound(w), w.err = "none", NEW ix, ix.args.limit \in Nat
  PROVE  Kept(w, ExecCurveV2(w, ix))
<1> SUFFICES ASSUME ExecCurveV2(w, ix).err = "none"
             PROVE  Sound(ExecCurveV2(w, ix)) /\ Frame(w, ExecCurveV2(w, ix))
  BY DEF Kept
<1>1. DOMAIN w = Fields
  BY DEF Sound, World
<1> DEFINE buying == ix.op \notin Sells
<1> DEFINE a == ix.a
           f == FeesAt(w)
           native == Quote(w) = NATIVE_MINT
           Acct(wallet, ata) == IF native THEN wallet ELSE ata
           cashback == Acct(a.user_volume_accumulator, a.associated_user_volume_accumulator)
           needed == IF native THEN {}
                     ELSE {a.associated_quote_user, a.associated_quote_fee_recipient,
                           a.associated_quote_bonding_curve}
                          \cup (IF w.curve.is_cashback_coin THEN {cashback} ELSE {})
           fee == Acct(a.fee_recipient, a.associated_quote_fee_recipient)
           back == Acct(a.buyback_fee_recipient, a.associated_quote_buyback_fee_recipient)
           creator == IF w.curve.is_cashback_coin THEN cashback
                      ELSE Acct(a.creator_vault, a.associated_creator_vault)
           purse == Acct(a.user, a.associated_quote_user)
           payments == <<<<fee, f.protocol>>, <<back, f.buyback>>, <<creator, f.creator>>>>
           T == Trade(w, ix, buying, needed, a.associated_base_user, purse, payments)
<1>2. ExecCurveV2(w, ix) = T
  BY <1>1, SMTT(20) DEF ExecCurveV2, OnCurve, Refuse, Fields
<1>3. Payable(payments)
  BY FeePayments
<1> HIDE DEF needed, purse, payments
<1>4. LedgerOnly(w, T)
  BY <1>2, <1>3, TradeLedger
<1> QED BY <1>2, <1>4, LedgerOnlySound

LEMMA LegacyKept ==
  ASSUME NEW w, Sound(w), w.err = "none", NEW ix, ix.args.limit \in Nat
  PROVE  Kept(w, ExecLegacy(w, ix))
<1> SUFFICES ASSUME ExecLegacy(w, ix).err = "none"
             PROVE  Sound(ExecLegacy(w, ix)) /\ Frame(w, ExecLegacy(w, ix))
  BY DEF Kept
<1>1. DOMAIN w = Fields
  BY DEF Sound, World
<1> DEFINE buying == ix.op \notin Sells
           a == ix.a
           f == FeesAt(w)
           creator == IF w.curve.is_cashback_coin THEN a.user_volume_accumulator
                      ELSE a.creator_vault
           payments == <<<<a.fee_recipient, f.protocol>>, <<Last(ix.rest), f.buyback>>,
                         <<creator, f.creator>>>>
           T == Trade(w, ix, buying, {}, a.associated_base_user, a.user, payments)
<1>2. ExecLegacy(w, ix) = T
  BY <1>1, SMTT(20) DEF ExecLegacy, OnCurve, Refuse, Fields
<1>3. Payable(payments)
  BY FeePayments
<1> HIDE DEF payments
<1>4. LedgerOnly(w, T)
  BY <1>2, <1>3, TradeLedger
<1> QED BY <1>2, <1>4, LedgerOnlySound

(* A trade that leaves its creator fee in the venue. *)
LEMMA KeepOnCurveKept ==
  ASSUME NEW w, Sound(w), w.err = "none", NEW t, t.err = "none" => LedgerOnly(w, t)
  PROVE  Kept(w, KeepOnCurve(w, t))
<1> DEFINE v == KeepOnCurve(w, t)
           n == w.curve.creator_fee + FeesAt(w).creator
<1> SUFFICES ASSUME v.err = "none" PROVE Sound(v) /\ Frame(w, v)
  BY DEF Kept
<1>1. t.err = "none"
  BY DEF KeepOnCurve
<1>2. LedgerOnly(w, t) /\ DOMAIN t = Fields
  BY <1>1 DEF LedgerOnly, World
<1>3. Sound(t) /\ Frame(w, t)
  BY <1>2, LedgerOnlySound
<1>4. n \in Nat
  BY WalletAssumption, FeesNat DEF Sound, CurveShape
<1>5. /\ DOMAIN v = Fields /\ v.curve = [t.curve EXCEPT !.creator_fee = n]
      /\ v.ledger = t.ledger /\ v.pool = t.pool /\ v.price = t.price
      /\ v.shareholders = t.shareholders
  <2>1. v = [t EXCEPT !.curve.creator_fee = @ + FeesAt(w).creator]
    BY <1>1 DEF KeepOnCurve
  <2>2. t.curve = w.curve
    BY <1>2 DEF LedgerOnly
  <2> HIDE DEF v
  <2> QED BY <1>2, <2>1, <2>2 DEF Fields
<1> HIDE DEF v, n
<1>6. Sound(v) /\ Frame(t, v)
  BY <1>3, <1>4, <1>5, CurveFeeSound
<1>7. t.curve = w.curve /\ t.pool = w.pool /\ t.price = w.price
  BY <1>2 DEF LedgerOnly
<1>8. DOMAIN w.ledger \subseteq DOMAIN v.ledger
  BY <1>2, <1>5 DEF LedgerOnly
<1>9. Frame(w, v)
  BY <1>6, <1>7, <1>8 DEF Frame
<1> QED BY <1>6, <1>9 DEF v

LEMMA KeepInPoolKept ==
  ASSUME NEW w, Sound(w), w.err = "none", w.pool.exists, NEW t,
         t.err = "none" => LedgerOnly(w, t)
  PROVE  Kept(w, KeepInPool(w, t))
<1> DEFINE v == KeepInPool(w, t)
           n == w.pool.creator_fees + FeesAt(w).creator
<1> SUFFICES ASSUME v.err = "none" PROVE Sound(v) /\ Frame(w, v)
  BY DEF Kept
<1>1. t.err = "none"
  BY DEF KeepInPool
<1>2. LedgerOnly(w, t) /\ DOMAIN t = Fields
  BY <1>1 DEF LedgerOnly, World
<1>3. Sound(t) /\ Frame(w, t)
  BY <1>2, LedgerOnlySound
<1>4. n \in Nat
  BY WalletAssumption, FeesNat DEF Sound, PoolMatches
<1>5. /\ DOMAIN v = Fields /\ v.pool = [t.pool EXCEPT !.creator_fees = n]
      /\ v.ledger = t.ledger /\ v.curve = t.curve /\ v.price = t.price
      /\ v.shareholders = t.shareholders
  <2>1. v = [t EXCEPT !.pool.creator_fees = @ + FeesAt(w).creator]
    BY <1>1 DEF KeepInPool
  <2>2. t.pool = w.pool
    BY <1>2 DEF LedgerOnly
  <2> HIDE DEF v
  <2> QED BY <1>2, <2>1, <2>2 DEF Fields
<1> HIDE DEF v, n
<1>7. t.curve = w.curve /\ t.pool = w.pool /\ t.price = w.price
  BY <1>2 DEF LedgerOnly
<1>6. Sound(v) /\ Frame(t, v)
  BY <1>3, <1>4, <1>5, <1>7, PoolFeeSound
<1>8. DOMAIN w.ledger \subseteq DOMAIN v.ledger
  BY <1>2, <1>5 DEF LedgerOnly
<1>9. Frame(w, v)
  BY <1>6, <1>7, <1>8 DEF Frame
<1> QED BY <1>6, <1>9 DEF v

LEMMA CurveV3Kept ==
  ASSUME NEW w, Sound(w), w.err = "none", NEW ix, ix.args.limit \in Nat
  PROVE  Kept(w, ExecCurveV3(w, ix))
<1> SUFFICES ASSUME ExecCurveV3(w, ix).err = "none" PROVE Kept(w, ExecCurveV3(w, ix))
  BY DEF Kept
<1>1. DOMAIN w = Fields
  BY DEF Sound, World
<1> DEFINE a == ix.a
           native == Quote(w) = NATIVE_MINT
           buying == ix.op \notin Sells
           needed == IF native THEN {} ELSE {a.associated_quote_user, a.buyback_fee_recipient}
           purse == IF native THEN a.user ELSE a.associated_quote_user
           payments == <<<<a.buyback_fee_recipient, FeesAt(w).buyback>>>>
           T == Trade(w, ix, buying, needed, a.associated_base_user, purse, payments)
<1>2. ExecCurveV3(w, ix) = KeepOnCurve(w, T)
  BY <1>1, SMTT(20) DEF ExecCurveV3, OnCurve, Refuse, Fields
<1>3. Payable(payments)
  BY FeePayments
<1> HIDE DEF needed, purse, payments
<1>4. T.err = "none" => LedgerOnly(w, T)
  BY <1>3, TradeLedger
<1> HIDE DEF T
<1> QED BY <1>2, <1>4, KeepOnCurveKept

LEMMA AmmKept ==
  ASSUME NEW w, Sound(w), w.err = "none", NEW ix, ix.args.limit \in Nat
  PROVE  Kept(w, ExecAmm(w, ix))
<1> SUFFICES ASSUME ExecAmm(w, ix).err = "none"
             PROVE  Sound(ExecAmm(w, ix)) /\ Frame(w, ExecAmm(w, ix))
  BY DEF Kept
<1>1. DOMAIN w = Fields
  BY DEF Sound, World
<1> DEFINE a == ix.a
           f == FeesAt(w)
           buying == ix.op \notin Sells
           skipped == SkippedAccounts(w, buying)
           buyback_ata == ix.rest[skipped + 2]
           needed == {a.user_quote_token_account, a.protocol_fee_recipient_token_account,
                      buyback_ata}
           creator == IF w.pool.is_cashback_coin THEN ix.rest[1] ELSE a.coin_creator_vault_ata
           payments == <<<<a.protocol_fee_recipient_token_account, f.protocol>>,
                         <<buyback_ata, f.buyback>>, <<creator, f.creator>>>>
           T == Trade(w, ix, buying, needed, a.user_base_token_account,
                      a.user_quote_token_account, payments)
<1>2. ExecAmm(w, ix) = T
  BY <1>1, SMTT(20) DEF ExecAmm, Refuse, Fields
<1>3. Payable(payments)
  BY FeePayments
<1> HIDE DEF needed, payments
<1>4. LedgerOnly(w, T)
  BY <1>2, <1>3, TradeLedger
<1> QED BY <1>2, <1>4, LedgerOnlySound

LEMMA AmmV2Kept ==
  ASSUME NEW w, Sound(w), w.err = "none", NEW ix, ix.args.limit \in Nat
  PROVE  Kept(w, ExecAmmV2(w, ix))
<1> SUFFICES ASSUME ExecAmmV2(w, ix).err = "none" PROVE Kept(w, ExecAmmV2(w, ix))
  BY DEF Kept
<1>1. DOMAIN w = Fields
  BY DEF Sound, World
<1> DEFINE a == ix.a
           buying == ix.op \notin Sells
           needed == {a.user_quote_token_account, a.buyback_fee_recipient}
           payments == <<<<a.buyback_fee_recipient, FeesAt(w).buyback>>>>
           T == Trade(w, ix, buying, needed, a.user_base_token_account,
                      a.user_quote_token_account, payments)
<1>2. ExecAmmV2(w, ix) = KeepInPool(w, T) /\ w.pool.exists
  BY <1>1, SMTT(20) DEF ExecAmmV2, Refuse, Fields
<1>3. Payable(payments)
  BY FeePayments
<1> HIDE DEF needed, payments
<1>4. T.err = "none" => LedgerOnly(w, T)
  BY <1>3, TradeLedger
<1> HIDE DEF T
<1> QED BY <1>2, <1>4, KeepInPoolKept

LEMMA MultiHopKept ==
  ASSUME NEW w, Sound(w), w.err = "none", NEW ix, ix.args.limit \in Nat
  PROVE  Kept(w, ExecMultiHop(w, ix))
<1> SUFFICES ASSUME ExecMultiHop(w, ix).err = "none" PROVE Kept(w, ExecMultiHop(w, ix))
  BY DEF Kept
<1>1. DOMAIN w = Fields
  BY DEF Sound, World
<1> DEFINE a == ix.a
           on_curve == ix.rest[1].venue = BondingCurvePda(Mint)
           buying == a.user_in_token_account = QuoteAta(w, User)
           needed == {a.user_in_token_account, a.user_out_token_account, a.buyback_fee_recipient}
           purse == IF on_curve /\ Quote(w) = NATIVE_MINT THEN a.user ELSE QuoteAta(w, User)
           payments == <<<<a.buyback_fee_recipient, FeesAt(w).buyback>>>>
           T == Trade(w, ix, buying, needed, BaseAta(User), purse, payments)
<1>2. /\ ExecMultiHop(w, ix) = IF on_curve THEN KeepOnCurve(w, T) ELSE KeepInPool(w, T)
      /\ ~on_curve => w.pool.exists
  BY <1>1, SMTT(20) DEF ExecMultiHop, Refuse, Fields
<1>3. Payable(payments)
  BY FeePayments
<1> HIDE DEF needed, payments, purse
<1>4. T.err = "none" => LedgerOnly(w, T)
  <2>1. buying \in BOOLEAN
    OBVIOUS
  <2> HIDE DEF buying
  <2> QED BY <1>3, <2>1, TradeLedger
<1> HIDE DEF T, on_curve
<1> QED BY <1>2, <1>4, KeepInPoolKept, KeepOnCurveKept

(* A new coin. *)
LEMMA NewCurveSound ==
  ASSUME NEW w, Sound(w), ~w.curve.exists, NEW v, World(v), CurveShape(v.curve),
         DOMAIN w.ledger \subseteq DOMAIN v.ledger,
         ~v.curve.complete, ~IsDerived(v.curve.creator), v.pool = w.pool, v.price = w.price
  PROVE  Sound(v) /\ Frame(w, v)
<1>1. ~w.pool.exists
  BY DEF Sound, PoolMatches, CurveShape
<1>2. PoolMatches(v)
  BY <1>1 DEF Sound, PoolMatches
<1>3. v.curve.creator # SharingConfig(Mint)
  BY DEF IsDerived, Seeds, SharingConfig
<1> QED BY <1>1, <1>2, <1>3 DEF Sound, Frame

LEMMA CreateKept ==
  ASSUME NEW w, Sound(w), NEW ix, ~IsDerived(ix.args.creator)
  PROVE  Kept(w, ExecCreate(w, ix))
<1> SUFFICES ASSUME ExecCreate(w, ix).err = "none"
             PROVE  Sound(ExecCreate(w, ix)) /\ Frame(w, ExecCreate(w, ix))
  BY DEF Kept
<1>1. DOMAIN w = Fields /\ World(w)
  BY DEF Sound, World
<1> DEFINE c == [NoCurve EXCEPT !.exists = TRUE, !.creator = ix.args.creator]
           coin == [w EXCEPT !.curve = c]
           v == Credit(coin, ix.a.associated_bonding_curve, 0)
<1>2. ~w.curve.exists /\ ExecCreate(w, ix) = v
  BY <1>1, SMTT(20) DEF ExecCreate, Refuse, Fields
<1>3. CurveShape(c) /\ ~c.complete /\ c.creator = ix.args.creator
  <2>1. ResolveQuoteMint(DEFAULT_KEY) \in Quotes /\ ResolveQuoteMint(DEFAULT_KEY) # Mint
    BY WalletAssumption DEF ResolveQuoteMint, Quotes
  <2> QED BY <2>1 DEF CurveShape, NoCurve, CurveFields, Ordinary
<1> HIDE DEF c
<1>4. /\ World(coin) /\ coin.curve = c /\ coin.pool = w.pool /\ coin.price = w.price
      /\ coin.ledger = w.ledger
  BY <1>1 DEF World, Fields
<1> HIDE DEF coin
<1>5. LedgerOnly(coin, v)
  BY <1>4, Credits
<1> HIDE DEF v
<1>6. /\ World(v) /\ v.curve = c /\ v.pool = w.pool /\ v.price = w.price
      /\ DOMAIN w.ledger \subseteq DOMAIN v.ledger
  BY <1>4, <1>5 DEF LedgerOnly
<1> QED BY <1>2, <1>3, <1>6, NewCurveSound

LEMMA CreateV2Kept ==
  ASSUME NEW w, Sound(w), NEW ix, ~IsDerived(ix.args.creator), ix.args.is_mayhem_mode \in BOOLEAN,
         ix.rest # <<>> => ResolveQuoteMint(ix.rest[1]) \in Quotes
  PROVE  Kept(w, ExecCreateV2(w, ix))
<1> SUFFICES ASSUME ExecCreateV2(w, ix).err = "none"
             PROVE  Sound(ExecCreateV2(w, ix)) /\ Frame(w, ExecCreateV2(w, ix))
  BY DEF Kept
<1>1. DOMAIN w = Fields /\ World(w)
  BY DEF Sound, World
<1> DEFINE quote == IF ix.rest = <<>> THEN DEFAULT_KEY ELSE ix.rest[1]
           c == [NoCurve EXCEPT !.exists = TRUE, !.creator = ix.args.creator,
                   !.is_mayhem_mode = ix.args.is_mayhem_mode, !.quote_mint = quote]
           coin == [w EXCEPT !.curve = c]
           opened == {ix.a.associated_bonding_curve} \cup (ToSet(ix.rest) \ {USDC})
           v == Open(coin, opened)
<1>2. ~w.curve.exists /\ ExecCreateV2(w, ix) = v
  BY <1>1, SMTT(20) DEF ExecCreateV2, Refuse, Fields
<1>3. CurveShape(c) /\ ~c.complete /\ c.creator = ix.args.creator
  <2>1. ResolveQuoteMint(quote) \in Quotes
    BY WalletAssumption DEF ResolveQuoteMint, Quotes
  <2>2. Mint \notin Quotes
    BY WalletAssumption
  <2> HIDE DEF quote
  <2> QED BY <2>1, <2>2 DEF CurveShape, NoCurve, CurveFields, Ordinary
<1> HIDE DEF c, opened
<1>4. /\ World(coin) /\ coin.curve = c /\ coin.pool = w.pool /\ coin.price = w.price
      /\ coin.ledger = w.ledger
  BY <1>1 DEF World, Fields
<1> HIDE DEF coin
<1>5. LedgerOnly(coin, v)
  BY <1>4, Opens
<1> HIDE DEF v
<1>6. /\ World(v) /\ v.curve = c /\ v.pool = w.pool /\ v.price = w.price
      /\ DOMAIN w.ledger \subseteq DOMAIN v.ledger
  BY <1>4, <1>5 DEF LedgerOnly
<1> QED BY <1>2, <1>3, <1>6, NewCurveSound

(* The pool a migration opens. *)
LEMMA NewPoolMatches ==
  ASSUME NEW w, w.curve.complete, w.pool = PoolOf(w)
  PROVE  PoolMatches(w)
<1> DEFINE q == PoolOf(w)
<1>1. DOMAIN q = PoolFields /\ q.exists /\ q.exists \in BOOLEAN /\ q.creator_fees = 0
  BY DEF PoolOf, PoolFields
<1>2. NoPoolFields \subseteq PoolFields
  BY DEF NoPoolFields, PoolFields
<1>3. w.pool = q /\ PoolOf(w) = q
  OBVIOUS
<1> HIDE DEF q
<1>4. w.pool.exists /\ w.pool.exists \in BOOLEAN /\ w.pool.creator_fees \in Nat
  <2>1. w.pool.exists /\ w.pool.exists \in BOOLEAN /\ w.pool.creator_fees = 0
    BY <1>1, <1>3, Zenon
  <2> QED BY <2>1
<1>5. DOMAIN w.pool = PoolFields /\ \A f \in PoolFields \ {"creator_fees"} : w.pool[f] = PoolOf(w)[f]
  BY <1>1, <1>3
<1> QED BY <1>2, <1>4, <1>5, Zenon DEF PoolMatches

LEMMA NewPoolSound ==
  ASSUME NEW w, Sound(w), ~w.pool.exists, w.curve.complete, NEW v, World(v),
         v.pool = PoolOf(w), v.curve = w.curve, v.price = w.price,
         v.shareholders = w.shareholders, DOMAIN w.ledger \subseteq DOMAIN v.ledger
  PROVE  Sound(v) /\ Frame(w, v)
<1>1. PoolOf(v) = PoolOf(w)
  BY DEF PoolOf, Quote, PoolKey, QuoteAta
<1>2. PoolMatches(v)
  BY <1>1, NewPoolMatches
<1> QED BY <1>2 DEF Sound, Frame

LEMMA MigrateV2Kept ==
  ASSUME NEW w, Sound(w), NEW ix
  PROVE  Kept(w, ExecMigrateV2(w, ix))
<1> SUFFICES ASSUME ExecMigrateV2(w, ix).err = "none"
             PROVE  Sound(ExecMigrateV2(w, ix)) /\ Frame(w, ExecMigrateV2(w, ix))
  BY DEF Kept
<1>1. DOMAIN w = Fields /\ World(w)
  BY DEF Sound, World
<1> DEFINE opened == {ix.a.pool_base_token_account, ix.a.pool_quote_token_account}
           p == PoolOf(w)
           m == [w EXCEPT !.pool = p]
           v == Open(m, opened)
<1>2. w.curve.complete /\ ~w.pool.exists /\ ExecMigrateV2(w, ix) = v
  BY <1>1, SMTT(20) DEF ExecMigrateV2, Refuse, Fields
<1> HIDE DEF p, opened
<1>4. /\ World(m) /\ m.curve = w.curve /\ m.pool = p /\ m.price = w.price
      /\ m.shareholders = w.shareholders /\ m.ledger = w.ledger
  BY <1>1 DEF World, Fields
<1> HIDE DEF m
<1>5. LedgerOnly(m, v)
  BY <1>4, Opens
<1> HIDE DEF v
<1>6. /\ World(v) /\ v.curve = w.curve /\ v.pool = PoolOf(w) /\ v.price = w.price
      /\ v.shareholders = w.shareholders /\ DOMAIN w.ledger \subseteq DOMAIN v.ledger
  BY <1>4, <1>5 DEF LedgerOnly, p
<1> QED BY <1>2, <1>6, NewPoolSound

LEMMA SweepCreatorFeeKept ==
  ASSUME NEW w, Sound(w), NEW ix
  PROVE  LET v == ExecSweepCreatorFee(w, ix)
         IN  /\ Kept(w, v)
             /\ v.err = "none" => v.curve.creator_fee = 0 /\ v.pool = w.pool
<1> SUFFICES ASSUME ExecSweepCreatorFee(w, ix).err = "none"
             PROVE  LET v == ExecSweepCreatorFee(w, ix)
                    IN  /\ Sound(v) /\ Frame(w, v)
                        /\ v.curve.creator_fee = 0 /\ v.pool = w.pool
  BY DEF Kept
<1> DEFINE n == w.curve.creator_fee
           to == IF Quote(w) = NATIVE_MINT THEN ix.a.recipient
                 ELSE ix.a.associated_quote_recipient
           c == [w.curve EXCEPT !.creator_fee = 0]
           m == [w EXCEPT !.curve.creator_fee = 0]
           v == Credit(m, to, n)
<1>1. DOMAIN w = Fields /\ World(w) /\ n \in Nat
  BY DEF Sound, World, CurveShape
<1>2. ExecSweepCreatorFee(w, ix) = IF n = 0 THEN w ELSE v
  BY <1>1, SMTT(20) DEF ExecSweepCreatorFee, Refuse, Fields
<1>3. CASE n = 0
  <2>1. LedgerOnly(w, w)
    BY <1>1 DEF LedgerOnly
  <2> QED BY <1>2, <1>3, <2>1, LedgerOnlySound
<1>4. CASE n # 0
  <2>1. /\ DOMAIN m = Fields /\ m.curve = [w.curve EXCEPT !.creator_fee = 0]
        /\ m.ledger = w.ledger /\ m.pool = w.pool /\ m.price = w.price
        /\ m.shareholders = w.shareholders
    BY <1>1 DEF Fields
  <2> HIDE DEF m, n, to
  <2>2. Sound(m) /\ Frame(w, m) /\ m.curve.creator_fee = 0
    BY <2>1, CurveFeeSound
  <2>3. LedgerOnly(m, v)
    BY <1>1, <2>2, Credits DEF Sound
  <2> HIDE DEF v
  <2>4. Sound(v) /\ Frame(m, v) /\ v.curve = m.curve /\ v.pool = m.pool /\ v.price = m.price
    BY <2>2, <2>3, LedgerOnlySound DEF LedgerOnly
  <2>5. Frame(w, v)
    BY <2>2, <2>4 DEF Frame
  <2> QED BY <1>2, <1>4, <2>1, <2>2, <2>4, <2>5
<1> QED BY <1>3, <1>4

LEMMA SweepPoolCreatorFeeKept ==
  ASSUME NEW w, Sound(w), NEW ix
  PROVE  LET v == ExecSweepPoolCreatorFee(w, ix)
         IN  /\ Kept(w, v)
             /\ v.err = "none" => v.pool.creator_fees = 0 /\ v.curve = w.curve
<1> SUFFICES ASSUME ExecSweepPoolCreatorFee(w, ix).err = "none"
             PROVE  LET v == ExecSweepPoolCreatorFee(w, ix)
                    IN  /\ Sound(v) /\ Frame(w, v)
                        /\ v.pool.creator_fees = 0 /\ v.curve = w.curve
  BY DEF Kept
<1> DEFINE n == w.pool.creator_fees
           to == ix.a.recipient_token_account
           m == [w EXCEPT !.pool.creator_fees = 0]
           v == Credit(m, to, n)
<1>1. DOMAIN w = Fields /\ World(w) /\ n \in Nat
  BY DEF Sound, World, PoolMatches
<1>2. ExecSweepPoolCreatorFee(w, ix) = v /\ w.pool.exists
  BY <1>1, SMTT(20) DEF ExecSweepPoolCreatorFee, Refuse, Fields
<1>3. /\ DOMAIN m = Fields /\ m.pool = [w.pool EXCEPT !.creator_fees = 0]
      /\ m.ledger = w.ledger /\ m.curve = w.curve /\ m.price = w.price
      /\ m.shareholders = w.shareholders
  BY <1>1 DEF Fields
<1> HIDE DEF m, n, to
<1>4. Sound(m) /\ Frame(w, m) /\ m.pool.creator_fees = 0
  BY <1>2, <1>3, PoolFeeSound
<1>5. LedgerOnly(m, v)
  BY <1>1, <1>4, Credits DEF Sound
<1> HIDE DEF v
<1>6. Sound(v) /\ Frame(m, v) /\ v.curve = m.curve /\ v.pool = m.pool /\ v.price = m.price
  BY <1>4, <1>5, LedgerOnlySound DEF LedgerOnly
<1>7. Frame(w, v)
  BY <1>4, <1>6 DEF Frame
<1> QED BY <1>2, <1>3, <1>4, <1>6, <1>7

LEMMA CollectKept ==
  ASSUME NEW w, Sound(w), NEW ix
  PROVE  /\ Kept(w, ExecCollectCreatorFee(w, ix))
         /\ Kept(w, ExecCollectCoinCreatorFee(w, ix))
         /\ Kept(w, ExecClaimCashback(w, ix))
<1>1. DOMAIN w = Fields /\ World(w)
  BY DEF Sound, World
<1>2. \A from, to : LedgerOnly(w, MoveAll(w, from, to))
  BY <1>1, MovesAll
<1>3. \A from, to : Sound(MoveAll(w, from, to)) /\ Frame(w, MoveAll(w, from, to))
  BY <1>2, LedgerOnlySound
<1>4. ASSUME ExecCollectCreatorFee(w, ix).err = "none"
      PROVE  \/ ExecCollectCreatorFee(w, ix) = MoveAll(w, ix.a.creator_vault, ix.a.creator)
             \/ ExecCollectCreatorFee(w, ix)
                  = MoveAll(w, ix.a.creator_vault_token_account, ix.a.creator_token_account)
  BY <1>1, <1>4 DEF ExecCollectCreatorFee, Refuse, Fields
<1>5. ASSUME ExecCollectCoinCreatorFee(w, ix).err = "none"
      PROVE  ExecCollectCoinCreatorFee(w, ix)
               = MoveAll(w, ix.a.coin_creator_vault_ata, ix.a.coin_creator_token_account)
  BY <1>1, <1>5 DEF ExecCollectCoinCreatorFee, Refuse, Fields
<1>6. Kept(w, ExecCollectCreatorFee(w, ix))
  BY <1>3, <1>4 DEF Kept
<1>7. Kept(w, ExecCollectCoinCreatorFee(w, ix))
  BY <1>3, <1>5 DEF Kept
<1>8. Kept(w, ExecClaimCashback(w, ix))
  BY <1>3 DEF Kept, ExecClaimCashback
<1> QED BY <1>6, <1>7, <1>8

LEMMA TransferToPumpKept ==
  ASSUME NEW w, Sound(w), NEW creator
  PROVE  LedgerOnly(w, ToPumpVault(w, creator))
BY MovesAll DEF Sound, ToPumpVault

(* What a distribution or a share update that is not refused has checked.    *)
LEMMA Checked ==
  ASSUME NEW w, DOMAIN w = Fields, NEW vault, NEW given, NEW rest,
         SharesChecked(w, vault, given, rest).err = "none"
  PROVE  /\ SharesChecked(w, vault, given, rest) = rest
         /\ w.curve.creator = SharingConfig(Mint) /\ ~(w.curve.creator_fee > 0)
BY SMTT(20) DEF SharesChecked, Refuse, Fields

LEMMA DistributeKept ==
  ASSUME NEW w, Sound(w), NEW ix
  PROVE  Kept(w, ExecDistribute(w, ix))
<1> SUFFICES ASSUME ExecDistribute(w, ix).err = "none"
             PROVE  Sound(ExecDistribute(w, ix)) /\ Frame(w, ExecDistribute(w, ix))
  BY DEF Kept
<1> DEFINE ata == ix.a.creator_vault_quote_token_account
           token == Quote(w) # NATIVE_MINT
           m == IF token THEN Credit(w, ata, 0) ELSE w
           v == Distribute(m, w.shareholders)
           short == token /\ ~ix.args.initialize_ata /\ ~Has(w, ata)
           rest == Refuse(w, short, "AccountNotInitialized", v)
<1>1. DOMAIN w = Fields /\ World(w)
  BY DEF Sound, World
<1>2. ExecDistribute(w, ix) = SharesChecked(w, ix.a.creator_vault, ix.rest, rest)
  BY Zenon DEF ExecDistribute
<1> HIDE DEF rest
<1>3. ExecDistribute(w, ix) = rest /\ w.curve.creator = SharingConfig(Mint)
  BY <1>1, <1>2, Checked
<1> HIDE DEF m
<1>4. rest = v
  BY <1>1, <1>3 DEF rest, Refuse, Fields
<1>5. LedgerOnly(w, m)
  <2>1. LedgerOnly(w, w) /\ LedgerOnly(w, Credit(w, ata, 0))
    BY <1>1, Credits DEF LedgerOnly
  <2> QED BY <2>1 DEF m
<1>6. w.shareholders \in Holders
  BY <1>3 DEF Sound
<1>7. LedgerOnly(m, v)
  BY <1>5, <1>6, Distributes DEF LedgerOnly
<1> HIDE DEF v
<1>8. LedgerOnly(w, v)
  BY <1>5, <1>7 DEF LedgerOnly
<1> QED BY <1>3, <1>4, <1>8, LedgerOnlySound

LEMMA UpdateFeeSharesKept ==
  ASSUME NEW w, Sound(w), NEW ix, ix.args.shareholders \in Holders
  PROVE  Kept(w, ExecUpdateFeeShares(w, ix))
<1> SUFFICES ASSUME ExecUpdateFeeShares(w, ix).err = "none"
             PROVE  Sound(ExecUpdateFeeShares(w, ix)) /\ Frame(w, ExecUpdateFeeShares(w, ix))
  BY DEF Kept
<1> DEFINE m == ToPumpVault(w, w.curve.creator)
           d == Distribute(m, w.shareholders)
           v == [d EXCEPT !.shareholders = ix.args.shareholders]
           rest == Refuse(w, ix.a.quote_mint # Quote(w), "ConstraintSeeds",
                   Refuse(w, w.curve.complete /\ Last(ix.rest) # PoolKey(w),
                          "NotEnoughRemainingAccounts",
                   Refuse(w, w.pool.exists /\ w.pool.creator_fees > 0,
                          "PoolCreatorFeesNotSwept", v)))
<1>1. DOMAIN w = Fields /\ World(w)
  BY DEF Sound, World
<1>2. ExecUpdateFeeShares(w, ix)
        = SharesChecked(w, ix.a.keys.pump_creator_vault, ix.rest, rest)
  BY Zenon DEF ExecUpdateFeeShares
<1> HIDE DEF rest
<1>3. ExecUpdateFeeShares(w, ix) = rest /\ w.curve.creator = SharingConfig(Mint)
  BY <1>1, <1>2, Checked
<1> HIDE DEF m, v
<1>4. rest = v
  BY <1>1, <1>3 DEF rest, Refuse, Fields
<1>5. LedgerOnly(w, m)
  BY TransferToPumpKept DEF m
<1>6. w.shareholders \in Holders
  BY <1>3 DEF Sound
<1>7. LedgerOnly(m, d)
  BY <1>5, <1>6, Distributes DEF LedgerOnly
<1> HIDE DEF d
<1>8. LedgerOnly(w, d) /\ DOMAIN d = Fields
  BY <1>5, <1>7 DEF LedgerOnly, World
<1>9. Sound(d) /\ Frame(w, d)
  BY <1>8, LedgerOnlySound
<1>10. /\ DOMAIN v = Fields /\ v.ledger = d.ledger /\ v.curve = d.curve /\ v.pool = d.pool
       /\ v.price = d.price /\ v.shareholders = ix.args.shareholders
  BY <1>8 DEF v, Fields
<1>11. PoolOf(v) = PoolOf(d)
  BY <1>10 DEF PoolOf, Quote, PoolKey, QuoteAta
<1>12. Sound(v)
  BY <1>9, <1>10, <1>11 DEF Sound, World, PoolMatches
<1>13. Frame(w, v)
  BY <1>9, <1>10 DEF Frame
<1> QED BY <1>3, <1>4, <1>12, <1>13

LEMMA ExecKept ==
  ASSUME NEW w, Sound(w), w.err = "none", NEW ix, Known(ix)
  PROVE  Kept(w, Exec(w, ix))
<1>1. LedgerOnly(w, w)
  BY DEF LedgerOnly, Sound
<1>2. Kept(w, w)
  BY <1>1, LedgerOnlySound DEF Kept
<1>3. CASE ix.op \in TradeOps
  <2>1. ix.args.limit \in Nat
    BY <1>3 DEF Known
  <2>2. CASE ix.op \in {"buy_v2", "buy_exact_quote_in_v2", "sell_v2"}
    BY <2>1, <2>2, Dispatch, CurveV2Kept
  <2>3. CASE ix.op \in {"buy", "sell"}
    BY <2>1, <2>3, Dispatch, LegacyKept
  <2>4. CASE ix.op \in {"buy_v3", "buy_exact_quote_in_v3", "sell_v3"}
    BY <2>1, <2>4, Dispatch, CurveV3Kept
  <2>5. CASE ix.op \in {"buy_amm", "sell_amm"}
    BY <2>1, <2>5, Dispatch, AmmKept
  <2>6. CASE ix.op \in {"buy_amm_v2", "buy_exact_quote_in_amm_v2", "sell_amm_v2"}
    BY <2>1, <2>6, Dispatch, AmmV2Kept
  <2>7. CASE ix.op = "multi_hop_swap"
    BY <2>1, <2>7, Dispatch, MultiHopKept
  <2> QED BY <1>3, <2>2, <2>3, <2>4, <2>5, <2>6, <2>7 DEF TradeOps
<1>4. CASE ix.op \in UpdateOps
  <2>1. ix.args.shareholders \in Holders
    BY <1>4 DEF Known
  <2> QED BY <1>4, <2>1, Dispatch, UpdateFeeSharesKept
<1>5. CASE ix.op = "create_ata"
  BY <1>5, Dispatch, CreateAtaKept
<1>6. CASE ix.op = "transfer"
  BY <1>6, Dispatch, TransferKept DEF Known
<1>7. CASE ix.op = "sync_native"
  BY <1>7, Dispatch, SyncNativeKept
<1>8. CASE ix.op = "close_account"
  BY <1>8, Dispatch, CloseAccountKept DEF Known
<1>9. CASE ix.op = "create"
  BY <1>9, Dispatch, CreateKept DEF Known
<1>10. CASE ix.op = "create_v2"
  BY <1>10, Dispatch, CreateV2Kept DEF Known
<1>11. CASE ix.op = "agent_initialize"
  <2>1. Exec(w, ix).err = "AgentInitializationNotSupported"
    BY <1>11, Dispatch DEF Sound, World, Fields
  <2> QED BY <2>1 DEF Kept
<1>12. CASE ix.op = "extend_account"
  BY <1>2, <1>12, Dispatch
<1>13. CASE ix.op = "migrate_v2"
  BY <1>13, Dispatch, MigrateV2Kept
<1>14. CASE ix.op = "sweep_creator_fee"
  BY <1>14, Dispatch, SweepCreatorFeeKept
<1>15. CASE ix.op = "sweep_pool_creator_fee"
  BY <1>15, Dispatch, SweepPoolCreatorFeeKept
<1>16. CASE ix.op = "collect_creator_fee_v2"
  BY <1>16, Dispatch, CollectKept
<1>17. CASE ix.op = "collect_coin_creator_fee"
  BY <1>17, Dispatch, CollectKept
<1>18. CASE ix.op = "transfer_creator_fees_to_pump_v2"
  <2>1. Exec(w, ix) = ToPumpVault(w, ix.a.coin_creator)
    BY <1>18, Dispatch DEF ExecTransferToPump
  <2> QED BY <2>1, TransferToPumpKept, LedgerOnlySound DEF Kept
<1>19. CASE ix.op = "distribute_creator_fees_v2"
  BY <1>19, Dispatch, DistributeKept
<1>20. CASE ix.op = "claim_cashback_v2"
  BY <1>20, Dispatch, CollectKept
<1> QED
  BY <1>3, <1>4, <1>5, <1>6, <1>7, <1>8, <1>9, <1>10, <1>11, <1>12, <1>13, <1>14, <1>15, <1>16,
     <1>17, <1>18, <1>19, <1>20 DEF Known, Ops

LEMMA FrameThrough ==
  ASSUME NEW u, NEW v, NEW w, Sound(v), Frame(u, v), Frame(v, w)
  PROVE  Frame(u, w)
<1>1. "exists" \in CurveFields \ {"creator_fee"} /\ "exists" \in PoolFields \ {"creator_fees"}
  BY DEF CurveFields, PoolFields
<1> QED BY <1>1 DEF Frame

(* A list that runs to its end keeps the coin sound, after every step of it. *)
LEMMA TraceKept ==
  ASSUME NEW w, Sound(w), w.err = "none", NEW list, Len(list) \in Nat,
         \A i \in 1..Len(list) : Known(list[i])
  PROVE  \A i \in 0..Len(list) : Kept(w, Trace(w, list)[i])
<1> DEFINE n == Len(list)
           P == Trace(w, list)
           Good == {i \in 0..n : Kept(w, P[i])}
<1>1. 0 \in Good
  <2>1. P[0] = w
    BY RunSteps
  <2>2. LedgerOnly(w, w)
    BY DEF LedgerOnly, Sound
  <2> QED BY <2>1, <2>2, LedgerOnlySound DEF Kept
<1>2. ASSUME NEW i \in 1..n, i - 1 \in Good PROVE i \in Good
  <2> DEFINE v == P[i - 1]
  <2>1. P[i] = Step(v, list[i])
    BY RunSteps
  <2>2. Kept(w, v) /\ Known(list[i])
    BY <1>2
  <2> HIDE DEF v, P
  <2>3. CASE v.err # "none"
    BY <2>1, <2>2, <2>3 DEF Step, Good
  <2>4. CASE v.err = "none"
    <3>1. P[i] = Exec(v, list[i]) /\ Sound(v) /\ Frame(w, v)
      BY <2>1, <2>2, <2>4 DEF Step, Kept
    <3>2. Kept(v, P[i])
      BY <2>2, <2>4, <3>1, ExecKept
    <3>3. Kept(w, P[i])
      BY <3>1, <3>2, FrameThrough DEF Kept
    <3> QED BY <3>3 DEF Good
  <2> QED BY <2>3, <2>4
<1> HIDE DEF Good
<1>3. \A i \in 0..n : i \in Good
  BY <1>1, <1>2, Along
<1> QED BY <1>3 DEF Good

LEMMA RunKept ==
  ASSUME NEW w, Sound(w), w.err = "none", NEW list, Len(list) \in Nat,
         \A i \in 1..Len(list) : Known(list[i])
  PROVE  Kept(w, Run(w, list))
<1>1. Len(list) \in 0..Len(list)
  OBVIOUS
<1> QED BY <1>1, TraceKept DEF Run

(* ---- the lists ---- *)
Fits(list) == IsSeq(list) /\ \A i \in DOMAIN list : Known(list[i])

LEMMA FitsNone ==
  Fits(<<>>)
BY DEF Fits, IsSeq

LEMMA FitsOne ==
  ASSUME NEW a, Known(a)
  PROVE  Fits(<<a>>)
<1>1. DOMAIN <<a>> = {1} /\ <<a>>[1] = a
  OBVIOUS
<1>2. a \in ToSet(<<a>>)
  BY <1>1 DEF ToSet
<1>3. IsSeq(<<a>>)
  BY <1>2 DEF IsSeq
<1> QED BY <1>1, <1>3 DEF Fits

LEMMA FitsTwo ==
  ASSUME NEW a, NEW b, Known(a), Known(b)
  PROVE  Fits(<<a, b>>)
<1>1. DOMAIN <<a, b>> = {1, 2} /\ <<a, b>>[1] = a /\ <<a, b>>[2] = b
  OBVIOUS
<1>2. a \in ToSet(<<a, b>>) /\ b \in ToSet(<<a, b>>)
  BY <1>1 DEF ToSet
<1>3. IsSeq(<<a, b>>)
  BY <1>2 DEF IsSeq
<1> QED BY <1>1, <1>3 DEF Fits

LEMMA IsSeqConcat ==
  ASSUME NEW l, NEW m, IsSeq(l), IsSeq(m)
  PROVE  /\ IsSeq(l \o m)
         /\ Len(l) \in Nat /\ Len(m) \in Nat /\ Len(l \o m) = Len(l) + Len(m)
         /\ DOMAIN l = 1..Len(l) /\ DOMAIN m = 1..Len(m)
         /\ DOMAIN (l \o m) = 1..(Len(l) + Len(m))
         /\ \A i \in DOMAIN l : (l \o m)[i] = l[i]
         /\ \A i \in DOMAIN m : (l \o m)[Len(l) + i] = m[i]
<1> DEFINE S == ToSet(l) \cup ToSet(m)
           c == l \o m
<1>1. l \in Seq(S) /\ m \in Seq(S)
  BY SeqMonotonic DEF IsSeq
<1> HIDE DEF S
<1>2. /\ Len(l) \in Nat /\ Len(m) \in Nat /\ c \in Seq(S) /\ Len(c) = Len(l) + Len(m)
      /\ DOMAIN l = 1..Len(l) /\ DOMAIN m = 1..Len(m)
      /\ \A i \in 1..(Len(l) + Len(m)) : c[i] = IF i <= Len(l) THEN l[i] ELSE m[i - Len(l)]
  BY <1>1, ConcatProperties, LenProperties
<1> HIDE DEF c
<1>3. DOMAIN c = 1..Len(c) /\ Len(c) \in Nat
  BY <1>2, LenProperties
<1>4. \A i \in DOMAIN c : c[i] \in ToSet(c)
  BY DEF ToSet
<1>5. IsSeq(c)
  BY <1>2, <1>3, <1>4 DEF IsSeq
<1>6. \A i \in DOMAIN l : c[i] = l[i]
  BY <1>2
<1>7. \A i \in DOMAIN m : c[Len(l) + i] = m[i]
  <2> TAKE i \in DOMAIN m
  <2>1. Len(l) + i \in 1..(Len(l) + Len(m)) /\ ~(Len(l) + i <= Len(l)) /\ Len(l) + i - Len(l) = i
    BY <1>2
  <2> QED BY <1>2, <2>1
<1> QED BY <1>2, <1>3, <1>5, <1>6, <1>7 DEF c

LEMMA ConcatAll ==
  ASSUME NEW l, NEW m, IsSeq(l), IsSeq(m), NEW Good,
         \A i \in DOMAIN l : l[i] \in Good, \A i \in DOMAIN m : m[i] \in Good
  PROVE  \A i \in DOMAIN (l \o m) : (l \o m)[i] \in Good
<1> DEFINE c == l \o m
<1>1. /\ Len(l) \in Nat /\ Len(m) \in Nat
      /\ DOMAIN l = 1..Len(l) /\ DOMAIN m = 1..Len(m) /\ DOMAIN c = 1..(Len(l) + Len(m))
      /\ \A i \in DOMAIN l : c[i] = l[i]
      /\ \A i \in DOMAIN m : c[Len(l) + i] = m[i]
  BY IsSeqConcat
<1> HIDE DEF c
<1>2. ASSUME NEW i \in DOMAIN c PROVE c[i] \in Good
  <2>1. CASE i \in DOMAIN l
    BY <1>1, <2>1
  <2>2. CASE i \notin DOMAIN l
    <3>1. i - Len(l) \in DOMAIN m /\ Len(l) + (i - Len(l)) = i
      BY <1>1, <2>2
    <3> QED BY <1>1, <3>1
  <2> QED BY <2>1, <2>2
<1> QED BY <1>2 DEF c

LEMMA FitsConcat ==
  ASSUME NEW l, NEW m, Fits(l), Fits(m)
  PROVE  Fits(l \o m)
<1> DEFINE Good == {ix \in ToSet(l) \cup ToSet(m) : Known(ix)}
<1>1. \A i \in DOMAIN l : l[i] \in Good
  BY DEF Fits, ToSet
<1>2. \A i \in DOMAIN m : m[i] \in Good
  BY DEF Fits, ToSet
<1> HIDE DEF Good
<1>3. \A i \in DOMAIN (l \o m) : (l \o m)[i] \in Good
  BY <1>1, <1>2, ConcatAll DEF Fits
<1> QED BY <1>3, IsSeqConcat DEF Fits, Good

LEMMA FitsAppend ==
  ASSUME NEW l, NEW a, Fits(l), Known(a)
  PROVE  Append(l, a) = l \o <<a>> /\ Fits(Append(l, a))
<1>1. Append(l, a) = l \o <<a>>
  <2> DEFINE S == ToSet(l) \cup {a}
  <2>1. l \in Seq(S) /\ a \in S
    BY SeqMonotonic DEF IsSeq, Fits
  <2> HIDE DEF S
  <2> QED BY <2>1, AppendIsConcat
<1> QED BY <1>1, FitsOne, FitsConcat

LEMMA FitsMapped ==
  ASSUME NEW holders, IsSeq(holders), NEW s, DOMAIN s = DOMAIN holders,
         s = [i \in DOMAIN s |-> s[i]], \A i \in DOMAIN s : Known(s[i])
  PROVE  Fits(s)
<1>1. Len(holders) \in Nat /\ DOMAIN s = 1..Len(holders)
  BY LenProperties DEF IsSeq
<1>2. \A i \in DOMAIN s : s[i] \in ToSet(s)
  BY DEF ToSet
<1>3. s \in Seq(ToSet(s))
  <2> DEFINE S == ToSet(s)
  <2>1. s \in [1..Len(holders) -> S]
    BY <1>1, <1>2
  <2> HIDE DEF S
  <2>2. s \in Seq(S)
    BY <1>1, <2>1
  <2> QED BY <2>2 DEF S
<1> QED BY <1>3 DEF Fits, IsSeq

(* ---- the instructions and lists of each builder ---- *)
LEMMA KnownCreateAta ==
  ASSUME NEW payer, NEW owner, NEW mint, NEW program
  PROVE  Known(CreateAta(payer, owner, mint, program))
BY DEF Known, CreateAta, Ix, Ops, TradeOps, UpdateOps

LEMMA KnownTrade ==
  ASSUME NEW op \in TradeOps, NEW a, NEW rest, NEW amount, NEW limit \in Nat
  PROVE  Known(Ix(op, a, rest, Amounts(amount, limit)))
BY DEF Known, Ix, Amounts, Ops, TradeOps, UpdateOps

Plain == Ops \ (TradeOps \cup UpdateOps
                \cup {"transfer", "close_account", "create", "create_v2"})

LEMMA KnownPlain ==
  ASSUME NEW op \in Plain, NEW a, NEW rest, NEW args
  PROVE  Known(Ix(op, a, rest, args))
BY DEF Known, Ix, Plain

LEMMA UserTradeAtasFits ==
  ASSUME NEW keys, NEW curve, NEW base \in BOOLEAN
  PROVE  Fits(UserTradeAtas(keys, curve, base))
<1> DEFINE Create(owner) == <<CreateAta(keys.user, owner, curve.quote_mint, keys.quote_program)>>
           first == IF base
                    THEN <<CreateAta(keys.user, keys.user, keys.base_mint, TOKEN_2022)>> ELSE <<>>
           last == IF curve.is_cashback_coin THEN Create(UserVolumeAccumulator(keys.user)) ELSE <<>>
           c1 == Create(keys.user)
           c2 == Create(curve.creator)
           c3 == Create(BondingCurvePda(keys.base_mint))
           rest == IF curve.quote_mint \in {DEFAULT_KEY, NATIVE_MINT} THEN <<>>
                   ELSE c1 \o c2 \o c3 \o last
<1>1. UserTradeAtas(keys, curve, base) = first \o rest
  BY Zenon DEF UserTradeAtas
<1>2. Fits(first) /\ Fits(last) /\ Fits(c1) /\ Fits(c2) /\ Fits(c3)
  BY FitsNone, FitsOne, KnownCreateAta
<1> HIDE DEF first, last, c1, c2, c3
<1>3. Fits(c1 \o c2 \o c3 \o last)
  <2>1. Fits(c1 \o c2)
    BY <1>2, FitsConcat
  <2>2. Fits(c1 \o c2 \o c3)
    BY <1>2, <2>1, FitsConcat
  <2> QED BY <1>2, <2>2, FitsConcat
<1>4. Fits(rest)
  BY <1>3, FitsNone DEF rest
<1> HIDE DEF rest
<1> QED BY <1>1, <1>2, <1>4, FitsConcat

AllFit(lists) == \A list \in lists : Fits(list)

LEMMA V2Fits ==
  ASSUME NEW global, NEW curve, NEW keys, NEW amount, NEW limit \in Nat
  PROVE  /\ AllFit(BuyV2Instructions(global, curve, keys, amount, limit))
         /\ AllFit(SellV2Instructions(global, curve, keys, amount, limit))
         /\ AllFit(BuyExactQuoteInV2Instructions(global, curve, keys, amount, limit))
<1>1. /\ \A ix \in BuyV2Instruction(global, curve, keys, amount, limit) : Known(ix)
      /\ \A ix \in SellV2Instruction(global, curve, keys, amount, limit) : Known(ix)
      /\ \A ix \in BuyExactQuoteInV2Instruction(global, curve, keys, amount, limit) : Known(ix)
  <2>1. {"buy_v2", "sell_v2", "buy_exact_quote_in_v2"} \subseteq TradeOps
    BY DEF TradeOps
  <2>2. \A op \in TradeOps : \A a : Known(Ix(op, a, <<>>, Amounts(amount, limit)))
    BY KnownTrade
  <2> QED
    BY <2>1, <2>2
       DEF BuyV2Instruction, SellV2Instruction, BuyExactQuoteInV2Instruction, V2Trade
<1>2. Fits(UserTradeAtas(keys, curve, TRUE)) /\ Fits(UserTradeAtas(keys, curve, FALSE))
  BY UserTradeAtasFits
<1> QED
  BY <1>1, <1>2, FitsAppend
     DEF AllFit, BuyV2Instructions, SellV2Instructions, BuyExactQuoteInV2Instructions

LEMMA V3Fits ==
  ASSUME NEW keys, NEW quote, NEW buyback, NEW amount, NEW limit \in Nat
  PROVE  /\ Fits(BuyV3Instructions(keys, quote, buyback, amount, limit))
         /\ Fits(SellV3Instructions(keys, quote, buyback, amount, limit))
         /\ Fits(BuyExactQuoteInV3Instructions(keys, quote, buyback, amount, limit))
<1>1. \A op \in TradeOps : \A a : Known(Ix(op, a, <<>>, Amounts(amount, limit)))
  BY KnownTrade
<1>2. ASSUME NEW base \in BOOLEAN, NEW trade, Known(trade)
      PROVE  Fits(WithUserAtas(keys, quote, buyback, base, trade))
  <2> DEFINE q == ResolveQuoteMint(quote)
             first == IF base
                      THEN <<CreateAta(keys.user, keys.user, keys.base_mint, keys.base_program)>>
                      ELSE <<>>
             second == IF q = NATIVE_MINT THEN <<>>
                       ELSE <<CreateAta(keys.user, keys.user, q, keys.quote_program),
                              CreateAta(keys.user, buyback, q, keys.quote_program)>>
  <2>1. WithUserAtas(keys, quote, buyback, base, trade) = first \o second \o <<trade>>
    BY Zenon DEF WithUserAtas
  <2>2. Fits(first) /\ Fits(second) /\ Fits(<<trade>>)
    BY <1>2, FitsNone, FitsOne, FitsTwo, KnownCreateAta
  <2> HIDE DEF first, second
  <2>3. Fits(first \o second)
    BY <2>2, FitsConcat
  <2> QED BY <2>1, <2>2, <2>3, FitsConcat
<1>3. {"buy_v3", "sell_v3", "buy_exact_quote_in_v3"} \subseteq TradeOps
  BY DEF TradeOps
<1> QED
  BY <1>1, <1>2, <1>3
     DEF BuyV3Instructions, SellV3Instructions, BuyExactQuoteInV3Instructions

LEMMA AmmFits ==
  ASSUME NEW key, NEW config, NEW state, NEW keys, NEW amount, NEW limit \in Nat
  PROVE  /\ AllFit(BuyAmmInstructions(key, config, state, keys, amount, limit))
         /\ AllFit(SellAmmInstructions(key, config, state, keys, amount, limit))
<1>1. \A op \in TradeOps : \A a, rest : Known(Ix(op, a, rest, Amounts(amount, limit)))
  BY KnownTrade
<1>2. {"buy_amm", "sell_amm"} \subseteq TradeOps
  BY DEF TradeOps
<1>3. /\ \A ix \in BuyAmmInstruction(key, config, state, keys, amount, limit) : Known(ix)
      /\ \A ix \in SellAmmInstruction(key, config, state, keys, amount, limit) : Known(ix)
  BY <1>1, <1>2 DEF BuyAmmInstruction, SellAmmInstruction, AmmTrade
<1> QED
  BY <1>3, FitsTwo, KnownCreateAta DEF AllFit, BuyAmmInstructions, SellAmmInstructions

LEMMA AmmV2Fits ==
  ASSUME NEW state, NEW keys, NEW buyback, NEW amount, NEW limit \in Nat
  PROVE  /\ Fits(BuyAmmV2Instructions(state, keys, buyback, amount, limit))
         /\ Fits(SellAmmV2Instructions(state, keys, buyback, amount, limit))
         /\ Fits(<<BuyExactQuoteInAmmV2Instruction(state, keys, buyback, amount, limit)>>)
<1>1. \A op \in TradeOps : \A a, rest : Known(Ix(op, a, rest, Amounts(amount, limit)))
  BY KnownTrade
<1>2. {"buy_amm_v2", "sell_amm_v2", "buy_exact_quote_in_amm_v2"} \subseteq TradeOps
  BY DEF TradeOps
<1>3. \A op \in TradeOps :
        Known(AmmV2Instruction(op, state, keys, buyback, Amounts(amount, limit)))
  BY <1>1 DEF AmmV2Instruction
<1> QED
  BY <1>2, <1>3, FitsOne, FitsTwo, KnownCreateAta
     DEF BuyAmmV2Instructions, SellAmmV2Instructions, BuyExactQuoteInAmmV2Instruction

LEMMA MultiHopFits ==
  ASSUME NEW user, NEW mint, NEW p, NEW q, NEW hops, NEW buyback, NEW amount, NEW limit \in Nat
  PROVE  AllFit(MultiHopSwapInstructions(user, mint, p, q, hops, buyback, amount, limit))
<1>1. \A op \in TradeOps : \A a, rest : Known(Ix(op, a, rest, Amounts(amount, limit)))
  BY KnownTrade
<1>2. "multi_hop_swap" \in TradeOps
  BY DEF TradeOps
<1>3. \A payer, owner, m, program : Known(CreateAta(payer, owner, m, program))
  BY KnownCreateAta
<1> SUFFICES ASSUME NEW list \in MultiHopSwapInstructions(user, mint, p, q, hops, buyback,
                                                         amount, limit)
             PROVE  Fits(list)
  BY DEF AllFit
<1>4. PICK is_buy \in MultiHopRoute(mint, hops) :
        LET out_mint == Reached(mint, hops, is_buy, Len(hops))
            fee_mint == IF is_buy THEN mint ELSE out_mint
            fee_program == IF is_buy THEN p ELSE q
            on_sol_curve == /\ is_buy
                            /\ mint = NATIVE_MINT
                            /\ hops[1].venue = BondingCurvePda(hops[1].base_mint)
        IN  list = <<CreateAta(user, buyback, fee_mint, fee_program)>>
               \o (IF on_sol_curve THEN <<CreateAta(user, user, mint, p)>> ELSE <<>>)
               \o <<CreateAta(user, user, out_mint, q),
                    Ix("multi_hop_swap",
                       [user |-> user,
                        user_in_token_account |-> AssociatedToken(user, p, mint),
                        user_out_token_account |-> AssociatedToken(user, q, out_mint),
                        buyback_fee_recipient |-> AssociatedToken(buyback, fee_program, fee_mint)],
                       hops, Amounts(amount, limit))>>
  BY Zenon DEF MultiHopSwapInstructions
<1> DEFINE out_mint == Reached(mint, hops, is_buy, Len(hops))
           fee_mint == IF is_buy THEN mint ELSE out_mint
           fee_program == IF is_buy THEN p ELSE q
           on_sol_curve == /\ is_buy
                           /\ mint = NATIVE_MINT
                           /\ hops[1].venue = BondingCurvePda(hops[1].base_mint)
           a == CreateAta(user, buyback, fee_mint, fee_program)
           m == IF on_sol_curve THEN <<CreateAta(user, user, mint, p)>> ELSE <<>>
           c == CreateAta(user, user, out_mint, q)
           accounts == [user |-> user,
                        user_in_token_account |-> AssociatedToken(user, p, mint),
                        user_out_token_account |-> AssociatedToken(user, q, out_mint),
                        buyback_fee_recipient |-> AssociatedToken(buyback, fee_program, fee_mint)]
           d == Ix("multi_hop_swap", accounts, hops, Amounts(amount, limit))
<1>5. list = <<a>> \o m \o <<c, d>>
  BY <1>4, Zenon
<1>6. Fits(<<a>>) /\ Fits(m)
  BY <1>3, FitsOne, FitsNone
<1>7. Fits(<<c, d>>)
  <2>1. Known(c) /\ Known(d)
    BY <1>1, <1>2, <1>3
  <2> HIDE DEF c, d
  <2> QED BY <2>1, FitsTwo
<1> HIDE DEF a, m, c, d
<1>8. Fits(<<a>> \o m)
  BY <1>6, FitsConcat
<1> QED BY <1>5, <1>7, <1>8, FitsConcat

(* The instructions of list are all of the kinds in ops. *)
Only(list, ops) == \A i \in DOMAIN list : list[i].op \in ops

LEMMA OnlyConcat ==
  ASSUME NEW l, NEW m, IsSeq(l), IsSeq(m), NEW ops, Only(l, ops), Only(m, ops)
  PROVE  Only(l \o m, ops)
<1> DEFINE Good == {ix \in ToSet(l) \cup ToSet(m) : ix.op \in ops}
<1>1. \A i \in DOMAIN l : l[i] \in Good
  BY DEF Only, ToSet
<1>2. \A i \in DOMAIN m : m[i] \in Good
  BY DEF Only, ToSet
<1> HIDE DEF Good
<1>3. \A i \in DOMAIN (l \o m) : (l \o m)[i] \in Good
  BY <1>1, <1>2, ConcatAll
<1> QED BY <1>3 DEF Only, Good

(* ---- trade_tx on a wSOL pool ---- *)

(* What comes before the trade: accounts are opened and lamports wrapped.    *)
Wraps(ix) ==
  \/ ix.op = "create_ata"
  \/ ix.op = "transfer" /\ ix.a.from = User /\ ix.a.to = Wsol /\ ix.args.amount \in Nat
  \/ ix.op = "sync_native" /\ ix.a.account = Wsol

Unwraps(ix) == ix.op = "close_account" /\ ix.a.account = Wsol /\ ix.a.destination = User

WsolTrade(ix, buying, limit) ==
  /\ ix.op = IF buying THEN "buy_amm" ELSE "sell_amm"
  /\ ix.a.user_quote_token_account = Wsol /\ ix.a.user_base_token_account = BaseAta(User)
  /\ ix.args.limit = limit

TradesWrapped(list, buying, limit) ==
  \E pre, trade, last :
     /\ list = pre \o <<trade>> \o <<last>>
     /\ IsSeq(pre) /\ \A i \in DOMAIN pre : Wraps(pre[i])
     /\ WsolTrade(trade, buying, limit) /\ Unwraps(last)

TradesOnCurve(list) ==
  \E pre, trade : list = pre \o <<trade>> /\ IsSeq(pre) /\ trade.op \in {"buy_v2", "sell_v2"}

LEMMA WrapsConcat ==
  ASSUME NEW l, NEW m, IsSeq(l), IsSeq(m),
         \A i \in DOMAIN l : Wraps(l[i]), \A i \in DOMAIN m : Wraps(m[i])
  PROVE  \A i \in DOMAIN (l \o m) : Wraps((l \o m)[i])
<1> DEFINE Good == {ix \in ToSet(l) \cup ToSet(m) : Wraps(ix)}
<1>1. \A i \in DOMAIN l : l[i] \in Good
  BY DEF ToSet
<1>2. \A i \in DOMAIN m : m[i] \in Good
  BY DEF ToSet
<1> HIDE DEF Good
<1>3. \A i \in DOMAIN (l \o m) : (l \o m)[i] \in Good
  BY <1>1, <1>2, ConcatAll
<1> QED BY <1>3 DEF Good

LEMMA AmmTradeTxFits ==
  ASSUME NEW key, NEW config, NEW state, NEW buying \in BOOLEAN, NEW limit \in Nat,
         NEW list \in AmmTradeTx(key, config, state, k, buying, 1, limit)
  PROVE  /\ Fits(list)
         /\ /\ state.quote_mint = NATIVE_MINT
            /\ state.base_mint = Mint
            => TradesWrapped(list, buying, limit)
<1> DEFINE native == state.quote_mint = NATIVE_MINT
           base == CreateAta(User, User, state.base_mint, TOKEN_2022)
           quote == CreateAta(User, User, state.quote_mint, SPL_TOKEN)
           first == IF buying THEN <<base>> ELSE <<>>
           wraps == IF buying /\ native THEN WrapSolInstructions(User, limit) ELSE <<>>
           unwrap == UnwrapSolInstruction(User)
           post == IF native THEN <<unwrap>> ELSE <<>>
           op == IF buying THEN "buy_amm" ELSE "sell_amm"
           pre == first \o <<quote>> \o wraps
<1>1. PICK trade \in AmmTrade(op, key, config, state, k, Amounts(1, limit)) :
        list = first \o <<quote>> \o wraps \o <<trade>> \o post
  BY Zenon DEF AmmTradeTx, k
<1>2. op \in TradeOps
  BY DEF TradeOps
<1>3. Known(trade)
  <2>1. \A a, rest : Known(Ix(op, a, rest, Amounts(1, limit)))
    BY <1>2, KnownTrade
  <2> QED BY <2>1 DEF AmmTrade
<1>4. /\ trade.op = op /\ trade.args.limit = limit
      /\ trade.a.user_base_token_account = AssociatedToken(User, TOKEN_2022, state.base_mint)
      /\ trade.a.user_quote_token_account = AssociatedToken(User, SPL_TOKEN, state.quote_mint)
  BY DEF AmmTrade, Ix, Amounts, AmmTradeAccounts, k
<1>5. Known(base) /\ Known(quote) /\ base.op = "create_ata" /\ quote.op = "create_ata"
  BY KnownCreateAta DEF CreateAta, Ix
<1>6. Known(unwrap) /\ Unwraps(unwrap)
  <2>1. Known(unwrap)
    BY DEF UnwrapSolInstruction, Known, Ix, Ops, TradeOps, UpdateOps, Wsol
  <2> QED BY <2>1 DEF UnwrapSolInstruction, Ix, Unwraps, Wsol
<1>7. /\ Fits(WrapSolInstructions(User, limit))
      /\ \A i \in DOMAIN WrapSolInstructions(User, limit) : Wraps(WrapSolInstructions(User, limit)[i])
  <2> DEFINE t == Ix("transfer", [from |-> User, to |-> Wsol], <<>>, Amounts(limit, 0))
             y == Ix("sync_native", [account |-> Wsol], <<>>, NoArgs)
  <2>1. Known(t) /\ Wraps(t)
    BY DEF Known, Ix, Amounts, Ops, TradeOps, UpdateOps, Wraps
  <2>2. Known(y) /\ Wraps(y)
    <3>1. "sync_native" \in Plain
      BY DEF Plain, Ops, TradeOps, UpdateOps
    <3>2. Known(y)
      BY <3>1, KnownPlain
    <3> QED BY <3>2 DEF Ix, Wraps
  <2>3. WrapSolInstructions(User, limit) = <<t, y>>
    BY DEF WrapSolInstructions, Wsol
  <2> HIDE DEF t, y
  <2>4. Fits(<<t, y>>)
    BY <2>1, <2>2, FitsTwo
  <2>5. \A i \in DOMAIN <<t, y>> : Wraps(<<t, y>>[i])
    BY <2>1, <2>2
  <2> QED BY <2>3, <2>4, <2>5
<1> HIDE DEF base, quote, unwrap
<1>8. /\ Fits(first) /\ Fits(<<quote>>) /\ Fits(wraps) /\ Fits(post) /\ Fits(<<trade>>)
      /\ \A i \in DOMAIN first : Wraps(first[i])
      /\ \A i \in DOMAIN <<quote>> : Wraps(<<quote>>[i])
      /\ \A i \in DOMAIN wraps : Wraps(wraps[i])
  <2>1. /\ Fits(<<base>>) /\ Fits(<<quote>>) /\ Fits(<<>>) /\ Fits(<<unwrap>>) /\ Fits(<<trade>>)
    BY <1>3, <1>5, <1>6, FitsOne, FitsNone
  <2>2. Wraps(base) /\ Wraps(quote)
    BY <1>5 DEF Wraps
  <2> QED BY <1>7, <2>1, <2>2
<1> HIDE DEF first, wraps
<1>9. /\ Fits(pre)
      /\ \A i \in DOMAIN pre : Wraps(pre[i])
  <2> DEFINE l == first \o <<quote>>
  <2>1. Fits(l)
    BY <1>8, FitsConcat
  <2>2. \A i \in DOMAIN l : Wraps(l[i])
    BY <1>8, WrapsConcat DEF Fits
  <2> HIDE DEF l
  <2>3. Fits(l \o wraps)
    BY <1>8, <2>1, FitsConcat
  <2>4. \A i \in DOMAIN (l \o wraps) : Wraps((l \o wraps)[i])
    BY <1>8, <2>1, <2>2, WrapsConcat DEF Fits
  <2> QED BY <2>3, <2>4 DEF l
<1>10. list = pre \o <<trade>> \o post
  BY <1>1
<1> HIDE DEF pre, post
<1>11. Fits(list)
  <2>1. Fits(pre \o <<trade>>)
    BY <1>8, <1>9, FitsConcat
  <2> QED BY <1>8, <1>10, <2>1, FitsConcat
<1>12. ASSUME native, state.base_mint = Mint PROVE TradesWrapped(list, buying, limit)
  <2>1. post = <<unwrap>>
    BY <1>12 DEF post
  <2>2. WsolTrade(trade, buying, limit)
    BY <1>4, <1>12 DEF WsolTrade, Wsol, UserWsolAta, BaseAta
  <2>3. list = pre \o <<trade>> \o <<unwrap>>
    BY <1>10, <2>1
  <2> QED BY <1>6, <1>9, <2>2, <2>3 DEF TradesWrapped, Fits
<1> QED BY <1>11, <1>12

LEMMA TradeTxFits ==
  ASSUME Sound(chain), NEW buying \in BOOLEAN, NEW limit \in Nat,
         NEW list \in TradeTxInstructions(PumpGlobal, AmmConfig, chain.curve,
                        IF OnPool THEN {pool} ELSE {}, k, buying, 1, limit)
  PROVE  /\ Fits(list)
         /\ \/ TradesOnCurve(list)
            \/ OnPool /\ (Quote(chain) = NATIVE_MINT => TradesWrapped(list, buying, limit))
<1> DEFINE curve == chain.curve
           pools == IF OnPool THEN {pool} ELSE {}
<1>1. CASE curve.complete
  <2>1. list \in UNION {AmmTradeTx(p.key, AmmConfig, p.state, k, buying, 1, limit) : p \in pools}
    BY <1>1, Zenon DEF TradeTxInstructions
  <2>2. PICK p \in pools : list \in AmmTradeTx(p.key, AmmConfig, p.state, k, buying, 1, limit)
    BY <2>1, Zenon
  <2>3. OnPool /\ p = pool
    BY <2>2
  <2>4. list \in AmmTradeTx(PoolKey(chain), AmmConfig, chain.pool, k, buying, 1, limit)
    <3>1. pool.key = PoolKey(chain) /\ pool.state = chain.pool
      BY DEF pool
    <3> QED BY <2>2, <2>3, <3>1, Zenon
  <2>5. chain.pool.base_mint = Mint /\ chain.pool.quote_mint = Quote(chain)
    <3>1. {"base_mint", "quote_mint"} \subseteq PoolFields \ {"creator_fees"}
      BY DEF PoolFields
    <3>2. \A f \in PoolFields \ {"creator_fees"} : chain.pool[f] = PoolOf(chain)[f]
      BY <2>3 DEF Sound, PoolMatches, OnPool
    <3>3. PoolOf(chain).base_mint = Mint /\ PoolOf(chain).quote_mint = Quote(chain)
      BY DEF PoolOf
    <3> QED BY <3>1, <3>2, <3>3
  <2>6. /\ Fits(list)
        /\ Quote(chain) = NATIVE_MINT => TradesWrapped(list, buying, limit)
    BY <2>4, <2>5, AmmTradeTxFits
  <2> QED BY <2>3, <2>6
<1>2. CASE ~curve.complete
  <2>1. list \in IF buying THEN BuyV2Instructions(PumpGlobal, curve, k, 1, limit)
               ELSE SellV2Instructions(PumpGlobal, curve, k, 1, limit)
    BY <1>2, Zenon DEF TradeTxInstructions
  <2>2. Fits(list)
    BY <2>1, V2Fits DEF AllFit
  <2>3. /\ Fits(UserTradeAtas(k, curve, TRUE)) /\ Fits(UserTradeAtas(k, curve, FALSE))
    BY UserTradeAtasFits
  <2>4. PICK pre, trade : list = Append(pre, trade) /\ Fits(pre) /\ trade.op \in {"buy_v2", "sell_v2"}
    <3>1. /\ \A ix \in BuyV2Instruction(PumpGlobal, curve, k, 1, limit) : ix.op = "buy_v2"
          /\ \A ix \in SellV2Instruction(PumpGlobal, curve, k, 1, limit) : ix.op = "sell_v2"
      BY DEF BuyV2Instruction, SellV2Instruction, V2Trade, Ix
    <3>2. CASE buying
      <4>1. PICK ix \in BuyV2Instruction(PumpGlobal, curve, k, 1, limit) :
              list = Append(UserTradeAtas(k, curve, TRUE), ix)
        BY <2>1, <3>2 DEF BuyV2Instructions
      <4> DEFINE l == UserTradeAtas(k, curve, TRUE)
      <4> HIDE DEF l
      <4>2. ix.op = "buy_v2" /\ Fits(l) /\ list = Append(l, ix)
        BY <2>3, <3>1, <4>1 DEF l
      <4> QED BY <4>2
    <3>3. CASE ~buying
      <4>1. PICK ix \in SellV2Instruction(PumpGlobal, curve, k, 1, limit) :
              list = Append(UserTradeAtas(k, curve, FALSE), ix)
        BY <2>1, <3>3 DEF SellV2Instructions
      <4> DEFINE l == UserTradeAtas(k, curve, FALSE)
      <4> HIDE DEF l
      <4>2. ix.op = "sell_v2" /\ Fits(l) /\ list = Append(l, ix)
        BY <2>3, <3>1, <4>1 DEF l
      <4> QED BY <4>2
    <3> QED BY <3>2, <3>3
  <2>5. list = pre \o <<trade>>
    <3> DEFINE S == ToSet(pre) \cup {trade}
    <3>1. pre \in Seq(S) /\ trade \in S
      BY <2>4, SeqMonotonic DEF IsSeq, Fits
    <3> HIDE DEF S
    <3> QED BY <2>4, <3>1, AppendIsConcat
  <2>6. TradesOnCurve(list)
    BY <2>4, <2>5 DEF TradesOnCurve, Fits
  <2> QED BY <2>2, <2>6
<1> QED BY <1>1, <1>2

(* ---- the other lists ---- *)
LEMMA FitsSetToSeq ==
  ASSUME NEW S, S = {} \/ \E x : S = {x}, \A x \in S : Known(x)
  PROVE  Fits(SetToSeq(S))
<1> DEFINE n == Cardinality(S)
           f == SetToSeq(S)
<1>1. n \in Nat /\ \E g \in [1..n -> S] : IsInjective(g)
  <2>1. CASE S = {}
    <3>1. n = 0
      BY <2>1, FS_EmptySet
    <3> DEFINE g == [i \in 1..0 |-> i]
    <3>2. g \in [1..0 -> S] /\ IsInjective(g)
      BY DEF IsInjective
    <3> HIDE DEF n, g
    <3> QED BY <3>1, <3>2
  <2>2. CASE S # {}
    <3>1. PICK x : S = {x}
      BY <2>2
    <3>2. n = 1
      BY <3>1, FS_Singleton
    <3>3. [i \in 1..1 |-> x] \in [1..1 -> S] /\ IsInjective([i \in 1..1 |-> x])
      BY <3>1 DEF IsInjective
    <3> QED BY <3>2, <3>3
  <2> QED BY <2>1, <2>2
<1>2. f \in [1..n -> S]
  BY <1>1 DEF SetToSeq
<1> HIDE DEF f, n
<1>3. DOMAIN f = 1..n /\ \A i \in DOMAIN f : f[i] \in S
  BY <1>2
<1>4. \A i \in DOMAIN f : Known(f[i])
  BY <1>3
<1>5. f \in [1..n -> ToSet(f)]
  <2> DEFINE T == ToSet(f)
  <2>1. \A i \in 1..n : f[i] \in T
    BY <1>3 DEF ToSet
  <2> HIDE DEF T
  <2>2. f \in [1..n -> T]
    BY <1>2, <2>1
  <2> QED BY <2>2 DEF T
<1>6. IsSeq(f)
  <2> DEFINE T == ToSet(f)
  <2> HIDE DEF T
  <2>1. f \in Seq(T)
    BY <1>1, <1>5 DEF n, T
  <2> QED BY <2>1 DEF IsSeq, T
<1> QED BY <1>4, <1>6 DEF Fits, f

LEMMA CreateCoinFits ==
  ASSUME NEW coin \in NewCoins, NEW agent \in {{}, {100}}, NEW limit \in Nat
  PROVE  AllFit(CreateCoinInstructions(PumpGlobal, k, coin, 1, limit, agent))
<1> DEFINE preview == [coin EXCEPT !.quote_mint = ResolveQuoteMint(coin.quote_mint)]
           create == CreateV2Instruction(k, coin)
           agents == {AgentInitializeInstruction(k, coin.creator, bps) : bps \in agent}
<1>1. Known(create)
  <2>1. coin \in Curve /\ ~IsDerived(coin.creator)
    BY WalletAssumption
  <2>2. coin.is_mayhem_mode \in BOOLEAN
    BY <2>1 DEF Curve
  <2>3. create.op = "create_v2" /\ create.args = coin
    BY DEF CreateV2Instruction, Ix
  <2> DEFINE quote == ResolveQuoteMint(coin.quote_mint)
  <2>4. create.rest = <<>> \/ create.rest[1] = quote
    BY DEF CreateV2Instruction, Ix
  <2>5. ResolveQuoteMint(quote) \in Quotes
    BY WalletAssumption DEF ResolveQuoteMint, Quotes
  <2> HIDE DEF create, quote
  <2> QED BY <2>1, <2>2, <2>3, <2>4, <2>5 DEF Known, Ops, TradeOps, UpdateOps
<1>2. Fits(SetToSeq(agents))
  <2>1. agents = {} \/ \E x : agents = {x}
    OBVIOUS
  <2>2. \A x \in agents : Known(x)
    <3>1. "agent_initialize" \in Plain
      BY DEF Plain, Ops, TradeOps, UpdateOps
    <3>2. \A bps : Known(AgentInitializeInstruction(k, coin.creator, bps))
      BY <3>1, KnownPlain DEF AgentInitializeInstruction
    <3> QED BY <3>2
  <2> HIDE DEF agents
  <2> QED BY <2>1, <2>2, FitsSetToSeq
<1>3. \A buy \in BuyV2Instructions(PumpGlobal, preview, k, 1, limit) : Fits(buy)
  BY V2Fits DEF AllFit
<1>4. CreateCoinInstructions(PumpGlobal, k, coin, 1, limit, agent)
        = {<<create>> \o buy \o SetToSeq(agents) :
             buy \in BuyV2Instructions(PumpGlobal, preview, k, 1, limit)}
  BY Zenon DEF CreateCoinInstructions, CreateV2AndBuyInstruction
<1> HIDE DEF create, agents, preview
<1>5. ASSUME NEW buy, Fits(buy) PROVE Fits(<<create>> \o buy \o SetToSeq(agents))
  <2>1. Fits(<<create>> \o buy)
    BY <1>1, <1>5, FitsOne, FitsConcat
  <2> QED BY <1>2, <2>1, FitsConcat
<1> QED BY <1>3, <1>4, <1>5 DEF AllFit

LEMMA LegacyFits ==
  ASSUME NEW creator, NEW fee, NEW buyback, NEW limit \in Nat, NEW cashback
  PROVE  /\ Fits(<<CreateInstruction(k, Creator)>>)
         /\ Fits(<<BuyInstruction(k, creator, fee, buyback, 1, limit)>>)
         /\ Fits(<<SellInstruction(k, creator, fee, buyback, 1, limit, cashback)>>)
<1>1. \A op \in TradeOps : \A a, rest : Known(Ix(op, a, rest, Amounts(1, limit)))
  BY KnownTrade
<1>2. {"buy", "sell"} \subseteq TradeOps
  BY DEF TradeOps
<1>3. Known(CreateInstruction(k, Creator))
  BY WalletAssumption DEF CreateInstruction, Ix, Known, Ops, TradeOps, UpdateOps
<1>4. Known(BuyInstruction(k, creator, fee, buyback, 1, limit))
  BY <1>1, <1>2 DEF BuyInstruction
<1>5. Known(SellInstruction(k, creator, fee, buyback, 1, limit, cashback))
  BY <1>1, <1>2 DEF SellInstruction
<1> QED BY <1>3, <1>4, <1>5, FitsOne

(* ---- the creator's lists ---- *)
QuietOps == {"create_ata", "sweep_creator_fee", "sweep_pool_creator_fee",
             "transfer_creator_fees_to_pump_v2"}

Quiet(list) == Fits(list) /\ Only(list, QuietOps)

LEMMA QuietOne ==
  ASSUME NEW ix, Known(ix), ix.op \in QuietOps
  PROVE  Quiet(<<ix>>)
<1>1. DOMAIN <<ix>> = {1} /\ <<ix>>[1] = ix
  OBVIOUS
<1> QED BY <1>1, FitsOne DEF Quiet, Only

LEMMA QuietNone ==
  Quiet(<<>>)
BY FitsNone DEF Quiet, Only

LEMMA QuietConcat ==
  ASSUME NEW l, NEW m, Quiet(l), Quiet(m)
  PROVE  Quiet(l \o m)
BY FitsConcat, OnlyConcat DEF Quiet, Fits

LEMMA PlainOps ==
  {"create_ata", "agent_initialize", "extend_account", "migrate_v2",
   "sweep_creator_fee", "sweep_pool_creator_fee", "collect_creator_fee_v2",
   "collect_coin_creator_fee", "transfer_creator_fees_to_pump_v2", "distribute_creator_fees_v2",
   "claim_cashback_v2"} \subseteq Plain
BY DEF Plain, Ops, TradeOps, UpdateOps

LEMMA CreatesQuiet ==
  ASSUME NEW payer, NEW mint, NEW program, NEW holders, IsSeq(holders)
  PROVE  Quiet([i \in DOMAIN holders |-> CreateAta(payer, holders[i], mint, program)])
<1> DEFINE s == [i \in DOMAIN holders |-> CreateAta(payer, holders[i], mint, program)]
<1>1. /\ DOMAIN s = DOMAIN holders /\ s = [i \in DOMAIN s |-> s[i]]
      /\ \A i \in DOMAIN s : s[i] = CreateAta(payer, holders[i], mint, program)
  OBVIOUS
<1> HIDE DEF s
<1>2. \A i \in DOMAIN s : Known(s[i]) /\ s[i].op \in QuietOps
  <2> TAKE i \in DOMAIN s
  <2>1. CreateAta(payer, holders[i], mint, program).op = "create_ata"
    BY DEF CreateAta, Ix
  <2> QED BY <1>1, <2>1, KnownCreateAta DEF QuietOps
<1>3. Fits(s)
  BY <1>1, <1>2, FitsMapped
<1> QED BY <1>2, <1>3 DEF s, Quiet, Only

(* A list that pays out or rewrites shares last, and sweeps the curve before. *)
SweptList(list) ==
  \E pre, last :
     /\ list = pre \o <<last>> /\ Quiet(pre)
     /\ \E i \in DOMAIN pre : pre[i].op = "sweep_creator_fee"
     /\ last.op \in UpdateOps \cup {"distribute_creator_fees_v2"}

LEMMA SweepsQuiet ==
  /\ Quiet(Sweeps)
  /\ \E i \in DOMAIN Sweeps : Sweeps[i].op = "sweep_creator_fee"
<1> DEFINE a == SweepCreatorFeeInstruction(User, Mint, chain.curve.creator,
                                          chain.curve.quote_mint, SPL_TOKEN)
           b == SweepPoolCreatorFeeInstruction(User, chain.pool, SPL_TOKEN)
           m == IF OnPool THEN <<b>> ELSE <<>>
<1>1. Known(a) /\ a.op = "sweep_creator_fee"
  BY PlainOps, KnownPlain DEF SweepCreatorFeeInstruction, Ix
<1>2. Known(b) /\ b.op = "sweep_pool_creator_fee"
  BY PlainOps, KnownPlain DEF SweepPoolCreatorFeeInstruction, Ix
<1>3. Sweeps = <<a>> \o m
  BY Zenon DEF Sweeps
<1> HIDE DEF a, b
<1>4. Quiet(<<a>>) /\ Quiet(m)
  BY <1>1, <1>2, QuietOne, QuietNone DEF QuietOps
<1> HIDE DEF m
<1>5. Quiet(<<a>> \o m)
  BY <1>4, QuietConcat
<1>6. 1 \in DOMAIN (<<a>> \o m) /\ (<<a>> \o m)[1] = a
  <2>1. 1 \in DOMAIN <<a>> /\ <<a>>[1] = a /\ Len(<<a>>) = 1
    OBVIOUS
  <2>2. /\ \A i \in DOMAIN <<a>> : (<<a>> \o m)[i] = <<a>>[i]
        /\ Len(m) \in Nat /\ DOMAIN (<<a>> \o m) = 1..(Len(<<a>>) + Len(m))
    BY <1>4, IsSeqConcat DEF Quiet, Fits
  <2> QED BY <2>1, <2>2
<1> QED BY <1>1, <1>3, <1>5, <1>6

LEMMA CollectListsFit ==
  ASSUME NEW c, NEW q, NEW quote
  PROVE  /\ Fits(CollectCreatorFeeV2Instructions(User, c, q, SPL_TOKEN, TRUE))
         /\ Fits(CollectCoinCreatorFeeInstructions(User, c, quote, SPL_TOKEN, TRUE))
<1> DEFINE l == CollectCreatorFeeV2Instructions(User, c, q, SPL_TOKEN, TRUE)
           p == CollectCoinCreatorFeeInstructions(User, c, quote, SPL_TOKEN, TRUE)
<1>1. Fits(l)
  <2> DEFINE a == CreateAta(User, c, ResolveQuoteMint(q), SPL_TOKEN)
             b == CollectCreatorFeeV2Instruction(c, q, SPL_TOKEN)
  <2>1. l = <<a>> \o <<b>>
    BY DEF CollectCreatorFeeV2Instructions
  <2>2. Known(a) /\ Known(b)
    BY PlainOps, KnownPlain, KnownCreateAta DEF CollectCreatorFeeV2Instruction
  <2> HIDE DEF a, b
  <2> QED BY <2>1, <2>2, FitsOne, FitsConcat
<1>2. Fits(p)
  <2> DEFINE a == CreateAta(User, c, quote, SPL_TOKEN)
             b == CollectCoinCreatorFeeInstruction(c, quote, SPL_TOKEN)
  <2>1. p = <<a>> \o <<b>>
    BY DEF CollectCoinCreatorFeeInstructions
  <2>2. Known(a) /\ Known(b)
    BY PlainOps, KnownPlain, KnownCreateAta DEF CollectCoinCreatorFeeInstruction
  <2> HIDE DEF a, b
  <2> QED BY <2>1, <2>2, FitsOne, FitsConcat
<1> QED BY <1>1, <1>2

LEMMA CollectsFits ==
  Fits(Collects)
<1> DEFINE c == chain.curve.creator
           q == chain.curve.quote_mint
           l == CollectCreatorFeeV2Instructions(User, c, q, SPL_TOKEN, TRUE)
           p == CollectCoinCreatorFeeInstructions(User, c, Quote(chain), SPL_TOKEN, TRUE)
           m == IF OnPool THEN p ELSE <<>>
<1>1. Fits(l) /\ Fits(p)
  BY CollectListsFit
<1>2. Collects = l \o m
  BY Zenon DEF Collects
<1> HIDE DEF l, p
<1>3. Fits(m)
  BY <1>1, FitsNone
<1> QED BY <1>1, <1>2, <1>3, FitsConcat

LEMMA DistributionFits ==
  ASSUME IsSeq(chain.shareholders)
  PROVE  Fits(Distribution) /\ SweptList(Distribution)
<1> DEFINE c == chain.curve.creator
           q == chain.curve.quote_mint
           holders == chain.shareholders
           transfer == TransferCreatorFeesToPumpV2Instruction(User, c, Quote(chain), SPL_TOKEN)
           first == IF OnPool THEN <<transfer>> ELSE <<>>
           sweep == SweepCreatorFeeInstruction(User, Mint, c, q, SPL_TOKEN)
           vault == CreateAta(User, CreatorVault(c), ResolveQuoteMint(q), SPL_TOKEN)
           creates == [i \in DOMAIN holders |->
                         CreateAta(User, holders[i], ResolveQuoteMint(q), SPL_TOKEN)]
           last == DistributeCreatorFeesV2Instruction(User, Mint, c, q, SPL_TOKEN, TRUE, holders)
           mid == <<sweep>> \o <<vault>> \o creates
<1>1. Distribution = first \o (mid \o <<last>>)
  BY DEF Distribution, DistributeCreatorFeesV2Instructions
<1>2. Known(transfer) /\ transfer.op = "transfer_creator_fees_to_pump_v2"
  BY PlainOps, KnownPlain DEF TransferCreatorFeesToPumpV2Instruction, Ix
<1>3. Known(sweep) /\ sweep.op = "sweep_creator_fee"
  BY PlainOps, KnownPlain DEF SweepCreatorFeeInstruction, Ix
<1>4. Known(vault) /\ vault.op = "create_ata"
  BY KnownCreateAta DEF CreateAta, Ix
<1>5. Known(last) /\ last.op = "distribute_creator_fees_v2"
  BY PlainOps, KnownPlain DEF DistributeCreatorFeesV2Instruction, Ix
<1>6. Quiet(creates)
  BY CreatesQuiet
<1> HIDE DEF transfer, sweep, vault, last, creates
<1>7. Quiet(first) /\ Quiet(<<sweep>>) /\ Quiet(<<vault>>)
  BY <1>2, <1>3, <1>4, QuietOne, QuietNone DEF QuietOps
<1> HIDE DEF first
<1>8. Quiet(mid) /\ 1 \in DOMAIN mid /\ mid[1] = sweep
  <2> DEFINE rest == <<vault>> \o creates
  <2>1. Quiet(rest)
    BY <1>6, <1>7, QuietConcat
  <2>2. mid = <<sweep>> \o rest
    <3>1. IsSeq(<<sweep>>) /\ IsSeq(<<vault>>) /\ IsSeq(creates)
      BY <1>6, <1>7 DEF Quiet, Fits
    <3> DEFINE S == ToSet(<<sweep>>) \cup ToSet(<<vault>>) \cup ToSet(creates)
    <3>2. <<sweep>> \in Seq(S) /\ <<vault>> \in Seq(S) /\ creates \in Seq(S)
      BY <3>1, SeqMonotonic DEF IsSeq
    <3> HIDE DEF S
    <3> QED BY <3>2, ConcatAssociative
  <2> HIDE DEF rest, mid
  <2>3. 1 \in DOMAIN <<sweep>> /\ <<sweep>>[1] = sweep /\ Len(<<sweep>>) = 1
    OBVIOUS
  <2>4. /\ \A i \in DOMAIN <<sweep>> : (<<sweep>> \o rest)[i] = <<sweep>>[i]
        /\ Len(rest) \in Nat /\ DOMAIN (<<sweep>> \o rest) = 1..(Len(<<sweep>>) + Len(rest))
    BY <1>7, <2>1, IsSeqConcat DEF Quiet, Fits
  <2>5. Quiet(<<sweep>> \o rest)
    BY <1>7, <2>1, QuietConcat
  <2> QED BY <2>2, <2>3, <2>4, <2>5
<1> DEFINE pre == first \o mid
<1> HIDE DEF mid
<1>9. /\ Quiet(pre)
      /\ \E i \in DOMAIN pre : pre[i].op = "sweep_creator_fee"
  <2>1. /\ Len(first) \in Nat /\ Len(mid) \in Nat
        /\ DOMAIN mid = 1..Len(mid) /\ DOMAIN pre = 1..(Len(first) + Len(mid))
        /\ \A i \in DOMAIN mid : pre[Len(first) + i] = mid[i]
    BY <1>7, <1>8, IsSeqConcat DEF Quiet, Fits
  <2>2. Quiet(pre)
    BY <1>7, <1>8, QuietConcat
  <2> HIDE DEF pre
  <2>3. Len(first) + 1 \in DOMAIN pre /\ pre[Len(first) + 1] = sweep
    BY <1>8, <2>1
  <2> QED BY <1>3, <2>2, <2>3
<1>10. Distribution = pre \o <<last>>
  <2>1. IsSeq(first) /\ IsSeq(mid) /\ IsSeq(<<last>>)
    BY <1>5, <1>7, <1>8, FitsOne DEF Quiet, Fits
  <2> DEFINE S == ToSet(first) \cup ToSet(mid) \cup ToSet(<<last>>)
  <2>2. first \in Seq(S) /\ mid \in Seq(S) /\ <<last>> \in Seq(S)
    BY <2>1, SeqMonotonic DEF IsSeq
  <2>3. Distribution = first \o (mid \o <<last>>)
    BY <1>1 DEF mid
  <2> HIDE DEF S
  <2> QED BY <2>2, <2>3, ConcatAssociative
<1> HIDE DEF pre
<1>11. Fits(Distribution)
  BY <1>5, <1>9, <1>10, FitsOne, FitsConcat DEF Quiet
<1> QED BY <1>5, <1>9, <1>10, <1>11 DEF SweptList

LEMMA UpdateSharesFits ==
  ASSUME IsSeq(chain.shareholders), NEW holders \in Holders, NEW u,
         \/ u = UpdateFeeSharesV2Instruction(User, Mint, chain.curve, SPL_TOKEN,
                                            chain.shareholders, holders)
         \/ u = UpdateFeeSharesInstruction(User, Mint, chain.curve, chain.shareholders, holders),
         NEW creates, creates = [i \in DOMAIN chain.shareholders |->
                   CreateAta(User, chain.shareholders[i], Quote(chain), SPL_TOKEN)]
  PROVE  LET list == Sweeps \o creates \o <<u>> IN Fits(list) /\ SweptList(list)
<1>1. u.op \in UpdateOps /\ u.args.shareholders = holders
  <2>1. \A op, a, rest : /\ Ix(op, a, rest, [shareholders |-> holders]).op = op
                         /\ Ix(op, a, rest, [shareholders |-> holders]).args.shareholders = holders
    BY DEF Ix
  <2>2. UpdateFeeSharesV2Instruction(User, Mint, chain.curve, SPL_TOKEN, chain.shareholders, holders).op
          = "update_fee_shares_v2"
    BY <2>1 DEF UpdateFeeSharesV2Instruction
  <2>3. UpdateFeeSharesV2Instruction(User, Mint, chain.curve, SPL_TOKEN, chain.shareholders,
                                     holders).args.shareholders = holders
    BY <2>1 DEF UpdateFeeSharesV2Instruction
  <2>4. UpdateFeeSharesInstruction(User, Mint, chain.curve, chain.shareholders, holders).op
          = "update_fee_shares"
    BY <2>1 DEF UpdateFeeSharesInstruction
  <2>5. UpdateFeeSharesInstruction(User, Mint, chain.curve, chain.shareholders,
                                   holders).args.shareholders = holders
    BY <2>1 DEF UpdateFeeSharesInstruction
  <2> QED BY <2>2, <2>3, <2>4, <2>5 DEF UpdateOps
<1>2. Known(u)
  BY <1>1 DEF Known, Ops, UpdateOps, TradeOps
<1>3. Quiet(creates)
  BY CreatesQuiet
<1> DEFINE pre == Sweeps \o creates
           s == Sweeps
<1>4. Quiet(s) /\ \E i \in DOMAIN s : s[i].op = "sweep_creator_fee"
  BY SweepsQuiet
<1> HIDE DEF s
<1>5. Quiet(s \o creates)
  BY <1>3, <1>4, QuietConcat
<1>6. /\ \A i \in DOMAIN s : (s \o creates)[i] = s[i]
      /\ Len(s) \in Nat /\ Len(creates) \in Nat /\ DOMAIN s = 1..Len(s)
      /\ DOMAIN (s \o creates) = 1..(Len(s) + Len(creates))
  BY <1>3, <1>4, IsSeqConcat DEF Quiet, Fits
<1>7. \E i \in DOMAIN (s \o creates) : (s \o creates)[i].op = "sweep_creator_fee"
  BY <1>4, <1>6
<1>8. Quiet(pre) /\ \E i \in DOMAIN pre : pre[i].op = "sweep_creator_fee"
  BY <1>5, <1>7 DEF s
<1> HIDE DEF pre
<1>9. Fits(pre \o <<u>>)
  BY <1>2, <1>8, FitsOne, FitsConcat DEF Quiet
<1>10. SweptList(pre \o <<u>>)
  BY <1>1, <1>8 DEF SweptList
<1> QED BY <1>9, <1>10 DEF pre

LEMMA UpkeepFits ==
  ASSUME NEW quote
  PROVE  /\ Fits(<<ExtendAccountIx(Mint, User)>>)
         /\ Fits(<<ClaimCashbackV2Instruction(User, chain.curve.quote_mint, SPL_TOKEN)>>)
         /\ Fits(<<MigrateV2Instruction(k, quote)>>)
<1>1. Known(ExtendAccountIx(Mint, User))
  BY PlainOps, KnownPlain DEF ExtendAccountIx
<1>2. Known(ClaimCashbackV2Instruction(User, chain.curve.quote_mint, SPL_TOKEN))
  BY PlainOps, KnownPlain DEF ClaimCashbackV2Instruction
<1>3. Known(MigrateV2Instruction(k, quote))
  BY PlainOps, KnownPlain DEF MigrateV2Instruction
<1> QED BY <1>1, <1>2, <1>3, FitsOne

(* ---- the invariant ---- *)
(* What is known of a list that was built, however the chain has moved on.   *)
Built(w, kind, list, buying, limit) ==
  /\ Fits(list)
  /\ kind = "trade_tx" =>
       \/ TradesOnCurve(list)
       \/ /\ w.pool.exists
          /\ Quote(w) = NATIVE_MINT => TradesWrapped(list, buying, limit)
  /\ kind \in {"distribute", "update_shares"} => SweptList(list)

Inv ==
  /\ Sound(chain) /\ chain.err = "none"
  /\ Built(chain, job.kind, job.list, job.buying, job.limit)
  /\ moves \in 0..MaxMoves

LEMMA Builds ==
  ASSUME Inv, NEW kind, NEW lists, NEW purse, NEW spend, NEW limit, NEW buying,
         \A list \in lists : Built(chain, kind, list, buying, limit)
  PROVE  Build(kind, lists, purse, spend, limit, buying) => Inv'
<1> SUFFICES ASSUME Build(kind, lists, purse, spend, limit, buying) PROVE Inv'
  OBVIOUS
<1>1. PICK list \in lists :
        job' = [kind |-> kind, list |-> list, purse |-> purse, spend |-> spend,
                limit |-> limit, buying |-> buying, fresh |-> TRUE]
  BY DEF Build
<1>2. chain' = chain /\ moves' = moves
  BY DEF Build
<1>3. Built(chain, kind, list, buying, limit)
  BY <1>1
<1>4. job'.kind = kind /\ job'.list = list /\ job'.buying = buying /\ job'.limit = limit
  BY <1>1
<1>5. Built(chain, kind, list, buying, limit)'
        <=> Built(chain, kind, list, buying, limit)
  BY <1>2 DEF Built
<1> QED BY <1>2, <1>3, <1>4, <1>5 DEF Inv

Pledged == {"trade_tx", "distribute", "update_shares"}

LEMMA BuildsOther ==
  ASSUME Inv, NEW kind, kind \notin Pledged, NEW lists, AllFit(lists),
         NEW purse, NEW spend, NEW limit, NEW buying
  PROVE  Build(kind, lists, purse, spend, limit, buying) => Inv'
<1>1. \A list \in lists : Built(chain, kind, list, buying, limit)
  BY DEF Built, AllFit, Pledged
<1> QED BY <1>1, Builds

LEMMA Limits ==
  ASSUME Inv, NEW s \in Slippages
  PROVE  MaxCost(s) \in Nat /\ MinProceeds(s) \in Nat
<1>1. chain.price \in Nat /\ s \in Nat
  BY WalletAssumption DEF Inv, Sound
<1>2. Cost(chain) \in Nat /\ Proceeds(chain) \in Int
  BY <1>1, FeesNat
<1> QED BY <1>1, <1>2 DEF MaxCost, MinProceeds

LEMMA OneFits ==
  ASSUME NEW list, Fits(list)
  PROVE  AllFit({list})
BY DEF AllFit

LEMMA BuildV3Inv ==
  Inv /\ BuildV3 => Inv'
<1> SUFFICES ASSUME Inv, BuildV3 PROVE Inv'
  OBVIOUS
<1> DEFINE q == chain.curve.quote_mint
<1>1. "v3" \notin Pledged
  BY DEF Pledged
<1>2. PICK b \in BuybackFeeRecipients(PumpGlobal) :
        \/ BuildBuy("v3", LAMBDA limit : {BuyV3Instructions(k, q, b, 1, limit)},
                    CurvePurse(chain), FALSE)
        \/ BuildSell("v3", LAMBDA limit : {SellV3Instructions(k, q, b, 1, limit)})
        \/ BuildExactIn("v3", {BuyExactQuoteInV3Instructions(k, q, b, Cost(chain), 1)},
                        CurvePurse(chain))
  BY DEF BuildV3
<1>3. CASE BuildBuy("v3", LAMBDA limit : {BuyV3Instructions(k, q, b, 1, limit)},
                    CurvePurse(chain), FALSE)
  <2>1. PICK s \in Slippages : Build("v3", {BuyV3Instructions(k, q, b, 1, MaxCost(s))},
                                    CurvePurse(chain), Cost(chain), MaxCost(s), TRUE)
    BY <1>3 DEF BuildBuy
  <2>2. AllFit({BuyV3Instructions(k, q, b, 1, MaxCost(s))})
    BY Limits, V3Fits, OneFits
  <2> QED BY <1>1, <2>1, <2>2, BuildsOther
<1>4. CASE BuildSell("v3", LAMBDA limit : {SellV3Instructions(k, q, b, 1, limit)})
  <2>1. PICK s \in Slippages : Build("v3", {SellV3Instructions(k, q, b, 1, MinProceeds(s))},
                                    BaseAta(User), 1, MinProceeds(s), FALSE)
    BY <1>4 DEF BuildSell
  <2>2. AllFit({SellV3Instructions(k, q, b, 1, MinProceeds(s))})
    BY Limits, V3Fits, OneFits
  <2> QED BY <1>1, <2>1, <2>2, BuildsOther
<1>5. CASE BuildExactIn("v3", {BuyExactQuoteInV3Instructions(k, q, b, Cost(chain), 1)},
                        CurvePurse(chain))
  <2>2. AllFit({BuyExactQuoteInV3Instructions(k, q, b, Cost(chain), 1)})
    BY V3Fits, OneFits
  <2> QED BY <1>1, <1>5, <2>2, BuildsOther DEF BuildExactIn
<1> QED BY <1>2, <1>3, <1>4, <1>5

LEMMA BuildTradeTxInv ==
  Inv /\ BuildTradeTx => Inv'
<1> SUFFICES ASSUME Inv, BuildTradeTx PROVE Inv'
  OBVIOUS
<1> DEFINE Lists(is_buy, limit) ==
             TradeTxInstructions(PumpGlobal, AmmConfig, chain.curve,
                                 IF OnPool THEN {pool} ELSE {}, k, is_buy, 1, limit)
           wraps == chain.curve.complete /\ Quote(chain) = NATIVE_MINT
<1>1. \/ BuildBuy("trade_tx", LAMBDA limit : Lists(TRUE, limit), CurvePurse(chain), wraps)
      \/ BuildSell("trade_tx", LAMBDA limit : Lists(FALSE, limit))
  BY DEF BuildTradeTx
<1>2. ASSUME NEW is_buy \in BOOLEAN, NEW limit \in Nat, NEW list \in Lists(is_buy, limit)
      PROVE  Built(chain, "trade_tx", list, is_buy, limit)
  BY TradeTxFits DEF Built, Inv, OnPool
<1>3. CASE BuildBuy("trade_tx", LAMBDA limit : Lists(TRUE, limit), CurvePurse(chain), wraps)
  <2>1. PICK s \in Slippages :
          Build("trade_tx", Lists(TRUE, MaxCost(s)), CurvePurse(chain),
                IF wraps THEN MaxCost(s) ELSE Cost(chain), MaxCost(s), TRUE)
    BY <1>3 DEF BuildBuy
  <2>2. \A list \in Lists(TRUE, MaxCost(s)) : Built(chain, "trade_tx", list, TRUE, MaxCost(s))
    BY <1>2, Limits
  <2> HIDE DEF Lists
  <2> QED BY <2>1, <2>2, Builds
<1>4. CASE BuildSell("trade_tx", LAMBDA limit : Lists(FALSE, limit))
  <2>1. PICK s \in Slippages :
          Build("trade_tx", Lists(FALSE, MinProceeds(s)), BaseAta(User), 1, MinProceeds(s), FALSE)
    BY <1>4 DEF BuildSell
  <2>2. \A list \in Lists(FALSE, MinProceeds(s)) :
          Built(chain, "trade_tx", list, FALSE, MinProceeds(s))
    BY <1>2, Limits
  <2> HIDE DEF Lists
  <2> QED BY <2>1, <2>2, Builds
<1> QED BY <1>1, <1>3, <1>4

LEMMA BuildCurveV2ExactInInv ==
  Inv /\ BuildCurveV2ExactIn => Inv'
<1> SUFFICES ASSUME Inv, BuildCurveV2ExactIn PROVE Inv'
  OBVIOUS
<1> DEFINE lists == BuyExactQuoteInV2Instructions(PumpGlobal, chain.curve, k, Cost(chain), 1)
<1>1. AllFit(lists)
  BY V2Fits
<1>2. "v2" \notin Pledged
  BY DEF Pledged
<1> HIDE DEF lists
<1>3. Build("v2", lists, CurvePurse(chain), Cost(chain), 1, TRUE)
  BY DEF BuildCurveV2ExactIn, BuildExactIn, lists
<1> QED BY <1>1, <1>2, <1>3, BuildsOther

LEMMA BuildAmmInv ==
  Inv /\ BuildAmm => Inv'
<1> SUFFICES ASSUME Inv, BuildAmm PROVE Inv'
  OBVIOUS
<1> DEFINE Buys(limit) == BuyAmmInstructions(pool.key, AmmConfig, pool.state, k, 1, limit)
           Sales(limit) == SellAmmInstructions(pool.key, AmmConfig, pool.state, k, 1, limit)
<1>1. "amm" \notin Pledged
  BY DEF Pledged
<1>2. \A limit \in Nat : AllFit(Buys(limit)) /\ AllFit(Sales(limit))
  BY AmmFits
<1>3. \/ BuildBuy("amm", LAMBDA limit : Buys(limit), PoolPurse(chain), FALSE)
      \/ BuildSell("amm", LAMBDA limit : Sales(limit))
  BY DEF BuildAmm
<1>4. CASE BuildBuy("amm", LAMBDA limit : Buys(limit), PoolPurse(chain), FALSE)
  <2>1. PICK s \in Slippages :
          Build("amm", Buys(MaxCost(s)), PoolPurse(chain), Cost(chain), MaxCost(s), TRUE)
    BY <1>4 DEF BuildBuy
  <2>2. AllFit(Buys(MaxCost(s)))
    BY <1>2, Limits
  <2> HIDE DEF Buys
  <2> QED BY <1>1, <2>1, <2>2, BuildsOther
<1>5. CASE BuildSell("amm", LAMBDA limit : Sales(limit))
  <2>1. PICK s \in Slippages :
          Build("amm", Sales(MinProceeds(s)), BaseAta(User), 1, MinProceeds(s), FALSE)
    BY <1>5 DEF BuildSell
  <2>2. AllFit(Sales(MinProceeds(s)))
    BY <1>2, Limits
  <2> HIDE DEF Sales
  <2> QED BY <1>1, <2>1, <2>2, BuildsOther
<1> QED BY <1>3, <1>4, <1>5

LEMMA BuildAmmV2Inv ==
  Inv /\ BuildAmmV2 => Inv'
<1> SUFFICES ASSUME Inv, BuildAmmV2 PROVE Inv'
  OBVIOUS
<1> DEFINE Buys(b, limit) == {BuyAmmV2Instructions(pool.state, k, b, 1, limit)}
           Sales(b, limit) == {SellAmmV2Instructions(pool.state, k, b, 1, limit)}
           Exact(b) == {<<BuyExactQuoteInAmmV2Instruction(pool.state, k, b, Cost(chain), 1)>>}
<1>1. "amm_v2" \notin Pledged /\ "amm_v2_singular" \notin Pledged
  BY DEF Pledged
<1>2. /\ \A b, limit : limit \in Nat => AllFit(Buys(b, limit)) /\ AllFit(Sales(b, limit))
      /\ \A b : AllFit(Exact(b))
  BY AmmV2Fits, OneFits
<1>3. PICK b \in BuybackFeeRecipients(AmmConfig) :
        \/ BuildBuy("amm_v2", LAMBDA limit : Buys(b, limit), PoolPurse(chain), FALSE)
        \/ BuildSell("amm_v2", LAMBDA limit : Sales(b, limit))
        \/ BuildExactIn("amm_v2_singular", Exact(b), PoolPurse(chain))
  BY DEF BuildAmmV2
<1>4. CASE BuildBuy("amm_v2", LAMBDA limit : Buys(b, limit), PoolPurse(chain), FALSE)
  <2>1. PICK s \in Slippages :
          Build("amm_v2", Buys(b, MaxCost(s)), PoolPurse(chain), Cost(chain), MaxCost(s), TRUE)
    BY <1>4 DEF BuildBuy
  <2>2. AllFit(Buys(b, MaxCost(s)))
    BY <1>2, Limits
  <2> HIDE DEF Buys
  <2> QED BY <1>1, <2>1, <2>2, BuildsOther
<1>5. CASE BuildSell("amm_v2", LAMBDA limit : Sales(b, limit))
  <2>1. PICK s \in Slippages :
          Build("amm_v2", Sales(b, MinProceeds(s)), BaseAta(User), 1, MinProceeds(s), FALSE)
    BY <1>5 DEF BuildSell
  <2>2. AllFit(Sales(b, MinProceeds(s)))
    BY <1>2, Limits
  <2> HIDE DEF Sales
  <2> QED BY <1>1, <2>1, <2>2, BuildsOther
<1>6. CASE BuildExactIn("amm_v2_singular", Exact(b), PoolPurse(chain))
  <2>1. Build("amm_v2_singular", Exact(b), PoolPurse(chain), Cost(chain), 1, TRUE)
    BY <1>6 DEF BuildExactIn
  <2> HIDE DEF Exact
  <2> QED BY <1>1, <1>2, <2>1, BuildsOther
<1> QED BY <1>3, <1>4, <1>5, <1>6

LEMMA BuildMultiHopInv ==
  Inv /\ BuildMultiHop => Inv'
<1> SUFFICES ASSUME Inv, BuildMultiHop PROVE Inv'
  OBVIOUS
<1> DEFINE hop == IF OnPool THEN MultiHopPool(pool.state)
                  ELSE MultiHopCurve(Mint, chain.curve.quote_mint, k.base_program, k.quote_program)
           purse == IF OnPool THEN PoolPurse(chain) ELSE CurvePurse(chain)
           Exact(b) == MultiHopSwapInstructions(User, Quote(chain), k.quote_program, k.base_program,
                                                <<hop>>, b, Cost(chain), 1)
           Sales(b, limit) == MultiHopSwapInstructions(User, Mint, k.base_program, k.quote_program,
                                                       <<hop>>, b, 1, limit)
<1>1. "multi_hop" \notin Pledged
  BY DEF Pledged
<1>2. \A b : AllFit(Exact(b)) /\ \A limit \in Nat : AllFit(Sales(b, limit))
  BY MultiHopFits
<1>3. PICK b \in BuybackFeeRecipients(PumpGlobal) :
        \/ BuildExactIn("multi_hop", Exact(b), purse)
        \/ BuildSell("multi_hop", LAMBDA limit : Sales(b, limit))
  BY Zenon DEF BuildMultiHop
<1> HIDE DEF purse
<1>4. CASE BuildExactIn("multi_hop", Exact(b), purse)
  <2>1. Build("multi_hop", Exact(b), purse, Cost(chain), 1, TRUE)
    BY <1>4 DEF BuildExactIn
  <2> HIDE DEF Exact
  <2> QED BY <1>1, <1>2, <2>1, BuildsOther
<1>5. CASE BuildSell("multi_hop", LAMBDA limit : Sales(b, limit))
  <2>1. PICK s \in Slippages :
          Build("multi_hop", Sales(b, MinProceeds(s)), BaseAta(User), 1, MinProceeds(s), FALSE)
    BY <1>5 DEF BuildSell
  <2>2. AllFit(Sales(b, MinProceeds(s)))
    BY <1>2, Limits
  <2> HIDE DEF Sales
  <2> QED BY <1>1, <2>1, <2>2, BuildsOther
<1> QED BY <1>3, <1>4, <1>5

LEMMA BuildCreateCoinInv ==
  Inv /\ BuildCreateCoin => Inv'
<1> SUFFICES ASSUME Inv, BuildCreateCoin PROVE Inv'
  OBVIOUS
<1> DEFINE Lists(coin, limit, agent) == CreateCoinInstructions(PumpGlobal, k, coin, 1, limit, agent)
           W(coin) == [chain EXCEPT !.curve = coin]
           kind(agent) == IF agent = {} THEN "create" ELSE "create_agent"
<1>1. \A agent : kind(agent) \notin Pledged
  BY DEF Pledged
<1>2. PICK coin \in NewCoins, agent \in {{}, {100}} :
        BuildBuy(kind(agent), LAMBDA limit : Lists(coin, limit, agent), CurvePurse(W(coin)), FALSE)
  BY Zenon DEF BuildCreateCoin
<1>3. PICK s \in Slippages :
        Build(kind(agent), Lists(coin, MaxCost(s), agent), CurvePurse(W(coin)), Cost(chain),
              MaxCost(s), TRUE)
  BY <1>2 DEF BuildBuy
<1>4. AllFit(Lists(coin, MaxCost(s), agent))
  BY Limits, CreateCoinFits
<1> HIDE DEF Lists, W, kind
<1> QED BY <1>1, <1>3, <1>4, BuildsOther

LEMMA BuildLegacyInv ==
  Inv /\ BuildLegacy => Inv'
<1> SUFFICES ASSUME Inv, BuildLegacy PROVE Inv'
  OBVIOUS
<1> DEFINE creator == chain.curve.creator
           cashback == chain.curve.is_cashback_coin
           created == {<<CreateInstruction(k, Creator)>>}
           Buys(f, b, limit) == {<<BuyInstruction(k, creator, f, b, 1, limit)>>}
           Sales(f, b, limit) == {<<SellInstruction(k, creator, f, b, 1, limit, cashback)>>}
<1>1. "legacy" \notin Pledged /\ "legacy_create" \notin Pledged
  BY DEF Pledged
<1>2. /\ AllFit(created)
      /\ \A f, b, limit : limit \in Nat => AllFit(Buys(f, b, limit)) /\ AllFit(Sales(f, b, limit))
  BY LegacyFits, OneFits
<1>3. PICK f \in FeeRecipients(PumpGlobal, chain.curve.is_mayhem_mode),
           b \in BuybackFeeRecipients(PumpGlobal) :
        \/ BuildOther("legacy_create", created)
        \/ BuildBuy("legacy", LAMBDA limit : Buys(f, b, limit), User, FALSE)
        \/ BuildSell("legacy", LAMBDA limit : Sales(f, b, limit))
  BY Zenon DEF BuildLegacy
<1>4. CASE BuildOther("legacy_create", created)
  <2>1. Build("legacy_create", created, User, 0, 0, FALSE)
    BY <1>4 DEF BuildOther
  <2> HIDE DEF created
  <2> QED BY <1>1, <1>2, <2>1, BuildsOther
<1>5. CASE BuildBuy("legacy", LAMBDA limit : Buys(f, b, limit), User, FALSE)
  <2>1. PICK s \in Slippages :
          Build("legacy", Buys(f, b, MaxCost(s)), User, Cost(chain), MaxCost(s), TRUE)
    BY <1>5 DEF BuildBuy
  <2>2. AllFit(Buys(f, b, MaxCost(s)))
    BY <1>2, Limits
  <2> HIDE DEF Buys
  <2> QED BY <1>1, <2>1, <2>2, BuildsOther
<1>6. CASE BuildSell("legacy", LAMBDA limit : Sales(f, b, limit))
  <2>1. PICK s \in Slippages :
          Build("legacy", Sales(f, b, MinProceeds(s)), BaseAta(User), 1, MinProceeds(s), FALSE)
    BY <1>6 DEF BuildSell
  <2>2. AllFit(Sales(f, b, MinProceeds(s)))
    BY <1>2, Limits
  <2> HIDE DEF Sales
  <2> QED BY <1>1, <2>1, <2>2, BuildsOther
<1> QED BY <1>3, <1>4, <1>5, <1>6

LEMMA BuildCreatorFeesInv ==
  Inv /\ BuildCreatorFees => Inv'
<1> SUFFICES ASSUME Inv, BuildCreatorFees PROVE Inv'
  OBVIOUS
<1> DEFINE creates == [i \in DOMAIN chain.shareholders |->
                         CreateAta(User, chain.shareholders[i], Quote(chain), SPL_TOKEN)]
           Updates(holders) == {UpdateFeeSharesV2Instruction(User, Mint, chain.curve, SPL_TOKEN,
                                                             chain.shareholders, holders)}
                               \cup IF Quote(chain) # NATIVE_MINT THEN {}
                                    ELSE {UpdateFeeSharesInstruction(User, Mint, chain.curve,
                                                                     chain.shareholders, holders)}
           Lists(holders) == {Sweeps \o creates \o <<u>> : u \in Updates(holders)}
<1>1. \/ BuildOther("sweep", {Sweeps})
      \/ BuildOther("collect", {Collects})
      \/ Shared /\ BuildOther("distribute", {Distribution})
      \/ Shared /\ \E holders \in Holders : BuildOther("update_shares", Lists(holders))
  BY Zenon DEF BuildCreatorFees
<1>2. "sweep" \notin Pledged /\ "collect" \notin Pledged
  BY DEF Pledged
<1>3. Shared => IsSeq(chain.shareholders)
  BY WalletAssumption DEF Shared, Inv, Sound, IsSeq
<1>4. CASE BuildOther("sweep", {Sweeps})
  <2>1. AllFit({Sweeps})
    BY SweepsQuiet, OneFits DEF Quiet
  <2>2. Build("sweep", {Sweeps}, User, 0, 0, FALSE)
    BY <1>4 DEF BuildOther
  <2> QED BY <1>2, <2>1, <2>2, BuildsOther
<1>5. CASE BuildOther("collect", {Collects})
  <2>1. AllFit({Collects})
    BY CollectsFits, OneFits
  <2>2. Build("collect", {Collects}, User, 0, 0, FALSE)
    BY <1>5 DEF BuildOther
  <2> QED BY <1>2, <2>1, <2>2, BuildsOther
<1>6. CASE Shared /\ BuildOther("distribute", {Distribution})
  <2> DEFINE lists == {Distribution}
  <2>1. \A list \in lists : Built(chain, "distribute", list, FALSE, 0)
    BY <1>3, <1>6, DistributionFits DEF Built
  <2>2. Build("distribute", lists, User, 0, 0, FALSE)
    BY <1>6 DEF BuildOther
  <2> HIDE DEF lists
  <2> QED BY <2>1, <2>2, Builds
<1>7. CASE Shared /\ \E holders \in Holders : BuildOther("update_shares", Lists(holders))
  <2>1. PICK holders \in Holders : BuildOther("update_shares", Lists(holders))
    BY <1>7
  <2>2. \A u \in Updates(holders) :
          \/ u = UpdateFeeSharesV2Instruction(User, Mint, chain.curve, SPL_TOKEN,
                                             chain.shareholders, holders)
          \/ u = UpdateFeeSharesInstruction(User, Mint, chain.curve, chain.shareholders, holders)
    OBVIOUS
  <2>3. \A u \in Updates(holders) :
          Fits(Sweeps \o creates \o <<u>>) /\ SweptList(Sweeps \o creates \o <<u>>)
    <3> HIDE DEF Updates
    <3> QED BY <1>3, <1>7, <2>2, UpdateSharesFits
  <2>4. \A list \in Lists(holders) : Built(chain, "update_shares", list, FALSE, 0)
    <3> HIDE DEF Updates, creates
    <3> QED BY <2>3 DEF Built
  <2>5. Build("update_shares", Lists(holders), User, 0, 0, FALSE)
    BY <2>1 DEF BuildOther
  <2> HIDE DEF Lists
  <2> QED BY <2>4, <2>5, Builds
<1> QED BY <1>1, <1>4, <1>5, <1>6, <1>7

LEMMA BuildUpkeepInv ==
  Inv /\ BuildUpkeep => Inv'
<1> SUFFICES ASSUME Inv, BuildUpkeep PROVE Inv'
  OBVIOUS
<1> DEFINE extend == {<<ExtendAccountIx(Mint, User)>>}
           claim == {<<ClaimCashbackV2Instruction(User, chain.curve.quote_mint, SPL_TOKEN)>>}
           migrate == {<<MigrateV2Instruction(k, Quote(chain))>>}
<1>1. AllFit(extend) /\ AllFit(claim) /\ AllFit(migrate)
  BY UpkeepFits, OneFits
<1>2. "extend" \notin Pledged /\ "claim" \notin Pledged /\ "migrate" \notin Pledged
  BY DEF Pledged
<1>3. \/ Build("extend", extend, User, 0, 0, FALSE)
      \/ Build("claim", claim, User, 0, 0, FALSE)
      \/ Build("migrate", migrate, User, 0, 0, FALSE)
  BY Zenon DEF BuildUpkeep, BuildOther
<1> HIDE DEF extend, claim, migrate
<1> QED BY <1>1, <1>2, <1>3, BuildsOther

LEMMA IdleBuilt ==
  ASSUME NEW w
  PROVE  Built(w, Idle.kind, Idle.list, Idle.buying, Idle.limit)
<1>1. Idle.kind = "idle" /\ Idle.list = <<>>
  BY DEF Idle
<1> QED BY <1>1, FitsNone DEF Built

LEMMA InitInv ==
  Init => Inv
<1> SUFFICES ASSUME Init PROVE Inv
  OBVIOUS
<1>1. job = Idle /\ moves = 0
  BY DEF Init
<1>2. PICK curve \in Coins, held \in Holdings, holders \in Holders,
           buyback \in {{}, ListedBuybackAtas} :
        LET w == [curve |-> curve]
            venues == IF ~curve.exists THEN {}
                      ELSE {BondingCurvePda(Mint)} \cup IF curve.complete THEN {PoolKey(w)} ELSE {}
            accounts == {User} \cup DOMAIN held \cup buyback \cup ListedFeeAtas
                        \cup {BaseAta(v) : v \in venues}
                        \cup {QuoteAta(w, v) : v \in venues}
        IN  chain = [curve |-> curve, pool |-> IF curve.complete THEN PoolOf(w) ELSE NoPool,
                     price |-> StartPrice,
                     shareholders |-> IF curve.creator = SharingConfig(Mint) THEN holders ELSE <<>>,
                     err |-> "none",
                     ledger |-> [a \in accounts |->
                       IF a = User THEN Funds ELSE IF a \in DOMAIN held THEN held[a] ELSE 0]]
  BY Zenon DEF Init
<1> DEFINE w == [curve |-> curve]
           venues == IF ~curve.exists THEN {}
                     ELSE {BondingCurvePda(Mint)} \cup IF curve.complete THEN {PoolKey(w)} ELSE {}
           accounts == {User} \cup DOMAIN held \cup buyback \cup ListedFeeAtas
                       \cup {BaseAta(v) : v \in venues}
                       \cup {QuoteAta(w, v) : v \in venues}
           l == [a \in accounts |->
                   IF a = User THEN Funds ELSE IF a \in DOMAIN held THEN held[a] ELSE 0]
           p == IF curve.complete THEN PoolOf(w) ELSE NoPool
           list == IF curve.creator = SharingConfig(Mint) THEN holders ELSE <<>>
<1>3. chain = [curve |-> curve, pool |-> p, price |-> StartPrice, shareholders |-> list,
               err |-> "none", ledger |-> l]
  BY <1>2, Zenon
<1> HIDE DEF accounts
<1>4. \A a \in DOMAIN l : l[a] \in Nat
  BY WalletAssumption
<1>5. curve \in Curve /\ (curve.complete => curve.exists)
  BY WalletAssumption
<1>6. CurveShape(curve)
  BY <1>5, WalletAssumption DEF Curve, CurveShape, CurveFields, Ordinary
<1> HIDE DEF l
<1>7. /\ DOMAIN chain = Fields /\ chain.curve = curve /\ chain.pool = p
      /\ chain.price = StartPrice /\ chain.shareholders = list /\ chain.err = "none"
      /\ chain.ledger = l
  BY <1>3 DEF Fields
<1>8. PoolOf(w) = PoolOf(chain)
  <2>1. w.curve = chain.curve
    BY <1>7
  <2> QED BY <2>1 DEF PoolOf, Quote, PoolKey, QuoteAta
<1>9. PoolMatches(chain)
  <2>1. CASE curve.complete
    <3>1. chain.pool = PoolOf(chain) /\ chain.curve.complete
      BY <1>7, <1>8, <2>1
    <3> QED BY <3>1, NewPoolMatches
  <2>2. CASE ~curve.complete
    <3>1. chain.pool = NoPool
      BY <1>7, <2>2
    <3>2. /\ DOMAIN NoPool = NoPoolFields /\ ~NoPool.exists
          /\ NoPool.exists \in BOOLEAN /\ NoPool.creator_fees = 0
      BY DEF NoPool, NoPoolFields
    <3> QED BY <3>1, <3>2 DEF PoolMatches
  <2> QED BY <2>1, <2>2
<1>10. Sound(chain)
  <2>1. World(chain)
    BY <1>4, <1>7 DEF World
  <2>2. chain.price \in Prices
    BY <1>7, WalletAssumption
  <2>3. chain.curve.creator = SharingConfig(Mint) => chain.shareholders \in Holders
    BY <1>7
  <2> QED BY <1>6, <1>7, <1>9, <2>1, <2>2, <2>3 DEF Sound
<1>11. moves \in 0..MaxMoves
  BY <1>1, WalletAssumption
<1> QED BY <1>1, <1>7, <1>10, <1>11, IdleBuilt DEF Inv

(* What a transaction that lands leaves. *)
LEMMA Lands ==
  ASSUME Inv, Outcome.err = "none"
  PROVE  Sound(Outcome) /\ Frame(chain, Outcome)
<1>1. Len(job.list) \in Nat /\ \A i \in 1..Len(job.list) : Known(job.list[i])
  BY LenProperties DEF Inv, Built, Fits, IsSeq
<1>2. Kept(chain, Run(chain, job.list))
  BY <1>1, RunKept DEF Inv
<1> QED BY <1>2 DEF Outcome, Kept

LEMMA LandInv ==
  Inv /\ Land => Inv'
<1> SUFFICES ASSUME Inv, Land PROVE Inv'
  OBVIOUS
<1>1. Sound(Outcome) /\ Outcome.err = "none"
  BY Lands DEF Land
<1>2. chain' = Outcome /\ job' = Idle /\ moves' = moves + 1 /\ moves < MaxMoves
  BY DEF Land
<1>3. moves' \in 0..MaxMoves
  BY <1>2, WalletAssumption DEF Inv
<1>4. Sound(chain)' /\ chain'.err = "none"
  BY <1>1, <1>2
<1>5. Built(chain, job.kind, job.list, job.buying, job.limit)'
  BY <1>2, IdleBuilt
<1> QED BY <1>3, <1>4, <1>5 DEF Inv

LEMMA DroppedInv ==
  Inv /\ Dropped => Inv'
<1> SUFFICES ASSUME Inv, Dropped PROVE Inv'
  OBVIOUS
<1>1. chain' = chain /\ moves' = moves /\ job' = Idle
  BY DEF Dropped
<1>2. Built(chain, job.kind, job.list, job.buying, job.limit)'
  BY <1>1, IdleBuilt
<1> QED BY <1>1, <1>2 DEF Inv

LEMMA OthersInv ==
  ASSUME Inv, NEW w, Sound(w), w.err = "none",
         chain.pool.exists => w.pool.exists /\ Quote(w) = Quote(chain)
  PROVE  Others(w) => Inv'
<1> SUFFICES ASSUME Others(w) PROVE Inv'
  OBVIOUS
<1>1. /\ chain' = w /\ moves' = moves + 1 /\ moves < MaxMoves
      /\ job' = [job EXCEPT !.fresh = FALSE]
  BY DEF Others
<1>2. moves' \in 0..MaxMoves
  BY <1>1, WalletAssumption DEF Inv
<1>3. /\ job'.kind = job.kind /\ job'.list = job.list
      /\ job'.buying = job.buying /\ job'.limit = job.limit
  BY <1>1
<1>4. Built(w, job.kind, job.list, job.buying, job.limit)
  BY DEF Built, Inv
<1>5. Built(chain, job.kind, job.list, job.buying, job.limit)'
  BY <1>1, <1>3, <1>4
<1> QED BY <1>1, <1>2, <1>5 DEF Inv

(* ---- what others do ---- *)
LEMMA PriceSound ==
  ASSUME NEW w, Sound(w), NEW p \in Prices, NEW v, v = [w EXCEPT !.price = p]
  PROVE  /\ Sound(v) /\ DOMAIN v = Fields
         /\ v.curve = w.curve /\ v.pool = w.pool /\ v.err = w.err
<1>1. DOMAIN w = Fields
  BY DEF Sound, World
<1>2. /\ DOMAIN v = Fields /\ v.curve = w.curve /\ v.pool = w.pool /\ v.err = w.err
      /\ v.price = p /\ v.shareholders = w.shareholders /\ v.ledger = w.ledger
  BY <1>1 DEF Fields
<1>3. World(v)
  BY <1>2 DEF World, Sound
<1>4. PoolOf(v) = PoolOf(w)
  BY <1>2 DEF PoolOf, Quote, PoolKey, QuoteAta
<1>5. PoolMatches(v)
  BY <1>2, <1>4 DEF PoolMatches, Sound
<1> QED BY <1>2, <1>3, <1>5 DEF Sound

LEMMA OthersTradeInv ==
  Inv /\ OthersTrade => Inv'
<1> SUFFICES ASSUME Inv, NEW p \in Prices, NEW fee \in 0..1,
                    LET w == [chain EXCEPT !.price = p]
                    IN  \/ OnOpenCurve /\ Others([w EXCEPT !.curve.creator_fee = @ + fee])
                        \/ OnPool /\ Others([w EXCEPT !.pool.creator_fees = @ + fee])
             PROVE  Inv'
  BY Zenon DEF OthersTrade
<1> DEFINE w == [chain EXCEPT !.price = p]
           c == w.curve.creator_fee + fee
           f == w.pool.creator_fees + fee
           onCurve == [w EXCEPT !.curve = [w.curve EXCEPT !.creator_fee = c]]
           inPool == [w EXCEPT !.pool = [w.pool EXCEPT !.creator_fees = f]]
<1>1. /\ Sound(w) /\ DOMAIN w = Fields
      /\ w.curve = chain.curve /\ w.pool = chain.pool /\ w.err = "none"
  BY PriceSound DEF Inv
<1>2. \/ OnOpenCurve /\ Others(onCurve)
      \/ OnPool /\ Others(inPool)
  OBVIOUS
<1> HIDE DEF w
<1>3. c \in Nat /\ f \in Nat
  BY <1>1 DEF Sound, CurveShape, PoolMatches
<1> HIDE DEF c, f
<1>4. CASE OnOpenCurve /\ Others(onCurve)
  <2>1. /\ DOMAIN onCurve = Fields /\ onCurve.curve = [w.curve EXCEPT !.creator_fee = c]
        /\ onCurve.ledger = w.ledger /\ onCurve.pool = w.pool /\ onCurve.price = w.price
        /\ onCurve.shareholders = w.shareholders /\ onCurve.err = w.err
    BY <1>1 DEF Fields
  <2> HIDE DEF onCurve
  <2>2. Sound(onCurve) /\ Frame(w, onCurve)
    BY <1>1, <1>3, <2>1, CurveFeeSound
  <2>3. chain.pool.exists => chain.curve.exists
    BY DEF Inv, Sound, PoolMatches, CurveShape
  <2>4. chain.pool.exists => onCurve.pool.exists /\ Quote(onCurve) = Quote(chain)
    BY <1>1, <2>1, <2>2, <2>3 DEF Frame, CurveFields, Quote
  <2> QED BY <1>1, <1>4, <2>1, <2>2, <2>4, OthersInv
<1>5. CASE OnPool /\ Others(inPool)
  <2>1. /\ DOMAIN inPool = Fields /\ inPool.pool = [w.pool EXCEPT !.creator_fees = f]
        /\ inPool.ledger = w.ledger /\ inPool.curve = w.curve /\ inPool.price = w.price
        /\ inPool.shareholders = w.shareholders /\ inPool.err = w.err
    BY <1>1 DEF Fields
  <2> HIDE DEF inPool
  <2>2. Sound(inPool) /\ Frame(w, inPool)
    BY <1>1, <1>3, <1>5, <2>1, PoolFeeSound DEF OnPool
  <2>3. inPool.pool.exists /\ Quote(inPool) = Quote(chain)
    BY <1>1, <1>5, <2>1, <2>2 DEF Frame, PoolFields, OnPool, Quote
  <2> QED BY <1>1, <1>5, <2>1, <2>2, <2>3, OthersInv
<1> QED BY <1>2, <1>4, <1>5

LEMMA OthersCompleteInv ==
  Inv /\ OthersComplete => Inv'
<1> SUFFICES ASSUME Inv, OthersComplete PROVE Inv'
  OBVIOUS
<1> DEFINE c == [chain.curve EXCEPT !.complete = TRUE]
           w == [chain EXCEPT !.curve = c]
<1>1. /\ DOMAIN chain = Fields /\ DOMAIN chain.curve = CurveFields
      /\ chain.curve.exists /\ ~chain.curve.complete /\ ~chain.pool.exists
  BY DEF Inv, Sound, World, CurveShape, PoolMatches, OthersComplete, OnOpenCurve
<1>2. Others(w)
  BY DEF OthersComplete
<1>3. /\ DOMAIN c = CurveFields /\ c.complete = TRUE
      /\ \A f \in CurveFields \ {"complete"} : c[f] = chain.curve[f]
  BY <1>1 DEF CurveFields
<1>4. /\ c.exists = chain.curve.exists /\ c.creator = chain.curve.creator
      /\ c.is_mayhem_mode = chain.curve.is_mayhem_mode
      /\ c.is_cashback_coin = chain.curve.is_cashback_coin
      /\ c.creator_fee = chain.curve.creator_fee /\ c.quote_mint = chain.curve.quote_mint
  BY <1>3 DEF CurveFields
<1> HIDE DEF c
<1>5. CurveShape(c)
  BY <1>1, <1>3, <1>4 DEF Inv, Sound, CurveShape
<1>6. /\ DOMAIN w = Fields /\ w.curve = c /\ w.pool = chain.pool /\ w.price = chain.price
      /\ w.shareholders = chain.shareholders /\ w.ledger = chain.ledger /\ w.err = "none"
  BY <1>1 DEF Fields, Inv
<1> HIDE DEF w
<1>7. World(w)
  BY <1>6 DEF Inv, Sound, World
<1>8. PoolMatches(w)
  BY <1>1, <1>6 DEF Inv, Sound, PoolMatches
<1>9. Sound(w)
  BY <1>4, <1>5, <1>6, <1>7, <1>8 DEF Inv, Sound
<1> QED BY <1>1, <1>2, <1>6, <1>9, OthersInv

LEMMA OthersMigrateInv ==
  Inv /\ OthersMigrate => Inv'
<1> SUFFICES ASSUME Inv, OthersMigrate PROVE Inv'
  OBVIOUS
<1> DEFINE ix == MigrateV2Instruction(k, Quote(chain))
           list == <<ix>>
           opened == {ix.a.pool_base_token_account, ix.a.pool_quote_token_account}
           m == [chain EXCEPT !.pool = PoolOf(chain)]
<1>1. /\ chain.curve.complete /\ ~chain.pool.exists /\ Others(Run(chain, list))
      /\ Sound(chain) /\ chain.err = "none" /\ DOMAIN chain = Fields
  BY DEF OthersMigrate, OnPool, Inv, Sound, World
<1>2. /\ ix.op = "migrate_v2" /\ ix.a.pool = PoolKey(chain) /\ Len(ix.rest) = 2
  <2>1. k.base_mint = Mint
    BY DEF k
  <2>2. PoolKey(chain) = PoolPda(0, PoolAuthority(Mint), Mint, Quote(chain))
    BY DEF PoolKey, CanonicalPool
  <2>3. ix.op = "migrate_v2"
    BY Zenon DEF MigrateV2Instruction, Ix
  <2>4. ix.a.pool = PoolKey(chain)
    BY <2>1, <2>2 DEF MigrateV2Instruction, Ix
  <2>5. PICK x, y : ix.rest = <<x, y>>
    BY Zenon DEF MigrateV2Instruction, Ix
  <2>6. Len(<<x, y>>) = 2
    OBVIOUS
  <2> QED BY <2>3, <2>4, <2>5, <2>6
<1>3. Len(list) = 1 /\ list[1] = ix
  OBVIOUS
<1> HIDE DEF ix
<1>4. Known(list[1])
  BY <1>2, <1>3 DEF Known, Ops, TradeOps, UpdateOps
<1>5. Run(chain, list) = ExecMigrateV2(chain, ix)
  <2>1. Trace(chain, list)[0] = chain /\ Trace(chain, list)[1] = Step(Trace(chain, list)[0], list[1])
    BY <1>3, RunSteps
  <2>2. Exec(chain, ix) = ExecMigrateV2(chain, ix)
    BY <1>2, Dispatch
  <2> HIDE DEF list
  <2> QED BY <1>1, <1>3, <2>1, <2>2 DEF Run, Step
<1>6. ExecMigrateV2(chain, ix) = Open(m, opened)
  BY <1>1, <1>2 DEF ExecMigrateV2, Refuse
<1>7. m.err = "none"
  BY <1>1 DEF Fields
<1>8. Open(m, opened).err = "none"
  <2> HIDE DEF m, opened
  <2> QED BY <1>7 DEF Open
<1>9. Kept(chain, Run(chain, list))
  <2> HIDE DEF list
  <2> QED BY <1>1, <1>3, <1>4, RunKept
<1>10. Sound(Run(chain, list)) /\ Run(chain, list).err = "none"
  BY <1>5, <1>6, <1>8, <1>9 DEF Kept
<1> HIDE DEF list
<1> QED BY <1>1, <1>10, OthersInv

LEMMA SetUpSharingInv ==
  Inv /\ SetUpSharing => Inv'
<1> SUFFICES ASSUME Inv, NEW holders \in Holders,
                    Others([chain EXCEPT !.curve.creator = SharingConfig(Mint),
                              !.pool.coin_creator = IF OnPool THEN SharingConfig(Mint) ELSE @,
                              !.shareholders = holders])
             PROVE  Inv'
  BY Zenon DEF SetUpSharing
<1> DEFINE s == SharingConfig(Mint)
           c == [chain.curve EXCEPT !.creator = s]
           p == [chain.pool EXCEPT !.coin_creator = IF OnPool THEN s ELSE @]
           w == [[[chain EXCEPT !.curve = c] EXCEPT !.pool = p] EXCEPT !.shareholders = holders]
<1>1. DOMAIN chain = Fields /\ DOMAIN chain.curve = CurveFields
  BY DEF Inv, Sound, World, CurveShape
<1>2. Others(w)
  BY <1>1 DEF Fields
<1> HIDE DEF s
<1>3. /\ DOMAIN c = CurveFields /\ c.creator = s
      /\ \A f \in CurveFields \ {"creator"} : c[f] = chain.curve[f]
  BY <1>1 DEF CurveFields
<1>4. /\ c.exists = chain.curve.exists /\ c.complete = chain.curve.complete
      /\ c.is_mayhem_mode = chain.curve.is_mayhem_mode
      /\ c.is_cashback_coin = chain.curve.is_cashback_coin
      /\ c.creator_fee = chain.curve.creator_fee /\ c.quote_mint = chain.curve.quote_mint
  BY <1>3 DEF CurveFields
<1> HIDE DEF c
<1>5. CurveShape(c)
  BY <1>1, <1>3, <1>4 DEF Inv, Sound, CurveShape, Ordinary, s
<1>6. /\ DOMAIN p = DOMAIN chain.pool
      /\ \A f \in DOMAIN chain.pool \ {"coin_creator"} : p[f] = chain.pool[f]
      /\ OnPool /\ "coin_creator" \in DOMAIN chain.pool => p.coin_creator = s
  OBVIOUS
<1>7. /\ DOMAIN w = Fields /\ w.curve = c /\ w.pool = p /\ w.price = chain.price
      /\ w.shareholders = holders /\ w.ledger = chain.ledger /\ w.err = "none"
  BY <1>1 DEF Fields, Inv
<1> HIDE DEF w, p
<1>8. NoPoolFields \subseteq DOMAIN chain.pool
  BY DEF Inv, Sound, PoolMatches
<1>9. p.exists = chain.pool.exists /\ p.creator_fees = chain.pool.creator_fees
  BY <1>6, <1>8 DEF NoPoolFields
<1>10. PoolMatches(w)
  <2>1. ASSUME chain.pool.exists
        PROVE  \A f \in PoolFields \ {"creator_fees"} : w.pool[f] = PoolOf(w)[f]
    <3>1. Quote(w) = Quote(chain)
      BY <1>4, <1>7 DEF Quote
    <3>2. \A f \in PoolFields \ {"creator_fees", "coin_creator"} : PoolOf(w)[f] = PoolOf(chain)[f]
      <4> DEFINE u == PoolOf(w)
                 v == PoolOf(chain)
      <4>1. /\ u.exists = v.exists /\ u.index = v.index /\ u.creator = v.creator
            /\ u.base_mint = v.base_mint /\ u.quote_mint = v.quote_mint
            /\ u.is_cashback_coin = v.is_cashback_coin
            /\ u.pool_base_token_account = v.pool_base_token_account
            /\ u.pool_quote_token_account = v.pool_quote_token_account
        BY <1>4, <1>7, <3>1 DEF PoolOf, PoolKey, QuoteAta
      <4> HIDE DEF u, v
      <4>2. \A f \in PoolFields \ {"creator_fees", "coin_creator"} : u[f] = v[f]
        BY <4>1 DEF PoolFields
      <4> QED BY <4>2 DEF u, v
    <3>3. DOMAIN chain.pool = PoolFields /\ p.coin_creator = s
      BY <1>6, <2>1 DEF Inv, Sound, PoolMatches, OnPool, PoolFields
    <3>4. \A f \in PoolFields \ {"creator_fees", "coin_creator"} : p[f] = PoolOf(chain)[f]
      BY <1>6, <2>1, <3>3 DEF Inv, Sound, PoolMatches
    <3>5. PoolOf(w).coin_creator = s
      BY <1>3, <1>7 DEF PoolOf
    <3>6. \A f \in PoolFields \ {"creator_fees"} :
            f = "coin_creator" \/ f \in PoolFields \ {"creator_fees", "coin_creator"}
      OBVIOUS
    <3> QED BY <1>7, <3>2, <3>3, <3>4, <3>5, <3>6
  <2> QED BY <1>4, <1>6, <1>7, <1>8, <1>9, <2>1 DEF Inv, Sound, PoolMatches
<1>11. World(w)
  BY <1>7 DEF Inv, Sound, World
<1>12. Sound(w)
  BY <1>5, <1>7, <1>10, <1>11 DEF Inv, Sound
<1>13. chain.pool.exists => w.pool.exists /\ Quote(w) = Quote(chain)
  BY <1>4, <1>7, <1>9 DEF Quote
<1> QED BY <1>2, <1>7, <1>12, <1>13, OthersInv

LEMMA NextInv ==
  Inv /\ [Next]_vars => Inv'
<1>1. Inv /\ UNCHANGED vars => Inv'
  <2> SUFFICES ASSUME Inv, chain' = chain, job' = job, moves' = moves PROVE Inv'
    BY Zenon DEF vars
  <2>1. Built(chain, job.kind, job.list, job.buying, job.limit)'
    BY DEF Inv, Built
  <2> QED BY <2>1 DEF Inv
<1> QED
  BY <1>1, BuildTradeTxInv, BuildCurveV2ExactInInv, BuildV3Inv, BuildAmmInv, BuildAmmV2Inv,
     BuildMultiHopInv, BuildCreateCoinInv, BuildLegacyInv, BuildCreatorFeesInv, BuildUpkeepInv,
     LandInv, DroppedInv, OthersTradeInv, OthersCompleteInv, OthersMigrateInv, SetUpSharingInv,
     Zenon DEF Next

(* Whatever list lands and whatever others do in between, the coin stays     *)
(* sound and a list that was built keeps what its builder promised of it.    *)
THEOREM Invariance ==
  Spec => []Inv
<1> QED BY InitInv, NextInv, PTL DEF Spec

(* No list a builder makes, run whole on any later state, drives a balance,  *)
(* a fee bucket or the vaults below zero, and no errored state is kept: the  *)
(* chain stays typed for every coin, holding, price and list of holders.     *)
THEOREM WalletTypeOK ==
  Spec => []TypeOK
<1>1. Inv => TypeOK
  BY DEF Inv, Sound, World, CurveShape, PoolMatches, TypeOK
<1> QED BY <1>1, Invariance, PTL

(* ---- swept in time ---- *)
Unswept == {"CreatorFeesNotSwept", "PoolCreatorFeesNotSwept"}

(* What comes before the last instruction is not refused over unswept fees,  *)
(* adds nothing to a bucket, and a sweep empties its own.                    *)
LEMMA QuietStep ==
  ASSUME NEW w, Sound(w), w.err = "none", NEW ix, ix.op \in QuietOps
  PROVE  LET v == Exec(w, ix)
         IN  /\ v.err \notin Unswept
             /\ v.err = "none" =>
                  /\ w.curve.creator_fee = 0 \/ ix.op = "sweep_creator_fee"
                       => v.curve.creator_fee = 0
                  /\ w.pool.creator_fees = 0 \/ ix.op = "sweep_pool_creator_fee"
                       => v.pool.creator_fees = 0
<1>1. DOMAIN w = Fields /\ World(w) /\ w.curve.creator_fee \in Nat /\ w.pool.creator_fees \in Nat
  BY DEF Sound, World, CurveShape, PoolMatches
<1>2. CASE ix.op = "create_ata"
  <2> DEFINE t == Credit(w, ix.a.account, 0)
  <2>1. LedgerOnly(w, t)
    BY <1>1, Credits
  <2>2. Exec(w, ix) = Refuse(w, ix.a.program # ProgramOf(ix.a.mint), "IncorrectProgramId", t)
    BY <1>2, Dispatch DEF ExecCreateAta
  <2> HIDE DEF t
  <2> QED BY <1>1, <1>2, <2>1, <2>2, Refusal DEF LedgerOnly, Unswept
<1>3. CASE ix.op = "sweep_creator_fee"
  <2>1. Exec(w, ix) = ExecSweepCreatorFee(w, ix)
    BY <1>3, Dispatch
  <2>2. ExecSweepCreatorFee(w, ix).err \notin Unswept
    BY <1>1, SMTT(20) DEF ExecSweepCreatorFee, Refuse, Fields, Credit, Unswept
  <2> QED BY <1>3, <2>1, <2>2, SweepCreatorFeeKept
<1>4. CASE ix.op = "sweep_pool_creator_fee"
  <2>1. Exec(w, ix) = ExecSweepPoolCreatorFee(w, ix)
    BY <1>4, Dispatch
  <2>2. ExecSweepPoolCreatorFee(w, ix).err \notin Unswept
    BY <1>1, SMTT(20) DEF ExecSweepPoolCreatorFee, Refuse, Fields, Credit, Unswept
  <2> QED BY <1>4, <2>1, <2>2, SweepPoolCreatorFeeKept
<1>5. CASE ix.op = "transfer_creator_fees_to_pump_v2"
  <2>1. Exec(w, ix) = ToPumpVault(w, ix.a.coin_creator)
    BY <1>5, Dispatch DEF ExecTransferToPump
  <2>2. LedgerOnly(w, ToPumpVault(w, ix.a.coin_creator))
    BY TransferToPumpKept
  <2> QED BY <1>5, <2>1, <2>2 DEF LedgerOnly, Unswept
<1> QED BY <1>2, <1>3, <1>4, <1>5 DEF QuietOps

(* Over empty buckets a distribution or a share update has nothing to refuse. *)
LEMMA PayoutErrors ==
  ASSUME NEW w, Sound(w), w.err = "none", w.curve.creator_fee = 0,
         NEW ix, ix.op \in UpdateOps \cup {"distribute_creator_fees_v2"}
  PROVE  /\ Exec(w, ix).err # "CreatorFeesNotSwept"
         /\ Exec(w, ix).err = "PoolCreatorFeesNotSwept" => w.pool.creator_fees # 0
<1>1. DOMAIN w = Fields /\ World(w)
  BY DEF Sound, World
<1>2. w.curve.creator = SharingConfig(Mint) => w.shareholders \in Holders
  BY DEF Sound
<1>3. CASE ix.op = "distribute_creator_fees_v2"
  <2> DEFINE ata == ix.a.creator_vault_quote_token_account
             token == Quote(w) # NATIVE_MINT
             m == IF token THEN Credit(w, ata, 0) ELSE w
             v == Distribute(m, w.shareholders)
             short == token /\ ~ix.args.initialize_ata /\ ~Has(w, ata)
             rest == Refuse(w, short, "AccountNotInitialized", v)
  <2>1. Exec(w, ix) = SharesChecked(w, ix.a.creator_vault, ix.rest, rest)
    BY <1>3, Dispatch, Zenon DEF ExecDistribute
  <2>2. LedgerOnly(w, m)
    BY <1>1, Credits DEF LedgerOnly
  <2> HIDE DEF m
  <2>3. w.curve.creator = SharingConfig(Mint) => v.err = "none"
    BY <1>2, <2>2, Distributes DEF LedgerOnly
  <2> HIDE DEF v, short
  <2>4. w.curve.creator = SharingConfig(Mint) => rest.err \notin Unswept
    BY <1>1, <2>3, Refusal DEF Unswept
  <2> HIDE DEF rest
  <2> QED BY <1>1, <2>1, <2>4, SMTT(20) DEF SharesChecked, Refuse, Fields, Unswept
<1>4. CASE ix.op \in UpdateOps
  <2> DEFINE m == ToPumpVault(w, w.curve.creator)
             d == Distribute(m, w.shareholders)
             v == [d EXCEPT !.shareholders = ix.args.shareholders]
             unswept == w.pool.exists /\ w.pool.creator_fees > 0
             last == Refuse(w, unswept, "PoolCreatorFeesNotSwept", v)
             rest == Refuse(w, ix.a.quote_mint # Quote(w), "ConstraintSeeds",
                     Refuse(w, w.curve.complete /\ Last(ix.rest) # PoolKey(w),
                            "NotEnoughRemainingAccounts", last))
  <2>1. Exec(w, ix) = SharesChecked(w, ix.a.keys.pump_creator_vault, ix.rest, rest)
    <3>1. Exec(w, ix) = ExecUpdateFeeShares(w, ix)
      BY <1>4, Dispatch DEF UpdateOps
    <3> QED BY <3>1, Zenon DEF ExecUpdateFeeShares
  <2>2. LedgerOnly(w, m)
    BY TransferToPumpKept
  <2> HIDE DEF m
  <2>3. w.curve.creator = SharingConfig(Mint) => d.err = "none" /\ DOMAIN d = Fields
    BY <1>2, <2>2, Distributes DEF LedgerOnly, World
  <2> HIDE DEF d
  <2>4. w.curve.creator = SharingConfig(Mint) => v.err = "none"
    BY <2>3 DEF Fields
  <2> HIDE DEF v
  <2>5. /\ unswept => w.pool.creator_fees # 0
        /\ w.curve.creator = SharingConfig(Mint) =>
             \/ last.err = "none"
             \/ last.err = "PoolCreatorFeesNotSwept" /\ unswept
    <3>1. unswept => w.pool.creator_fees # 0
      BY DEF Sound, PoolMatches
    <3> HIDE DEF unswept
    <3> QED BY <1>1, <2>4, <3>1, Refusal
  <2> HIDE DEF last, unswept
  <2>6. w.curve.creator = SharingConfig(Mint) =>
          /\ rest.err # "CreatorFeesNotSwept"
          /\ rest.err = "PoolCreatorFeesNotSwept" => unswept
    BY <1>1, <2>5, SMTT(20) DEF Refuse, Fields
  <2> HIDE DEF rest
  <2> QED BY <1>1, <2>1, <2>5, <2>6, SMTT(20) DEF SharesChecked, Refuse, Fields
<1> QED BY <1>3, <1>4

LEMMA SweptRun ==
  ASSUME NEW w, Sound(w), w.err = "none", NEW list, Fits(list), SweptList(list)
  PROVE  /\ Run(w, list).err # "CreatorFeesNotSwept"
         /\ Run(w, list).err = "PoolCreatorFeesNotSwept"
              => ~\E i \in DOMAIN list : list[i].op = "sweep_pool_creator_fee"
<1>1. PICK pre, last :
        /\ list = pre \o <<last>> /\ Quiet(pre)
        /\ \E i \in DOMAIN pre : pre[i].op = "sweep_creator_fee"
        /\ last.op \in UpdateOps \cup {"distribute_creator_fees_v2"}
  BY DEF SweptList
<1> DEFINE n == Len(pre)
           P == Trace(w, list)
           Swept(op, i) == \E j \in 1..i : list[j].op = op
           Good == {i \in 0..n :
                      /\ P[i].err \notin Unswept
                      /\ P[i].err = "none" =>
                           /\ Swept("sweep_creator_fee", i) => P[i].curve.creator_fee = 0
                           /\ Swept("sweep_pool_creator_fee", i) => P[i].pool.creator_fees = 0}
<1>2. /\ n \in Nat /\ Len(list) = n + 1 /\ DOMAIN list = 1..(n + 1) /\ DOMAIN pre = 1..n
      /\ \A i \in 1..n : list[i] = pre[i]
      /\ list[n + 1] = last
  <2>1. IsSeq(pre) /\ IsSeq(<<last>>)
    BY <1>1 DEF Quiet, Fits, IsSeq, ToSet
  <2>2. Len(<<last>>) = 1 /\ <<last>>[1] = last /\ DOMAIN <<last>> = {1}
    OBVIOUS
  <2> QED BY <1>1, <2>1, <2>2, IsSeqConcat
<1>3. \A i \in 1..Len(list) : Known(list[i])
  BY <1>2 DEF Fits
<1>4. \A i \in 0..Len(list) : Kept(w, P[i])
  BY <1>2, <1>3, TraceKept
<1>5. P[0] = w /\ \A i \in 1..Len(list) : P[i] = Step(P[i - 1], list[i])
  BY <1>2, RunSteps
<1>6. Run(w, list) = P[n + 1]
  BY <1>2 DEF Run
<1> HIDE DEF P
<1>7. 0 \in Good
  BY <1>2, <1>5 DEF Unswept
<1>8. ASSUME NEW i \in 1..n, i - 1 \in Good PROVE i \in Good
  <2> DEFINE v == P[i - 1]
             ix == list[i]
  <2>1. P[i] = Step(v, ix) /\ ix.op \in QuietOps
    BY <1>1, <1>2, <1>5 DEF Quiet, Only
  <2>2. CASE v.err # "none"
    BY <1>8, <2>1, <2>2 DEF Step
  <2>3. CASE v.err = "none"
    <3>1. Sound(v)
      BY <1>2, <1>4, <2>3 DEF Kept
    <3>2. P[i] = Exec(v, ix)
      BY <2>1, <2>3 DEF Step
    <3>3. \A op : Swept(op, i) => Swept(op, i - 1) \/ ix.op = op
      OBVIOUS
    <3>4. /\ Swept("sweep_creator_fee", i - 1) => v.curve.creator_fee = 0
          /\ Swept("sweep_pool_creator_fee", i - 1) => v.pool.creator_fees = 0
      BY <1>8, <2>3
    <3> HIDE DEF v, ix, Swept
    <3>5. P[i].err \notin Unswept
      BY <2>1, <2>3, <3>1, <3>2, QuietStep
    <3>6. P[i].err = "none" => 
            /\ Swept("sweep_creator_fee", i) => P[i].curve.creator_fee = 0
            /\ Swept("sweep_pool_creator_fee", i) => P[i].pool.creator_fees = 0
      BY <2>1, <2>3, <3>1, <3>2, <3>3, <3>4, QuietStep
    <3> QED BY <3>5, <3>6
  <2> QED BY <2>2, <2>3
<1> HIDE DEF Good
<1>9. n \in Good
  <2>1. \A i \in 0..n : i \in Good
    BY <1>2, <1>7, <1>8, Along
  <2> QED BY <1>2, <2>1
<1> DEFINE v == P[n]
<1>10. P[n + 1] = Step(v, last)
  BY <1>2, <1>5
<1>11. /\ v.err \notin Unswept
       /\ v.err = "none" =>
            /\ v.curve.creator_fee = 0
            /\ Swept("sweep_pool_creator_fee", n) => v.pool.creator_fees = 0
  BY <1>1, <1>2, <1>9 DEF Good
<1>12. v.err = "none" => Sound(v)
  BY <1>2, <1>4 DEF Kept
<1>13. \A i \in DOMAIN list : list[i].op = "sweep_pool_creator_fee"
                                => Swept("sweep_pool_creator_fee", n)
  <2>1. last.op # "sweep_pool_creator_fee"
    BY <1>1 DEF UpdateOps
  <2> QED BY <1>2, <2>1
<1> HIDE DEF v, Swept, n
<1>14. CASE v.err # "none"
  BY <1>6, <1>10, <1>11, <1>14 DEF Step, Unswept
<1>15. CASE v.err = "none"
  <2>1. Run(w, list) = Exec(v, last)
    BY <1>6, <1>10, <1>15 DEF Step
  <2>2. /\ Exec(v, last).err # "CreatorFeesNotSwept"
        /\ Exec(v, last).err = "PoolCreatorFeesNotSwept" => v.pool.creator_fees # 0
    BY <1>1, <1>11, <1>12, <1>15, PayoutErrors
  <2> QED BY <1>11, <1>13, <1>15, <2>1, <2>2
<1> QED BY <1>14, <1>15

(* However many fees others leave in the buckets between the build of a list *)
(* and its landing, a distribution or a share update that sweeps first is    *)
(* not refused for fees that were not swept.                                 *)
THEOREM SweptInTimeHolds ==
  Spec => []SweptInTime
<1>1. Inv => SweptInTime
  <2> SUFFICES ASSUME Inv, job.kind \in {"distribute", "update_shares"}
               PROVE  /\ Outcome.err # "CreatorFeesNotSwept"
                      /\ Outcome.err = "PoolCreatorFeesNotSwept"
                           => ~\E i \in DOMAIN job.list :
                                 job.list[i].op = "sweep_pool_creator_fee"
    BY Zenon DEF SweptInTime
  <2>1. Fits(job.list) /\ SweptList(job.list) /\ Sound(chain) /\ chain.err = "none"
    BY DEF Inv, Built
  <2> QED BY <2>1, SweptRun DEF Outcome
<1> QED BY <1>1, Invariance, PTL

(* ---- the wSOL round trip ---- *)
LEMMA SolAccounts ==
  /\ User # Wsol /\ User # Unsynced(Wsol) /\ Wsol # Unsynced(Wsol)
  /\ BaseAta(User) # User /\ BaseAta(User) # Wsol /\ BaseAta(User) # Unsynced(Wsol)
<1>1. Wsol[1] = "ata" /\ Unsynced(Wsol)[1] = "unsynced" /\ BaseAta(User)[1] = "ata"
  BY DEF Wsol, UserWsolAta, AssociatedToken, Unsynced, BaseAta
<1>2. Wsol[3] = "spl" /\ BaseAta(User)[3] = "t22"
  BY DEF Wsol, UserWsolAta, AssociatedToken, BaseAta, SPL_TOKEN, TOKEN_2022
<1>3. User[1] # "ata" /\ User[1] # "unsynced"
  BY WalletAssumption DEF IsDerived, Seeds
<1> QED BY <1>1, <1>2, <1>3

LEMMA SolNat ==
  ASSUME NEW w, World(w)
  PROVE  /\ Bal(w, User) \in Nat /\ Bal(w, Wsol) \in Nat /\ Bal(w, Unsynced(Wsol)) \in Nat
         /\ SolOf(w) = Bal(w, User) + Bal(w, Wsol) + Bal(w, Unsynced(Wsol))
BY BalNat DEF SolOf, Wsol

(* Opening accounts and wrapping lamports keeps what the user has of SOL.    *)
LEMMA WrapStep ==
  ASSUME NEW w, Sound(w), w.err = "none", NEW ix, Wraps(ix), Exec(w, ix).err = "none"
  PROVE  SolOf(Exec(w, ix)) = SolOf(w)
<1> DEFINE v == Exec(w, ix)
<1>1. DOMAIN w = Fields /\ World(w)
  BY DEF Sound, World
<1>2. CASE ix.op = "create_ata"
  <2>1. v = Credit(w, ix.a.account, 0)
    BY <1>1, <1>2, Dispatch, Refusal DEF ExecCreateAta
  <2> HIDE DEF v
  <2>2. LedgerOnly(w, v) /\ \A a : Bal(v, a) = Bal(w, a) + IF a = ix.a.account THEN 0 ELSE 0
    BY <1>1, <2>1, Credits
  <2>3. World(v)
    BY <2>2 DEF LedgerOnly
  <2> QED BY <1>1, <2>2, <2>3, SolNat DEF v
<1>3. CASE /\ ix.op = "transfer" /\ ix.a.from = User /\ ix.a.to = Wsol
           /\ ix.args.amount \in Nat
  <2> DEFINE n == ix.args.amount
  <2>1. v = ExecTransfer(w, ix)
    BY <1>3, Dispatch
  <2>2. v = Move(w, User, Unsynced(Wsol), n) /\ ~(Bal(w, User) < n)
    <3> DEFINE m == Move(w, User, Unsynced(Wsol), n)
               short == Bal(w, User) < n
    <3>1. v = Refuse(w, short, "InsufficientFunds", m) /\ v.err = "none"
      BY <1>3, <2>1 DEF ExecTransfer
    <3> HIDE DEF m, v, short
    <3>2. v = m /\ ~short
      BY <1>1, <3>1, Refusal
    <3> QED BY <3>2 DEF m, short
  <2> HIDE DEF v, n
  <2>3. Bal(w, User) \in Nat /\ n \in Nat
    BY <1>1, <1>3, BalNat DEF n
  <2>4. /\ LedgerOnly(w, v)
        /\ \A a : Bal(v, a) = Bal(w, a) - (IF a = User THEN n ELSE 0)
                              + (IF a = Unsynced(Wsol) THEN n ELSE 0)
    BY <1>1, <2>2, <2>3, Moves
  <2>5. World(v)
    BY <2>4 DEF LedgerOnly
  <2> QED BY <1>1, <2>3, <2>4, <2>5, SolNat, SolAccounts DEF v
<1>4. CASE ix.op = "sync_native" /\ ix.a.account = Wsol
  <2> DEFINE n == Bal(w, Unsynced(Wsol))
  <2>1. v = ExecSyncNative(w, ix)
    BY <1>4, Dispatch
  <2>2. v = Move(w, Unsynced(Wsol), Wsol, n)
    <3> DEFINE m == Move(w, Unsynced(Wsol), Wsol, n)
    <3>1. v = Refuse(w, ~Has(w, Wsol), "InvalidAccountData", m)
      BY <1>4, <2>1 DEF ExecSyncNative
    <3> HIDE DEF m, v
    <3> QED BY <1>1, <3>1, Refusal DEF v, m
  <2>3. n \in Nat
    BY <1>1, BalNat
  <2> HIDE DEF v
  <2>4. /\ LedgerOnly(w, v)
        /\ \A a : Bal(v, a) = Bal(w, a) - (IF a = Unsynced(Wsol) THEN n ELSE 0)
                              + (IF a = Wsol THEN n ELSE 0)
    <3>1. Bal(w, Unsynced(Wsol)) >= n
      BY <2>3
    <3> HIDE DEF n
    <3> QED BY <1>1, <2>2, <2>3, <3>1, Moves
  <2>5. World(v)
    BY <2>4 DEF LedgerOnly
  <2> QED BY <1>1, <2>3, <2>4, <2>5, SolNat, SolAccounts DEF v
<1> QED BY <1>2, <1>3, <1>4 DEF Wraps

(* The trade takes at most its limit out of wSOL, or brings at least that.   *)
LEMMA SolTrade ==
  ASSUME NEW w, Sound(w), w.err = "none", NEW ix, ix.args.limit \in Nat, ix.op \notin ExactIns,
         NEW buys \in BOOLEAN, NEW needed, NEW payments, Payable(payments),
         Trade(w, ix, buys, needed, BaseAta(User), Wsol, payments).err = "none"
  PROVE  LET v == Trade(w, ix, buys, needed, BaseAta(User), Wsol, payments)
         IN  /\ World(v)
             /\ buys => SolOf(v) + ix.args.limit >= SolOf(w)
             /\ ~buys => SolOf(v) >= SolOf(w) + ix.args.limit
<1>1. World(w) /\ w.price \in Nat
  BY WalletAssumption DEF Sound
<1> DEFINE base == BaseAta(User)
           v == Trade(w, ix, buys, needed, base, Wsol, payments)
           t == IF buys THEN Bought(w, base, Wsol) ELSE Sold(w, base, Wsol)
           limit == ix.args.limit
<1>2. /\ LedgerOnly(w, v) /\ LedgerOnly(w, t) /\ NoLess(t, v) /\ ~LimitBroken(w, ix, buys)
      /\ IF buys THEN Bal(w, Wsol) >= Cost(w)
         ELSE Bal(w, base) >= 1 /\ Proceeds(w) \in Nat /\ Proceeds(w) >= limit
  BY <1>1, Trades
<1> HIDE DEF v
<1>3. World(t) /\ World(v)
  BY <1>2 DEF LedgerOnly
<1>4. SolOf(v) >= SolOf(t)
  <2> HIDE DEF t
  <2> QED BY <1>2, <1>3, SolNat DEF NoLess
<1>5. /\ base # User /\ base # Wsol /\ base # Unsynced(Wsol)
      /\ Wsol # User /\ Wsol # Unsynced(Wsol)
  BY SolAccounts
<1> HIDE DEF base
<1>6. Cost(w) \in Nat
  BY <1>1, FeesNat
<1>7. CASE buys
  <2>1. t = Bought(w, base, Wsol) /\ Bal(w, Wsol) >= Cost(w)
    BY <1>2, <1>7
  <2>2. \A b : Bal(t, b) = Bal(w, b) - (IF b = Wsol THEN Cost(w) ELSE 0)
                           + (IF b = base THEN 1 ELSE 0)
    <3> HIDE DEF t
    <3> QED BY <1>1, <2>1, Boughts
  <2>3. Cost(w) <= limit
    BY <1>2, <1>6, <1>7 DEF LimitBroken
  <2> HIDE DEF t
  <2>4. SolOf(t) = SolOf(w) - Cost(w)
    BY <1>1, <1>3, <1>5, <1>6, <2>2, SolNat
  <2>5. SolOf(t) \in Nat /\ SolOf(v) \in Nat /\ SolOf(w) \in Nat
    BY <1>1, <1>3, SolNat
  <2>6. SolOf(v) + limit >= SolOf(w)
    BY <1>4, <1>6, <2>3, <2>4, <2>5
  <2> QED BY <1>3, <1>7, <2>6 DEF v, base
<1>8. CASE ~buys
  <2>1. /\ t = Sold(w, base, Wsol) /\ Bal(w, base) >= 1
        /\ Proceeds(w) \in Nat /\ Proceeds(w) >= limit
    BY <1>2, <1>8
  <2>2. \A b : Bal(t, b) = Bal(w, b) - (IF b = base THEN 1 ELSE 0)
                           + (IF b = Wsol THEN Proceeds(w) ELSE 0)
    <3> HIDE DEF t
    <3> QED BY <1>1, <2>1, Solds
  <2> HIDE DEF t
  <2>3. SolOf(t) = SolOf(w) + Proceeds(w)
    BY <1>1, <1>3, <1>5, <2>1, <2>2, SolNat
  <2>4. SolOf(t) \in Nat /\ SolOf(v) \in Nat /\ SolOf(w) \in Nat
    BY <1>1, <1>3, SolNat
  <2>5. SolOf(v) >= SolOf(w) + limit
    BY <1>4, <2>1, <2>3, <2>4
  <2> QED BY <1>3, <1>8, <2>5 DEF v, base
<1> QED BY <1>7, <1>8

LEMMA WsolTradeStep ==
  ASSUME NEW w, Sound(w), w.err = "none", NEW ix, NEW buying, NEW limit,
         WsolTrade(ix, buying, limit), limit \in Nat, Exec(w, ix).err = "none"
  PROVE  LET v == Exec(w, ix)
         IN  /\ World(v)
             /\ IF buying THEN SolOf(v) + limit >= SolOf(w) ELSE SolOf(v) >= SolOf(w) + limit
<1>1. DOMAIN w = Fields
  BY DEF Sound, World
<1> DEFINE a == ix.a
           f == FeesAt(w)
           buys == ix.op \notin Sells
           skipped == SkippedAccounts(w, buys)
           buyback_ata == ix.rest[skipped + 2]
           needed == {a.user_quote_token_account, a.protocol_fee_recipient_token_account,
                      buyback_ata}
           creator == IF w.pool.is_cashback_coin THEN ix.rest[1] ELSE a.coin_creator_vault_ata
           payments == <<<<a.protocol_fee_recipient_token_account, f.protocol>>,
                         <<buyback_ata, f.buyback>>, <<creator, f.creator>>>>
           T == Trade(w, ix, buys, needed, a.user_base_token_account,
                      a.user_quote_token_account, payments)
           v == Trade(w, ix, buys, needed, BaseAta(User), Wsol, payments)
<1>2. /\ a.user_quote_token_account = Wsol /\ a.user_base_token_account = BaseAta(User)
      /\ ix.op \in {"buy_amm", "sell_amm"} /\ ix.args.limit = limit
      /\ ix.op = "buy_amm" => buying
      /\ ix.op = "sell_amm" => ~buying
  BY DEF WsolTrade
<1>3. Exec(w, ix) = v
  <2>1. Exec(w, ix) = ExecAmm(w, ix)
    BY <1>2, Dispatch
  <2>2. ExecAmm(w, ix) = T
    BY <1>1, <2>1, SMTT(20) DEF ExecAmm, Refuse, Fields
  <2> QED BY <1>2, <2>1, <2>2
<1>4. Payable(payments)
  BY FeePayments
<1>5. v.err = "none" /\ ix.args.limit \in Nat
  BY <1>2, <1>3
<1>6. buys \in BOOLEAN
  OBVIOUS
<1>7. ix.op \notin ExactIns
  BY <1>2 DEF ExactIns
<1> HIDE DEF needed, payments
<1>8. /\ World(v)
      /\ buys => SolOf(v) + ix.args.limit >= SolOf(w)
      /\ ~buys => SolOf(v) >= SolOf(w) + ix.args.limit
  BY <1>4, <1>5, <1>6, <1>7, SolTrade
<1> HIDE DEF v
<1>9. buys => buying
  BY <1>2 DEF Sells
<1>10. ~buys => ~buying
  BY <1>2 DEF Sells
<1> HIDE DEF buys
<1> QED BY <1>2, <1>3, <1>8, <1>9, <1>10

(* Closing the wSOL account brings all of it back as lamports.               *)
LEMMA UnwrapStep ==
  ASSUME NEW w, World(w), w.err = "none", NEW ix, Unwraps(ix), Exec(w, ix).err = "none"
  PROVE  ~Has(Exec(w, ix), Wsol) /\ SolOf(Exec(w, ix)) = SolOf(w)
<1> DEFINE v == Exec(w, ix)
           n == Bal(w, Wsol) + Bal(w, Unsynced(Wsol))
<1>1. v = ExecCloseAccount(w, ix) /\ ix.a.account = Wsol /\ ix.a.destination = User
  BY Dispatch DEF Unwraps
<1> HIDE DEF v
<1>2. /\ SameCoin(w, v)
      /\ DOMAIN v.ledger = (DOMAIN w.ledger \cup {User}) \ {Wsol, Unsynced(Wsol)}
      /\ \A a \in DOMAIN v.ledger : Bal(v, a) = Bal(w, a) + IF a = User THEN n ELSE 0
  BY <1>1, Closes DEF v
<1>3. World(v)
  BY <1>2 DEF SameCoin
<1>4. /\ ~Has(v, Wsol) /\ ~Has(v, Unsynced(Wsol)) /\ User \in DOMAIN v.ledger
  BY <1>2, SolAccounts DEF Has
<1>5. Bal(v, Wsol) = 0 /\ Bal(v, Unsynced(Wsol)) = 0
  BY <1>4 DEF Bal
<1> QED BY <1>2, <1>3, <1>4, <1>5, SolNat DEF v

LEMMA WrappedRun ==
  ASSUME NEW w, Sound(w), w.err = "none", NEW list, Fits(list), NEW buying, NEW limit,
         TradesWrapped(list, buying, limit), Run(w, list).err = "none"
  PROVE  /\ ~Has(Run(w, list), Wsol)
         /\ IF buying THEN SolOf(Run(w, list)) + limit >= SolOf(w)
            ELSE SolOf(Run(w, list)) >= SolOf(w) + limit
<1>1. PICK pre, trade, last :
        /\ list = pre \o <<trade>> \o <<last>>
        /\ IsSeq(pre) /\ \A i \in DOMAIN pre : Wraps(pre[i])
        /\ WsolTrade(trade, buying, limit) /\ Unwraps(last)
  BY DEF TradesWrapped
<1> DEFINE n == Len(pre)
           P == Trace(w, list)
           Good == {i \in 0..n : P[i].err = "none" => SolOf(P[i]) = SolOf(w)}
<1>2. /\ n \in Nat /\ Len(list) = n + 2 /\ DOMAIN list = 1..(n + 2) /\ DOMAIN pre = 1..n
      /\ \A i \in 1..n : list[i] = pre[i]
      /\ list[n + 1] = trade /\ list[n + 2] = last
  <2> DEFINE most == pre \o <<trade>>
  <2>1. /\ Len(<<last>>) = 1 /\ <<last>>[1] = last /\ DOMAIN <<last>> = {1} /\ IsSeq(<<last>>)
        /\ Len(<<trade>>) = 1 /\ <<trade>>[1] = trade /\ DOMAIN <<trade>> = {1}
        /\ IsSeq(<<trade>>)
    BY DEF IsSeq, ToSet
  <2>2. /\ IsSeq(most) /\ Len(most) = n + 1 /\ n \in Nat /\ DOMAIN pre = 1..n
        /\ DOMAIN most = 1..(n + 1) /\ (\A i \in 1..n : most[i] = pre[i])
        /\ most[n + 1] = trade
    BY <1>1, <2>1, IsSeqConcat
  <2>3. list = most \o <<last>>
    BY <1>1
  <2> HIDE DEF most
  <2>4. /\ Len(list) = (n + 1) + 1 /\ DOMAIN list = 1..((n + 1) + 1)
        /\ (\A i \in 1..(n + 1) : list[i] = most[i])
        /\ list[(n + 1) + 1] = last
    BY <2>1, <2>2, <2>3, IsSeqConcat
  <2> QED BY <2>2, <2>4
<1>3. \A i \in 1..Len(list) : Known(list[i])
  BY <1>2 DEF Fits
<1>4. \A i \in 0..Len(list) : Kept(w, P[i])
  BY <1>2, <1>3, TraceKept
<1>5. P[0] = w /\ \A i \in 1..Len(list) : P[i] = Step(P[i - 1], list[i])
  BY <1>2, RunSteps
<1>6. Run(w, list) = P[n + 2]
  BY <1>2 DEF Run
<1>7. limit \in Nat
  <2>1. n + 1 \in 1..Len(list) /\ Known(trade)
    BY <1>2, <1>3
  <2>2. trade.op \in TradeOps
    BY <1>1 DEF WsolTrade, TradeOps
  <2> QED BY <1>1, <2>1, <2>2 DEF Known, WsolTrade
<1> HIDE DEF P
<1>8. 0 \in Good
  BY <1>2, <1>5
<1>9. ASSUME NEW i \in 1..n, i - 1 \in Good PROVE i \in Good
  <2> DEFINE v == P[i - 1]
             ix == list[i]
  <2>1. P[i] = Step(v, ix) /\ Wraps(ix)
    BY <1>1, <1>2, <1>5
  <2>2. v.err = "none" => Sound(v) /\ SolOf(v) = SolOf(w)
    BY <1>2, <1>4, <1>9 DEF Kept
  <2> HIDE DEF v, ix
  <2>3. ASSUME P[i].err = "none" PROVE SolOf(P[i]) = SolOf(w)
    <3>1. v.err = "none" /\ P[i] = Exec(v, ix)
      BY <2>1, <2>3 DEF Step
    <3> QED BY <2>1, <2>2, <2>3, <3>1, WrapStep
  <2> QED BY <2>3
<1> HIDE DEF Good
<1>10. n \in Good
  <2>1. \A i \in 0..n : i \in Good
    BY <1>2, <1>8, <1>9, Along
  <2> QED BY <1>2, <2>1
<1> DEFINE u == P[n]
           v == P[n + 1]
           x == P[n + 2]
<1>11. v = Step(u, trade) /\ x = Step(v, last)
  <2>1. n + 1 \in 1..Len(list) /\ n + 2 \in 1..Len(list) /\ (n + 1) - 1 = n /\ (n + 2) - 1 = n + 1
    BY <1>2
  <2>2. P[n + 1] = Step(P[(n + 1) - 1], list[n + 1]) /\ P[n + 2] = Step(P[(n + 2) - 1], list[n + 2])
    BY <1>5, <2>1
  <2> QED BY <1>2, <2>1, <2>2
<1>12. x.err = "none"
  BY <1>6
<1>13. u.err = "none" => Sound(u) /\ SolOf(u) = SolOf(w)
  BY <1>2, <1>4, <1>10 DEF Good, Kept
<1> HIDE DEF u, v, x
<1>14. v.err = "none" /\ x = Exec(v, last)
  BY <1>11, <1>12 DEF Step
<1>15. u.err = "none" /\ v = Exec(u, trade)
  BY <1>11, <1>14 DEF Step
<1>16. /\ World(v)
       /\ IF buying THEN SolOf(v) + limit >= SolOf(u) ELSE SolOf(v) >= SolOf(u) + limit
  BY <1>1, <1>7, <1>13, <1>14, <1>15, WsolTradeStep
<1>17. ~Has(x, Wsol) /\ SolOf(x) = SolOf(v)
  BY <1>1, <1>12, <1>14, <1>16, UnwrapStep
<1>18. Run(w, list) = x
  BY <1>6 DEF x
<1> QED BY <1>13, <1>15, <1>16, <1>17, <1>18

(* A trade built for the curve does not land once the curve is complete.     *)
LEMMA CurveRun ==
  ASSUME NEW w, Sound(w), w.err = "none", w.curve.complete, NEW list, Fits(list),
         TradesOnCurve(list)
  PROVE  Run(w, list).err # "none"
<1> SUFFICES ASSUME Run(w, list).err = "none" PROVE FALSE
  OBVIOUS
<1>1. PICK pre, trade : list = pre \o <<trade>> /\ IsSeq(pre) /\ trade.op \in {"buy_v2", "sell_v2"}
  BY DEF TradesOnCurve
<1> DEFINE n == Len(pre)
           P == Trace(w, list)
           u == P[n]
<1>2. n \in Nat /\ Len(list) = n + 1 /\ DOMAIN list = 1..(n + 1) /\ list[n + 1] = trade
  <2>1. IsSeq(<<trade>>)
    BY DEF IsSeq, ToSet
  <2>2. Len(<<trade>>) = 1 /\ <<trade>>[1] = trade /\ DOMAIN <<trade>> = {1}
    OBVIOUS
  <2> QED BY <1>1, <2>1, <2>2, IsSeqConcat
<1>3. \A i \in 1..Len(list) : Known(list[i])
  BY <1>2 DEF Fits
<1>4. Kept(w, u)
  BY <1>2, <1>3, TraceKept
<1>5. P[n + 1] = Step(u, trade)
  <2>1. n + 1 \in 1..Len(list) /\ (n + 1) - 1 = n
    BY <1>2
  <2>2. P[n + 1] = Step(P[(n + 1) - 1], list[n + 1])
    BY <1>2, <2>1, RunSteps
  <2> QED BY <1>2, <2>1, <2>2
<1>6. Run(w, list) = P[n + 1]
  BY <1>2 DEF Run
<1> HIDE DEF P, u
<1>7. u.err = "none" /\ Exec(u, trade).err = "none"
  BY <1>5, <1>6 DEF Step
<1>8. u.curve.complete /\ DOMAIN u = Fields
  BY <1>4, <1>7 DEF Kept, Frame, Sound, World, CurveShape, CurveFields
<1>9. Exec(u, trade) = ExecCurveV2(u, trade)
  BY <1>1, Dispatch
<1>10. ASSUME NEW rest PROVE OnCurve(u, trade.a, rest).err # "none"
  BY <1>8 DEF OnCurve, Refuse, Fields
<1>11. \E rest : ExecCurveV2(u, trade) = OnCurve(u, trade.a, rest)
  BY Zenon DEF ExecCurveV2
<1> QED BY <1>7, <1>9, <1>10, <1>11

(* trade_tx built for a wSOL pool, however late it lands: the wSOL account   *)
(* is gone, what it held is back as lamports, and the trade cost at most, or *)
(* paid at least, its threshold of SOL in all.                               *)
THEOREM WsolRoundTripHolds ==
  Spec => WsolRoundTrip
<1> DEFINE Step1 == (Land /\ job.kind = "trade_tx" /\ chain.pool.exists /\ Quote(chain) = NATIVE_MINT) =>
             /\ ~Has(chain', UserWsolAta(User))
             /\ IF job.buying THEN SolOf(chain') + job.limit >= SolOf(chain)
                ELSE SolOf(chain') >= SolOf(chain) + job.limit
<1>1. Inv => Step1
  <2> SUFFICES ASSUME Inv, Land, job.kind = "trade_tx", chain.pool.exists,
                      Quote(chain) = NATIVE_MINT
               PROVE  /\ ~Has(chain', UserWsolAta(User))
                      /\ IF job.buying THEN SolOf(chain') + job.limit >= SolOf(chain)
                         ELSE SolOf(chain') >= SolOf(chain) + job.limit
    OBVIOUS
  <2>1. /\ Run(chain, job.list).err = "none" /\ chain' = Run(chain, job.list)
        /\ Sound(chain) /\ chain.err = "none" /\ Fits(job.list)
    BY DEF Land, Outcome, Inv, Built
  <2>2. chain.curve.complete
    BY DEF Inv, Sound, PoolMatches
  <2>3. ~TradesOnCurve(job.list)
    BY <2>1, <2>2, CurveRun
  <2>4. TradesWrapped(job.list, job.buying, job.limit)
    BY <2>3 DEF Inv, Built
  <2>5. /\ ~Has(Run(chain, job.list), Wsol)
        /\ IF job.buying THEN SolOf(Run(chain, job.list)) + job.limit >= SolOf(chain)
           ELSE SolOf(Run(chain, job.list)) >= SolOf(chain) + job.limit
    BY <2>1, <2>4, WrappedRun
  <2>6. SolOf(chain') = SolOf(Run(chain, job.list))
    BY <2>1 DEF SolOf, Bal, Has
  <2>7. ~Has(chain', Wsol)
    BY <2>1, <2>5
  <2> QED BY <2>5, <2>6, <2>7 DEF Wsol
<1>2. Inv => [Step1]_vars
  BY <1>1
<1> QED BY <1>2, Invariance, PTL DEF WsolRoundTrip

(* ---- cashing out ---- *)
LEMMA RunNone ==
  ASSUME NEW w
  PROVE  Run(w, <<>>) = w
<1>1. Len(<<>>) = 0
  OBVIOUS
<1> QED BY <1>1, RunSteps DEF Run

LEMMA RunOne ==
  ASSUME NEW w, NEW ix
  PROVE  Run(w, <<ix>>) = Step(w, ix)
<1> DEFINE list == <<ix>>
<1>1. Len(list) = 1 /\ list[1] = ix
  OBVIOUS
<1> HIDE DEF list
<1>2. Trace(w, list)[0] = w /\ Trace(w, list)[1] = Step(Trace(w, list)[0], list[1])
  BY <1>1, RunSteps
<1>3. Run(w, list) = Step(w, ix)
  BY <1>1, <1>2 DEF Run
<1> QED BY <1>3 DEF list

LEMMA RunConcat ==
  ASSUME NEW w, NEW l, NEW m, IsSeq(l), IsSeq(m)
  PROVE  Run(w, l \o m) = Run(Run(w, l), m)
<1> DEFINE list == l \o m
           n == Len(l)
           P == Trace(w, list)
           Q == Trace(w, l)
           R == Trace(Run(w, l), m)
           First == {i \in 0..n : P[i] = Q[i]}
           Then == {i \in 0..Len(m) : P[n + i] = R[i]}
<1>1. /\ n \in Nat /\ Len(m) \in Nat /\ Len(list) = n + Len(m)
      /\ DOMAIN l = 1..n /\ DOMAIN m = 1..Len(m)
      /\ \A i \in 1..n : list[i] = l[i]
      /\ \A i \in 1..Len(m) : list[n + i] = m[i]
  BY IsSeqConcat
<1> HIDE DEF list
<1>2. /\ P[0] = w /\ \A i \in 1..(n + Len(m)) : P[i] = Step(P[i - 1], list[i])
  BY <1>1, RunSteps
<1>3. Q[0] = w /\ \A i \in 1..n : Q[i] = Step(Q[i - 1], l[i])
  BY <1>1, RunSteps
<1>4. R[0] = Run(w, l) /\ \A i \in 1..Len(m) : R[i] = Step(R[i - 1], m[i])
  BY <1>1, RunSteps
<1>5. Run(w, l) = Q[n] /\ Run(Run(w, l), m) = R[Len(m)] /\ Run(w, list) = P[n + Len(m)]
  BY <1>1 DEF Run
<1> HIDE DEF P, Q, R, n
<1>6. \A i \in 0..n : i \in First
  <2>1. 0 \in First
    BY <1>1, <1>2, <1>3
  <2>2. ASSUME NEW i \in 1..n, i - 1 \in First PROVE i \in First
    <3>1. i \in 1..(n + Len(m)) /\ list[i] = l[i] /\ P[i - 1] = Q[i - 1]
      BY <1>1, <2>2
    <3> QED BY <1>2, <1>3, <3>1
  <2> HIDE DEF First
  <2> QED BY <1>1, <2>1, <2>2, Along
<1>7. \A i \in 0..Len(m) : i \in Then
  <2>1. 0 \in Then
    <3>1. n \in First /\ n + 0 = n
      BY <1>1, <1>6
    <3> QED BY <1>1, <1>4, <1>5, <3>1
  <2>2. ASSUME NEW i \in 1..Len(m), i - 1 \in Then PROVE i \in Then
    <3>1. /\ n + i \in 1..(n + Len(m)) /\ (n + i) - 1 = n + (i - 1) /\ list[n + i] = m[i]
          /\ P[n + (i - 1)] = R[i - 1]
      BY <1>1, <2>2
    <3> QED BY <1>1, <1>2, <1>4, <3>1
  <2> HIDE DEF Then
  <2> QED BY <1>1, <2>1, <2>2, Along
<1>8. P[n + Len(m)] = R[Len(m)]
  BY <1>1, <1>7
<1> QED BY <1>5, <1>8 DEF list

(* The vaults of the coin that is there. *)
Ready(w) == Sound(w) /\ w.err = "none" /\ w.curve.exists
Vault(w) == VaultAccount(w, w.curve.creator)
AmmVault(w) == AmmVaultAccount(w, w.curve.creator)
Pooled(w) == IF w.pool.exists THEN Bal(w, AmmVault(w)) ELSE 0

LEMMA Separate ==
  ASSUME NEW w
  PROVE  /\ Vault(w) # AmmVault(w)
         /\ \A p : ~IsDerived(p) =>
              /\ Vault(w) # p /\ AmmVault(w) # p
              /\ Vault(w) # QuoteAta(w, p) /\ AmmVault(w) # QuoteAta(w, p)
         /\ \A p, q : ~IsDerived(p) => p # QuoteAta(w, q)
         /\ \A p, q : QuoteAta(w, p) = QuoteAta(w, q) => p = q
<1> DEFINE c == w.curve.creator
           v == CreatorVault(c)
           a == CoinCreatorVaultAuthority(c)
<1>1. \A p : QuoteAta(w, p)[1] = "ata" /\ QuoteAta(w, p)[2] = p
  BY DEF QuoteAta, AssociatedToken
<1>2. v[1] = "creator-vault" /\ a[1] = "amm-creator-vault"
  BY DEF CreatorVault, CoinCreatorVaultAuthority
<1>3. Vault(w) = IF Quote(w) = NATIVE_MINT THEN v ELSE QuoteAta(w, v)
  BY DEF Vault, VaultAccount
<1>4. AmmVault(w) = QuoteAta(w, a)
  BY DEF AmmVault, AmmVaultAccount
<1>5. \A p : ~IsDerived(p) => p[1] # "ata" /\ p[1] # "creator-vault" /\ p[1] # "amm-creator-vault"
  BY DEF IsDerived, Seeds
<1> HIDE DEF v, a
<1>6. v # a /\ \A p : ~IsDerived(p) => v # p /\ a # p
  BY <1>2, <1>5
<1>7. \A p, q : ~IsDerived(p) => p # QuoteAta(w, q)
  BY <1>1, <1>5
<1>8. \A p, q : QuoteAta(w, p) = QuoteAta(w, q) => p = q
  BY <1>1
<1>9. \A q : v # QuoteAta(w, q)
  BY <1>1, <1>2
<1> QED BY <1>3, <1>4, <1>6, <1>7, <1>8, <1>9

LEMMA OwedNat ==
  ASSUME NEW w, Sound(w)
  PROVE  /\ w.curve.creator_fee \in Nat /\ w.pool.creator_fees \in Nat
         /\ Bal(w, Vault(w)) \in Nat /\ Bal(w, AmmVault(w)) \in Nat /\ Pooled(w) \in Nat
         /\ Owed(w) = w.curve.creator_fee + w.pool.creator_fees + Bal(w, Vault(w)) + Pooled(w)
         /\ \A p : InHand(w, p) = Bal(w, p) + Bal(w, QuoteAta(w, p))
         /\ \A p : Bal(w, p) \in Nat
BY BalNat DEF Sound, CurveShape, PoolMatches, Owed, Vault, AmmVault, Pooled, InHand

LEMMA SameAccounts ==
  ASSUME NEW w, NEW v, w.curve.exists, Frame(w, v)
  PROVE  /\ v.curve.exists = w.curve.exists /\ v.curve.creator = w.curve.creator
         /\ v.curve.quote_mint = w.curve.quote_mint
         /\ Quote(v) = Quote(w) /\ Vault(v) = Vault(w) /\ AmmVault(v) = AmmVault(w)
         /\ \A p : QuoteAta(v, p) = QuoteAta(w, p)
<1>1. /\ v.curve.exists = w.curve.exists /\ v.curve.creator = w.curve.creator
      /\ v.curve.quote_mint = w.curve.quote_mint
  BY DEF Frame, CurveFields
<1>2. Quote(v) = Quote(w)
  BY <1>1 DEF Quote
<1>3. \A p : QuoteAta(v, p) = QuoteAta(w, p)
  BY <1>2 DEF QuoteAta
<1> QED BY <1>1, <1>2, <1>3 DEF Vault, AmmVault, VaultAccount, AmmVaultAccount

(* Between w and v fees moved towards the vaults, and nothing else.          *)
Cash(w, v) ==
  /\ Ready(v) /\ Frame(w, v) /\ v.shareholders = w.shareholders
  /\ v.pool.exists = w.pool.exists
  /\ DOMAIN w.ledger \subseteq DOMAIN v.ledger
  /\ Owed(v) = Owed(w)
  /\ \A p : ~IsDerived(p) => /\ Bal(v, p) = Bal(w, p)
                             /\ Bal(v, QuoteAta(w, p)) = Bal(w, QuoteAta(w, p))
  /\ w.curve.creator_fee = 0 => v.curve.creator_fee = 0
  /\ w.pool.creator_fees = 0 =>
       v.pool.creator_fees = 0 /\ (Pooled(w) = 0 => Pooled(v) = 0)

LEMMA CashThrough ==
  ASSUME NEW u, NEW v, NEW w, u.curve.exists, Cash(u, v), Cash(v, w)
  PROVE  Cash(u, w)
<1>1. Frame(u, w)
  BY FrameThrough DEF Cash, Ready
<1>2. \A p : QuoteAta(v, p) = QuoteAta(u, p)
  BY SameAccounts DEF Cash
<1> QED BY <1>1, <1>2 DEF Cash

LEMMA CashSame ==
  ASSUME NEW w, Ready(w), NEW v, LedgerOnly(w, v), \A a : Bal(v, a) = Bal(w, a)
  PROVE  Cash(w, v)
<1>1. Sound(v) /\ Frame(w, v)
  BY LedgerOnlySound DEF Ready
<1>2. /\ v.curve = w.curve /\ v.pool = w.pool /\ v.err = w.err
      /\ v.shareholders = w.shareholders
  BY DEF LedgerOnly
<1>3. Vault(v) = Vault(w) /\ AmmVault(v) = AmmVault(w)
  BY <1>1, SameAccounts DEF Ready
<1>4. Pooled(v) = Pooled(w)
  BY <1>2, <1>3 DEF Pooled
<1>5. Owed(v) = Owed(w)
  BY <1>1, <1>2, <1>3, <1>4, OwedNat DEF Ready
<1> QED BY <1>1, <1>2, <1>4, <1>5 DEF Cash, Ready, LedgerOnly

LEMMA CashNone ==
  ASSUME NEW w, Ready(w)
  PROVE  Cash(w, w)
<1>1. LedgerOnly(w, w)
  BY DEF LedgerOnly, Ready, Sound
<1> QED BY <1>1, CashSame

LEMMA CreateCash ==
  ASSUME NEW w, Ready(w), NEW payer, NEW owner
  PROVE  LET v == Step(w, CreateAta(payer, owner, Quote(w), SPL_TOKEN))
         IN  Cash(w, v) /\ Has(v, QuoteAta(w, owner)) /\ \A a : Bal(v, a) = Bal(w, a)
<1> DEFINE ix == CreateAta(payer, owner, Quote(w), SPL_TOKEN)
           v == Credit(w, QuoteAta(w, owner), 0)
<1>1. /\ ix.op = "create_ata" /\ ix.a.account = QuoteAta(w, owner)
      /\ ix.a.program = SPL_TOKEN /\ ix.a.mint = Quote(w)
  BY DEF CreateAta, Ix, QuoteAta
<1> HIDE DEF ix
<1>2. ProgramOf(Quote(w)) = SPL_TOKEN
  BY DEF ProgramOf, Quote, Ready, Sound, CurveShape, Ordinary
<1>3. Step(w, ix) = v
  BY <1>1, <1>2, Dispatch DEF Step, Ready, ExecCreateAta, Refuse
<1>4. /\ LedgerOnly(w, v) /\ DOMAIN v.ledger = DOMAIN w.ledger \cup {QuoteAta(w, owner)}
      /\ \A a : Bal(v, a) = Bal(w, a) + IF a = QuoteAta(w, owner) THEN 0 ELSE 0
  BY Credits DEF Ready, Sound
<1>5. \A a : Bal(w, a) \in Nat
  BY BalNat DEF Ready, Sound
<1> HIDE DEF v
<1>6. \A a : Bal(v, a) = Bal(w, a)
  BY <1>4, <1>5
<1>7. Cash(w, v) /\ Has(v, QuoteAta(w, owner))
  BY <1>4, <1>6, CashSame DEF Has
<1> QED BY <1>3, <1>6, <1>7 DEF ix

LEMMA SweepCash ==
  ASSUME NEW w, Ready(w)
  PROVE  LET v == Step(w, SweepCreatorFeeInstruction(User, Mint, w.curve.creator,
                                                     w.curve.quote_mint, SPL_TOKEN))
         IN  Cash(w, v) /\ v.curve.creator_fee = 0
<1> DEFINE ix == SweepCreatorFeeInstruction(User, Mint, w.curve.creator, w.curve.quote_mint,
                                            SPL_TOKEN)
           n == w.curve.creator_fee
           m == [w EXCEPT !.curve.creator_fee = 0]
           v == Credit(m, Vault(w), n)
<1>1. /\ ix.op = "sweep_creator_fee" /\ ix.a.recipient = CreatorVault(w.curve.creator)
      /\ ix.a.associated_quote_recipient = QuoteAta(w, CreatorVault(w.curve.creator))
  BY DEF SweepCreatorFeeInstruction, Ix, QuoteAta, Quote
<1>2. DOMAIN w = Fields /\ World(w) /\ n \in Nat /\ Sound(w) /\ w.err = "none" /\ w.curve.exists
  BY DEF Ready, Sound, World, CurveShape
<1> HIDE DEF ix
<1>3. (IF Quote(w) = NATIVE_MINT THEN ix.a.recipient ELSE ix.a.associated_quote_recipient)
        = Vault(w)
  BY <1>1 DEF Vault, VaultAccount
<1>4. ExecSweepCreatorFee(w, ix) = IF n = 0 THEN w ELSE v
  BY <1>1, <1>2, <1>3, Zenon DEF ExecSweepCreatorFee, Refuse
<1>5. Step(w, ix) = ExecSweepCreatorFee(w, ix)
  BY <1>1, <1>2, Dispatch DEF Step
<1>6. CASE n = 0
  BY <1>4, <1>5, <1>6, CashNone DEF ix
<1>7. CASE n # 0
  <2>1. /\ DOMAIN m = Fields /\ m.curve = [w.curve EXCEPT !.creator_fee = 0]
        /\ m.ledger = w.ledger /\ m.pool = w.pool /\ m.price = w.price
        /\ m.shareholders = w.shareholders /\ m.err = w.err
    BY <1>2 DEF Fields
  <2> HIDE DEF m, n
  <2>2. Sound(m) /\ Frame(w, m) /\ m.curve.creator_fee = 0
    BY <1>2, <2>1, CurveFeeSound
  <2>3. /\ LedgerOnly(m, v) /\ DOMAIN v.ledger = DOMAIN m.ledger \cup {Vault(w)}
        /\ \A a : Bal(v, a) = Bal(m, a) + IF a = Vault(w) THEN n ELSE 0
    BY <1>2, <2>2, Credits DEF Sound
  <2>4. \A a : Bal(m, a) = Bal(w, a) /\ Bal(w, a) \in Nat
    BY <1>2, <2>1, BalNat DEF Bal, Has
  <2> HIDE DEF v
  <2>5. /\ v.curve = m.curve /\ v.pool = w.pool /\ v.shareholders = w.shareholders
        /\ v.err = "none"
    BY <1>2, <2>1, <2>3 DEF LedgerOnly
  <2>6. Sound(v) /\ Frame(m, v)
    BY <2>2, <2>3, LedgerOnlySound
  <2>7. Frame(w, v)
    BY <1>2, <2>2, <2>6, FrameThrough
  <2>8. /\ v.curve.exists = w.curve.exists /\ Vault(v) = Vault(w) /\ AmmVault(v) = AmmVault(w)
    BY <1>2, <2>7, SameAccounts
  <2>9. \A a : a # Vault(w) => Bal(v, a) = Bal(w, a)
    BY <2>3, <2>4
  <2>10. Bal(v, Vault(w)) = Bal(w, Vault(w)) + n
    BY <2>3, <2>4
  <2>11. Vault(w) # AmmVault(w)
         /\ \A p : ~IsDerived(p) => Vault(w) # p /\ Vault(w) # QuoteAta(w, p)
    BY Separate
  <2>12. Pooled(v) = Pooled(w)
    BY <2>5, <2>8, <2>9, <2>11 DEF Pooled
  <2>13. Owed(v) = Owed(w)
    <3>1. Owed(v) = 0 + v.pool.creator_fees + Bal(v, Vault(v)) + Pooled(v)
      BY <2>2, <2>5, <2>6, OwedNat
    <3>2. Owed(w) = n + w.pool.creator_fees + Bal(w, Vault(w)) + Pooled(w)
      BY <1>2, OwedNat DEF n
    <3>3. w.pool.creator_fees \in Nat /\ Bal(w, Vault(w)) \in Nat /\ Pooled(w) \in Nat
      BY <1>2, OwedNat
    <3> QED BY <1>2, <2>5, <2>8, <2>10, <2>12, <3>1, <3>2, <3>3
  <2>14. DOMAIN w.ledger \subseteq DOMAIN v.ledger
    BY <2>1, <2>3
  <2>15. v.curve.creator_fee = 0 /\ v.pool.exists = w.pool.exists
         /\ v.pool.creator_fees = w.pool.creator_fees
    BY <2>2, <2>5
  <2>16. Ready(v)
    BY <1>2, <2>5, <2>6, <2>8 DEF Ready
  <2>17. Cash(w, v)
    BY <2>5, <2>7, <2>9, <2>11, <2>12, <2>13, <2>14, <2>15, <2>16 DEF Cash
  <2> QED BY <1>4, <1>5, <1>7, <2>15, <2>17 DEF ix, n, v
<1> QED BY <1>6, <1>7

LEMMA PoolAccounts ==
  ASSUME NEW w, Ready(w), w.pool.exists
  PROVE  w.pool.coin_creator = w.curve.creator /\ w.pool.quote_mint = Quote(w)
<1>1. /\ w.pool.coin_creator = PoolOf(w).coin_creator
      /\ w.pool.quote_mint = PoolOf(w).quote_mint
  BY DEF Ready, Sound, PoolMatches, PoolFields
<1> QED BY <1>1 DEF PoolOf

LEMMA SweepPoolCash ==
  ASSUME NEW w, Ready(w), w.pool.exists,
         NEW p, p.coin_creator = w.curve.creator, p.quote_mint = Quote(w)
  PROVE  LET v == Step(w, SweepPoolCreatorFeeInstruction(User, p, SPL_TOKEN))
         IN  Cash(w, v) /\ v.pool.creator_fees = 0
<1> DEFINE ix == SweepPoolCreatorFeeInstruction(User, p, SPL_TOKEN)
           n == w.pool.creator_fees
           m == [w EXCEPT !.pool.creator_fees = 0]
           v == Credit(m, AmmVault(w), n)
<1>1. /\ ix.op = "sweep_pool_creator_fee"
      /\ ix.a.recipient = CoinCreatorVaultAuthority(w.curve.creator)
      /\ ix.a.recipient_token_account = AmmVault(w)
  BY DEF SweepPoolCreatorFeeInstruction, Ix, QuoteAta, AmmVault, AmmVaultAccount
<1>2. /\ DOMAIN w = Fields /\ World(w) /\ n \in Nat /\ Sound(w) /\ w.err = "none"
      /\ w.curve.exists /\ w.pool.coin_creator = w.curve.creator
  BY PoolAccounts DEF Ready, Sound, World, PoolMatches
<1> HIDE DEF ix
<1>3. ExecSweepPoolCreatorFee(w, ix) = v
  BY <1>1, <1>2, Zenon DEF ExecSweepPoolCreatorFee, Refuse
<1>4. Step(w, ix) = v
  BY <1>1, <1>2, <1>3, Dispatch DEF Step
<1>5. /\ DOMAIN m = Fields /\ m.pool = [w.pool EXCEPT !.creator_fees = 0]
      /\ m.ledger = w.ledger /\ m.curve = w.curve /\ m.price = w.price
      /\ m.shareholders = w.shareholders /\ m.err = w.err
  BY <1>2 DEF Fields
<1> HIDE DEF m, n
<1>6. Sound(m) /\ Frame(w, m) /\ m.pool.creator_fees = 0
  BY <1>2, <1>5, PoolFeeSound
<1>7. /\ LedgerOnly(m, v) /\ DOMAIN v.ledger = DOMAIN m.ledger \cup {AmmVault(w)}
      /\ \A a : Bal(v, a) = Bal(m, a) + IF a = AmmVault(w) THEN n ELSE 0
  BY <1>2, <1>6, Credits DEF Sound
<1>8. \A a : Bal(m, a) = Bal(w, a) /\ Bal(w, a) \in Nat
  BY <1>2, <1>5, BalNat DEF Bal, Has
<1> HIDE DEF v
<1>9. /\ v.pool = m.pool /\ v.curve = w.curve /\ v.shareholders = w.shareholders
      /\ v.err = "none"
  BY <1>2, <1>5, <1>7 DEF LedgerOnly
<1>10. Sound(v) /\ Frame(m, v)
  BY <1>6, <1>7, LedgerOnlySound
<1>11. Frame(w, v)
  BY <1>2, <1>6, <1>10, FrameThrough
<1>12. /\ v.curve.exists = w.curve.exists /\ Vault(v) = Vault(w) /\ AmmVault(v) = AmmVault(w)
  BY <1>2, <1>11, SameAccounts
<1>13. \A a : a # AmmVault(w) => Bal(v, a) = Bal(w, a)
  BY <1>7, <1>8
<1>14. Bal(v, AmmVault(w)) = Bal(w, AmmVault(w)) + n
  BY <1>7, <1>8
<1>15. Vault(w) # AmmVault(w)
       /\ \A q : ~IsDerived(q) => AmmVault(w) # q /\ AmmVault(w) # QuoteAta(w, q)
  BY Separate
<1>16. v.pool.exists = w.pool.exists
  BY <1>11 DEF Frame, PoolFields
<1>17. Pooled(w) = Bal(w, AmmVault(w)) /\ Pooled(v) = Bal(w, AmmVault(w)) + n
  BY <1>12, <1>14, <1>16 DEF Pooled
<1>18. Owed(v) = Owed(w)
  <2>1. Owed(v) = v.curve.creator_fee + 0 + Bal(v, Vault(v)) + Pooled(v)
    BY <1>6, <1>9, <1>10, OwedNat
  <2>2. Owed(w) = w.curve.creator_fee + n + Bal(w, Vault(w)) + Pooled(w)
    BY <1>2, OwedNat DEF n
  <2>3. /\ w.curve.creator_fee \in Nat /\ Bal(w, Vault(w)) \in Nat
        /\ Bal(w, AmmVault(w)) \in Nat
    BY <1>2, OwedNat
  <2> QED BY <1>2, <1>9, <1>12, <1>13, <1>15, <1>17, <2>1, <2>2, <2>3
<1>19. DOMAIN w.ledger \subseteq DOMAIN v.ledger
  BY <1>5, <1>7
<1>20. v.pool.creator_fees = 0
  BY <1>6, <1>9
<1>21. w.pool.creator_fees = 0 /\ Pooled(w) = 0 => Pooled(v) = 0
  BY <1>17 DEF n
<1>22. Ready(v)
  BY <1>2, <1>9, <1>10, <1>12 DEF Ready
<1>23. Cash(w, v)
  BY <1>9, <1>11, <1>13, <1>15, <1>16, <1>18, <1>19, <1>20, <1>21, <1>22 DEF Cash
<1> QED BY <1>4, <1>20, <1>23 DEF ix

LEMMA TransferCash ==
  ASSUME NEW w, Ready(w), w.pool.exists
  PROVE  LET v == Step(w, TransferCreatorFeesToPumpV2Instruction(User, w.curve.creator,
                                                                 Quote(w), SPL_TOKEN))
         IN  Cash(w, v) /\ Pooled(v) = 0
<1> DEFINE ix == TransferCreatorFeesToPumpV2Instruction(User, w.curve.creator, Quote(w), SPL_TOKEN)
           v == MoveAll(w, AmmVault(w), Vault(w))
<1>1. ix.op = "transfer_creator_fees_to_pump_v2" /\ ix.a.coin_creator = w.curve.creator
  BY DEF TransferCreatorFeesToPumpV2Instruction, Ix
<1>2. World(w) /\ Sound(w) /\ w.err = "none" /\ w.curve.exists
  BY DEF Ready, Sound
<1> HIDE DEF ix
<1>3. Step(w, ix) = v
  BY <1>1, <1>2, Dispatch DEF Step, ExecTransferToPump, ToPumpVault, Vault, AmmVault
<1>4. /\ LedgerOnly(w, v)
      /\ \A a : Bal(v, a) = Bal(w, a) - (IF a = AmmVault(w) THEN Bal(w, AmmVault(w)) ELSE 0)
                                      + (IF a = Vault(w) THEN Bal(w, AmmVault(w)) ELSE 0)
  BY <1>2, MovesAll
<1> HIDE DEF v
<1>5. Sound(v) /\ Frame(w, v)
  BY <1>2, <1>4, LedgerOnlySound
<1>6. /\ v.pool = w.pool /\ v.curve = w.curve /\ v.shareholders = w.shareholders
      /\ v.err = "none" /\ DOMAIN w.ledger \subseteq DOMAIN v.ledger
  BY <1>2, <1>4 DEF LedgerOnly
<1>7. Vault(v) = Vault(w) /\ AmmVault(v) = AmmVault(w)
  BY <1>2, <1>5, SameAccounts
<1>8. \A a : Bal(w, a) \in Nat
  BY <1>2, BalNat
<1>9. Vault(w) # AmmVault(w)
      /\ \A q : ~IsDerived(q) => /\ AmmVault(w) # q /\ AmmVault(w) # QuoteAta(w, q)
                                 /\ Vault(w) # q /\ Vault(w) # QuoteAta(w, q)
  BY Separate
<1>10. \A a : a # Vault(w) /\ a # AmmVault(w) => Bal(v, a) = Bal(w, a)
  BY <1>4, <1>8
<1>11. Bal(v, AmmVault(w)) = 0 /\ Bal(v, Vault(w)) = Bal(w, Vault(w)) + Bal(w, AmmVault(w))
  BY <1>4, <1>8, <1>9
<1>12. Pooled(v) = 0 /\ Pooled(w) = Bal(w, AmmVault(w))
  BY <1>6, <1>7, <1>11 DEF Pooled
<1>13. Owed(v) = Owed(w)
  <2>1. Owed(v) = v.curve.creator_fee + v.pool.creator_fees + Bal(v, Vault(v)) + 0
    BY <1>5, <1>12, OwedNat
  <2>2. Owed(w) = w.curve.creator_fee + w.pool.creator_fees + Bal(w, Vault(w)) + Pooled(w)
    BY <1>2, OwedNat
  <2>3. /\ w.curve.creator_fee \in Nat /\ w.pool.creator_fees \in Nat
    BY <1>2, OwedNat
  <2> QED BY <1>6, <1>7, <1>8, <1>11, <1>12, <2>1, <2>2, <2>3
<1>14. Ready(v)
  BY <1>2, <1>5, <1>6 DEF Ready
<1>15. Cash(w, v)
  BY <1>5, <1>6, <1>9, <1>10, <1>12, <1>13, <1>14 DEF Cash
<1> QED BY <1>3, <1>12, <1>15 DEF ix

(* Accounts opened for a list of wallets. *)
LEMMA CreatesCash ==
  ASSUME NEW w, Ready(w), NEW payer, NEW owners, IsSeq(owners)
  PROVE  LET v == Run(w, [i \in DOMAIN owners |-> CreateAta(payer, owners[i], Quote(w), SPL_TOKEN)])
         IN  Cash(w, v) /\ \A i \in DOMAIN owners : Has(v, QuoteAta(w, owners[i]))
<1> DEFINE list == [i \in DOMAIN owners |-> CreateAta(payer, owners[i], Quote(w), SPL_TOKEN)]
           n == Len(list)
           P == Trace(w, list)
           Opened(v, i) == \A j \in 1..i : Has(v, QuoteAta(w, owners[j]))
           Good == {i \in 0..n : Cash(w, P[i]) /\ Opened(P[i], i)}
<1>1. /\ n \in Nat /\ DOMAIN owners = 1..n
      /\ \A i \in 1..n : list[i] = CreateAta(payer, owners[i], Quote(w), SPL_TOKEN)
  <2>1. DOMAIN list = DOMAIN owners /\ list = [i \in DOMAIN list |-> list[i]]
    OBVIOUS
  <2> HIDE DEF list
  <2>2. n = Len(owners) /\ Len(owners) \in Nat /\ DOMAIN owners = 1..Len(owners)
    BY <2>1, Mapped
  <2> QED BY <2>2 DEF list
<1> HIDE DEF list
<1>2. P[0] = w /\ \A i \in 1..n : P[i] = Step(P[i - 1], list[i])
  BY <1>1, RunSteps
<1> HIDE DEF P, n
<1>3. 0 \in Good
  <2>1. Opened(w, 0)
    OBVIOUS
  <2> QED BY <1>1, <1>2, <2>1, CashNone
<1>4. ASSUME NEW i \in 1..n, i - 1 \in Good PROVE i \in Good
  <2> DEFINE v == P[i - 1]
             u == P[i]
  <2>1. Cash(w, v) /\ Opened(v, i - 1)
    BY <1>4
  <2>2. Quote(v) = Quote(w) /\ \A p : QuoteAta(v, p) = QuoteAta(w, p)
    BY <2>1, SameAccounts DEF Cash, Ready
  <2>3. u = Step(v, CreateAta(payer, owners[i], Quote(v), SPL_TOKEN))
    BY <1>1, <1>2, <2>2
  <2> HIDE DEF u, v
  <2>4. Ready(v)
    BY <2>1 DEF Cash
  <2>5. Cash(v, u) /\ Has(u, QuoteAta(v, owners[i]))
    BY <2>3, <2>4, CreateCash
  <2>6. Cash(w, u)
    BY <2>1, <2>5, CashThrough DEF Ready
  <2>7. Opened(u, i)
    <3> SUFFICES ASSUME NEW j \in 1..i PROVE Has(u, QuoteAta(w, owners[j]))
      OBVIOUS
    <3>1. j = i \/ j \in 1..(i - 1)
      BY <1>1
    <3>2. DOMAIN v.ledger \subseteq DOMAIN u.ledger
      BY <2>5 DEF Cash
    <3> QED BY <2>1, <2>2, <2>5, <3>1, <3>2 DEF Has
  <2> HIDE DEF Opened
  <2> QED BY <2>6, <2>7 DEF u
<1> HIDE DEF Good
<1>5. \A i \in 0..n : i \in Good
  BY <1>1, <1>3, <1>4, Along
<1>6. Cash(w, P[n]) /\ Opened(P[n], n)
  BY <1>1, <1>5 DEF Good
<1>7. Run(w, list) = P[n]
  BY DEF Run, P, n
<1> QED BY <1>1, <1>6, <1>7 DEF list

(* Equal payments: an account is paid once for each time it is listed.       *)
Listed(payments, a, n) == {j \in 1..n : payments[j][1] = a}

LEMMA ListedMore ==
  ASSUME NEW payments, NEW a, NEW n \in Nat
  PROVE  LET more == IF payments[n + 1][1] = a THEN 1 ELSE 0
         IN  /\ Cardinality(Listed(payments, a, 0)) = 0
             /\ Cardinality(Listed(payments, a, n)) \in Nat
             /\ Cardinality(Listed(payments, a, n + 1)) = Cardinality(Listed(payments, a, n)) + more
<1> DEFINE S == Listed(payments, a, n)
<1>1. IsFiniteSet(1..n)
  BY FS_Interval
<1>2. S \subseteq 1..n
  BY DEF Listed
<1>3. IsFiniteSet(S)
  BY <1>1, <1>2, FS_Subset
<1>4. Cardinality(S) \in Nat
  BY <1>3, FS_CardinalityType
<1>5. Listed(payments, a, 0) = {}
  BY DEF Listed
<1>6. 1..(n + 1) = 1..n \cup {n + 1} /\ n + 1 \notin S
  BY <1>2
<1>7. CASE payments[n + 1][1] = a
  <2>1. Listed(payments, a, n + 1) = S \cup {n + 1}
    BY <1>6, <1>7 DEF Listed
  <2>2. Cardinality(S \cup {n + 1}) = Cardinality(S) + 1
    BY <1>3, <1>6, FS_AddElement
  <2> QED BY <1>4, <1>5, <1>7, <2>1, <2>2, FS_EmptySet
<1>8. CASE payments[n + 1][1] # a
  <2>1. Listed(payments, a, n + 1) = S
    BY <1>6, <1>8 DEF Listed
  <2> QED BY <1>4, <1>5, <1>8, <2>1, FS_EmptySet
<1> QED BY <1>7, <1>8

LEMMA Multiples ==
  ASSUME NEW b \in Nat, NEW share \in Nat, NEW c \in Nat
  PROVE  /\ (b + share * c) + share = b + share * (c + 1)
         /\ (b + share * c) + 0 = b + share * (c + 0)
         /\ b + share * 0 = b
<1>1. share * c \in Nat /\ share * (c + 1) = share * c + share /\ share * 0 = 0
  OBVIOUS
<1>2. share * (c + 0) = share * c
  OBVIOUS
<1> QED BY <1>1, <1>2

LEMMA PaysEach ==
  ASSUME NEW w, World(w), NEW payments, Len(payments) \in Nat, NEW share \in Nat \ {0},
         \A i \in 1..Len(payments) : payments[i][2] = share, NEW a
  PROVE  Bal(Pay(w, payments), a)
           = Bal(w, a) + share * Cardinality(Listed(payments, a, Len(payments)))
<1> DEFINE n == Len(payments)
           P == Paid(w, payments)
           C(i) == Cardinality(Listed(payments, a, i))
           Good == {i \in 0..n : World(P[i]) /\ Bal(P[i], a) = Bal(w, a) + share * C(i)}
<1>1. P[0] = w /\ \A i \in 1..n : P[i] = PayStep(P[i - 1], payments[i])
  BY PaidSteps
<1>2. Bal(w, a) \in Nat
  BY BalNat
<1> HIDE DEF P
<1>3. 0 \in Good
  <2>1. C(0) = 0
    BY ListedMore
  <2> HIDE DEF C
  <2> QED BY <1>1, <1>2, <2>1, Multiples
<1>4. ASSUME NEW i \in 1..n, i - 1 \in Good PROVE i \in Good
  <2> DEFINE v == P[i - 1]
             p == payments[i]
             j == i - 1
             more == IF p[1] = a THEN 1 ELSE 0
  <2>1. World(v) /\ Bal(v, a) = Bal(w, a) + share * C(j) /\ p[2] = share
    BY <1>4
  <2>2. P[i] = Credit(v, p[1], share)
    BY <1>1, <2>1 DEF PayStep
  <2> HIDE DEF v
  <2>3. /\ World(P[i]) /\ Bal(P[i], a) = Bal(v, a) + IF a = p[1] THEN share ELSE 0
    BY <2>1, <2>2, Credits DEF LedgerOnly
  <2>4. j \in Nat /\ j + 1 = i
    OBVIOUS
  <2> HIDE DEF j
  <2>5. C(j) \in Nat /\ C(i) = C(j) + more
    BY <2>4, ListedMore
  <2> HIDE DEF C
  <2>6. Bal(P[i], a) = Bal(w, a) + share * C(i)
    <3>1. CASE p[1] = a
      <4>1. Bal(P[i], a) = (Bal(w, a) + share * C(j)) + share /\ C(i) = C(j) + 1
        BY <2>1, <2>3, <2>5, <3>1
      <4>2. (Bal(w, a) + share * C(j)) + share = Bal(w, a) + share * (C(j) + 1)
        BY <1>2, <2>5, Multiples
      <4> QED BY <4>1, <4>2
    <3>2. CASE p[1] # a
      <4>1. Bal(P[i], a) = (Bal(w, a) + share * C(j)) + 0 /\ C(i) = C(j) + 0
        BY <2>1, <2>3, <2>5, <3>2
      <4>2. (Bal(w, a) + share * C(j)) + 0 = Bal(w, a) + share * (C(j) + 0)
        BY <1>2, <2>5, Multiples
      <4> QED BY <4>1, <4>2
    <3> QED BY <3>1, <3>2
  <2> QED BY <2>3, <2>6
<1> HIDE DEF Good
<1>5. \A i \in 0..n : i \in Good
  BY <1>3, <1>4, Along
<1>6. n \in Good
  BY <1>5
<1> QED BY <1>6 DEF Good, Pay, P

LEMMA Shares ==
  ASSUME NEW n \in Nat, NEW m \in Nat, m > 0
  PROVE  /\ n \div m \in Nat /\ (n \div m) * m \in Nat /\ (n \div m) * m <= n
         /\ n - (n \div m) * m = n % m
         /\ n \div m = 0 => n % m = n
<1>1. n \div m \in Nat /\ n % m \in Nat /\ n = m * (n \div m) + (n % m)
  OBVIOUS
<1>2. m * (n \div m) = (n \div m) * m /\ (n \div m) * m \in Nat
  BY <1>1
<1> QED BY <1>1, <1>2

Times(holders, p) == Cardinality({i \in DOMAIN holders : holders[i] = p})

LEMMA TimesNat ==
  ASSUME NEW holders, IsSeq(holders), NEW p
  PROVE  Times(holders, p) \in Nat
<1>1. IsFiniteSet(DOMAIN holders)
  BY LenProperties, FS_Interval DEF IsSeq
<1>2. {i \in DOMAIN holders : holders[i] = p} \subseteq DOMAIN holders
  OBVIOUS
<1> QED BY <1>1, <1>2, FS_Subset, FS_CardinalityType DEF Times

(* A distribution: the vault keeps what does not divide, and each holder has *)
(* its shares, in its wallet or in its account.                              *)
LEMMA DistributePays ==
  ASSUME NEW w, Ready(w), w.curve.creator = SharingConfig(Mint)
  PROVE  LET holders == w.shareholders
             v == Distribute(w, holders)
             share == Bal(w, Vault(w)) \div Len(holders)
         IN  /\ LedgerOnly(w, v)
             /\ Bal(v, Vault(w)) = Bal(w, Vault(w)) % Len(holders)
             /\ Bal(v, AmmVault(w)) = Bal(w, AmmVault(w))
             /\ \A p \in ToSet(holders) :
                  Bal(v, p) + Bal(v, QuoteAta(w, p))
                    = Bal(w, p) + Bal(w, QuoteAta(w, p)) + share * Times(holders, p)
<1> DEFINE holders == w.shareholders
           n == Len(holders)
           vault == Vault(w)
           share == Bal(w, vault) \div n
           AccountOf(h) == IF Quote(w) = NATIVE_MINT THEN h ELSE QuoteAta(w, h)
           payments == [i \in DOMAIN holders |-> <<AccountOf(holders[i]), share>>]
           d == Debit(w, vault, share * n)
           v == Distribute(w, holders)
<1>1. World(w) /\ holders \in Holders
  BY DEF Ready, Sound
<1>2. IsSeq(holders) /\ holders # <<>> /\ \A i \in DOMAIN holders : ~IsDerived(holders[i])
  BY <1>1, WalletAssumption DEF IsSeq
<1>3. n \in Nat /\ n > 0 /\ DOMAIN holders = 1..n
  BY <1>2, LenProperties, EmptySeq DEF IsSeq
<1>4. v = IF share = 0 THEN w ELSE Pay(d, payments)
  BY DEF Distribute, Vault
<1>5. \A a : Bal(w, a) \in Nat
  BY <1>1, BalNat
<1>6. /\ share \in Nat /\ share * n \in Nat /\ Bal(w, vault) >= share * n
      /\ Bal(w, vault) - share * n = Bal(w, vault) % n
      /\ share = 0 => Bal(w, vault) % n = Bal(w, vault)
  <2> HIDE DEF vault
  <2> QED BY <1>3, <1>5, Shares
<1>7. /\ DOMAIN payments = DOMAIN holders /\ payments = [i \in DOMAIN payments |-> payments[i]]
      /\ \A i \in DOMAIN holders :
           payments[i][1] = AccountOf(holders[i]) /\ payments[i][2] = share
  OBVIOUS
<1>8. LedgerOnly(w, v)
  BY <1>1, Distributes
<1>9. \A p \in ToSet(holders) : ~IsDerived(p) /\ Times(holders, p) \in Nat
  BY <1>2, TimesNat DEF ToSet
<1>10. CASE share = 0
  <2>1. v = w
    BY <1>4, <1>10
  <2>2. \A p \in ToSet(holders) : share * Times(holders, p) = 0
    BY <1>9, <1>10
  <2> HIDE DEF v, share, vault
  <2>3. Bal(v, vault) = Bal(w, vault) % n
    BY <1>6, <1>10, <2>1
  <2>4. \A p \in ToSet(holders) :
          Bal(v, p) + Bal(v, QuoteAta(w, p))
            = Bal(w, p) + Bal(w, QuoteAta(w, p)) + share * Times(holders, p)
    BY <1>5, <2>1, <2>2
  <2> QED BY <1>8, <2>1, <2>3, <2>4 DEF v, share, vault
<1>11. CASE share # 0
  <2> DEFINE C(a) == Cardinality(Listed(payments, a, n))
  <2> HIDE DEF payments, share, vault, n
  <2>1. Len(payments) = n
    BY <1>2, <1>7, Mapped DEF n
  <2>2. World(d) /\ \A a : Bal(d, a) = Bal(w, a) - IF a = vault THEN share * n ELSE 0
    BY <1>1, <1>6, Debits DEF LedgerOnly
  <2> HIDE DEF d, v
  <2>3. \A a : Bal(v, a) = Bal(d, a) + share * C(a)
    <3>1. \A i \in 1..Len(payments) : payments[i][2] = share
      BY <1>3, <1>7, <2>1
    <3>2. \A a : Bal(Pay(d, payments), a)
                   = Bal(d, a) + share * Cardinality(Listed(payments, a, Len(payments)))
      BY <1>3, <1>6, <1>11, <2>1, <2>2, <3>1, PaysEach
    <3> QED BY <1>4, <1>11, <2>1, <3>2
  <2>4. \A a : (\A i \in DOMAIN holders : AccountOf(holders[i]) # a) => C(a) = 0
    <3> TAKE a
    <3> SUFFICES ASSUME \A i \in DOMAIN holders : AccountOf(holders[i]) # a PROVE C(a) = 0
      OBVIOUS
    <3>1. Listed(payments, a, n) = {}
      <4> HIDE DEF AccountOf
      <4> QED BY <1>3, <1>7 DEF Listed
    <3> QED BY <3>1, FS_EmptySet
  <2>5. /\ vault # AmmVault(w)
        /\ \A p : ~IsDerived(p) =>
              /\ vault # p /\ AmmVault(w) # p
              /\ vault # QuoteAta(w, p) /\ AmmVault(w) # QuoteAta(w, p)
        /\ \A p, q : ~IsDerived(p) => p # QuoteAta(w, q)
        /\ \A p, q : QuoteAta(w, p) = QuoteAta(w, q) => p = q
    BY Separate DEF vault
  <2>6. C(vault) = 0 /\ C(AmmVault(w)) = 0
    BY <1>2, <2>4, <2>5
  <2>7. Bal(v, vault) = Bal(w, vault) % n /\ Bal(v, AmmVault(w)) = Bal(w, AmmVault(w))
    <3>1. share * 0 = 0
      BY <1>6
    <3>2. Bal(d, vault) = Bal(w, vault) - share * n /\ Bal(d, AmmVault(w)) = Bal(w, AmmVault(w))
      BY <1>5, <1>6, <2>2, <2>5
    <3>3. Bal(v, vault) = Bal(d, vault) + 0 /\ Bal(v, AmmVault(w)) = Bal(d, AmmVault(w)) + 0
      BY <2>3, <2>6, <3>1
    <3> QED BY <1>5, <1>6, <3>2, <3>3
  <2>8. ASSUME NEW p \in ToSet(holders)
        PROVE  Bal(v, p) + Bal(v, QuoteAta(w, p))
                 = Bal(w, p) + Bal(w, QuoteAta(w, p)) + share * Times(holders, p)
    <3> DEFINE q == QuoteAta(w, p)
               into == AccountOf(p)
               other == IF Quote(w) = NATIVE_MINT THEN q ELSE p
    <3>1. ~IsDerived(p)
      BY <1>9, <2>8
    <3>2. p # vault /\ q # vault /\ p # q
      BY <2>5, <3>1
    <3>3. \A i \in DOMAIN holders : AccountOf(holders[i]) # other
      BY <1>2, <2>5, <3>1
    <3>4. \A i \in DOMAIN holders : AccountOf(holders[i]) = into <=> holders[i] = p
      BY <2>5
    <3>5. Listed(payments, into, n) = {i \in DOMAIN holders : holders[i] = p}
      <4> HIDE DEF AccountOf, into
      <4> QED BY <1>3, <1>7, <3>4 DEF Listed
    <3>6. C(into) = Times(holders, p) /\ C(other) = 0
      <4> HIDE DEF other, AccountOf, into
      <4> QED BY <2>4, <3>3, <3>5 DEF Times
    <3>7. Bal(d, into) = Bal(w, into) /\ Bal(d, other) = Bal(w, other)
      BY <1>5, <2>2, <3>2
    <3>8. (into = p /\ other = q) \/ (into = q /\ other = p)
      OBVIOUS
    <3> HIDE DEF into, other, C, q, AccountOf
    <3>9. share * 0 = 0 /\ share * Times(holders, p) \in Nat
      BY <1>6, <1>9, <2>8
    <3>10. Bal(v, into) = Bal(w, into) + share * Times(holders, p) /\ Bal(v, other) = Bal(w, other) + 0
      BY <2>3, <3>6, <3>7, <3>9
    <3>11. Bal(v, p) + Bal(v, q) = Bal(w, p) + Bal(w, q) + share * Times(holders, p)
      BY <1>5, <3>8, <3>9, <3>10
    <3> QED BY <3>11 DEF q
  <2> QED BY <1>8, <2>7, <2>8 DEF v, share, vault, n
<1> QED BY <1>10, <1>11

LEMMA PrefixOfItself ==
  ASSUME NEW s, IsSeq(s)
  PROVE  IsPrefix(s, s)
<1>1. Len(s) \in Nat
  BY LenProperties DEF IsSeq
<1> QED BY <1>1 DEF IsPrefix

(* A payout: nothing is refused, what is owed is taken down to left, and     *)
(* each payee has its shares of it.                                          *)
Payout(w, v, payees, share, left) ==
  /\ v.err = "none"
  /\ Owed(v) = left
  /\ \A p \in ToSet(payees) : InHand(v, p) = InHand(w, p) + share * Times(payees, p)

(* What the program expects of the accounts is a sequence. *)
LEMMA HoldersSeq ==
  ASSUME NEW w, IsSeq(w.shareholders)
  PROVE  IsSeq(HolderAccounts(w))
<1> DEFINE holders == w.shareholders
           token == Quote(w) # NATIVE_MINT
           atas == [i \in DOMAIN holders |-> QuoteAta(w, holders[i])]
           tail == IF token THEN atas ELSE <<>>
<1>1. DOMAIN atas = DOMAIN holders /\ atas = [i \in DOMAIN atas |-> atas[i]]
      /\ \A i \in DOMAIN atas : atas[i] \in ToSet(atas)
  BY DEF ToSet
<1>2. HolderAccounts(w) = holders \o tail
  BY Zenon DEF HolderAccounts
<1> HIDE DEF atas
<1>3. IsSeq(atas)
  <2>1. Len(holders) \in Nat /\ DOMAIN atas = 1..Len(holders)
    BY <1>1, LenProperties DEF IsSeq
  <2> DEFINE S == ToSet(atas)
  <2>2. atas \in [1..Len(holders) -> S]
    BY <1>1, <2>1
  <2> HIDE DEF S
  <2>3. atas \in Seq(S)
    BY <2>1, <2>2
  <2> QED BY <2>3 DEF S, IsSeq
<1>4. IsSeq(<<>>)
  BY DEF IsSeq
<1>5. IsSeq(tail)
  BY <1>3, <1>4
<1> HIDE DEF tail
<1> QED BY <1>2, <1>5, IsSeqConcat

(* The distribution accepts a swept coin whose holders have their accounts.  *)
LEMMA DistributeRuns ==
  ASSUME NEW w, Ready(w), w.curve.creator = SharingConfig(Mint), w.curve.creator_fee = 0,
         \A i \in DOMAIN w.shareholders : Has(w, QuoteAta(w, w.shareholders[i]))
  PROVE  \E m : /\ LedgerOnly(w, m) /\ \A a : Bal(m, a) = Bal(w, a)
                /\ Step(w, DistributeCreatorFeesV2Instruction(User, Mint, w.curve.creator,
                             w.curve.quote_mint, SPL_TOKEN, TRUE, w.shareholders))
                     = Distribute(m, w.shareholders)
<1> DEFINE holders == w.shareholders
           ix == DistributeCreatorFeesV2Instruction(User, Mint, w.curve.creator,
                   w.curve.quote_mint, SPL_TOKEN, TRUE, holders)
           ata == QuoteAta(w, CreatorVault(w.curve.creator))
           token == Quote(w) # NATIVE_MINT
           m == IF token THEN Credit(w, ata, 0) ELSE w
           v == Distribute(m, holders)
<1>1. /\ World(w) /\ Sound(w) /\ w.err = "none" /\ w.curve.exists /\ DOMAIN w = Fields
      /\ holders \in Holders
  BY DEF Ready, Sound, World
<1>2. IsSeq(holders) /\ \A i \in DOMAIN holders : ~IsDerived(holders[i])
  BY <1>1, WalletAssumption DEF IsSeq
<1>3. /\ ix.op = "distribute_creator_fees_v2" /\ ix.rest = HolderAccounts(w)
      /\ ix.a.creator_vault = CreatorVault(w.curve.creator)
      /\ ix.a.creator_vault_quote_token_account = ata /\ ix.args.initialize_ata = TRUE
  BY DEF DistributeCreatorFeesV2Instruction, Ix, HolderAccounts, QuoteAta, Quote
<1> HIDE DEF ix
<1>4. IsPrefix(HolderAccounts(w), HolderAccounts(w))
  BY <1>2, HoldersSeq, PrefixOfItself
<1>5. /\ LedgerOnly(w, m) /\ \A a : Bal(m, a) = Bal(w, a)
  <2>1. \A a : Bal(w, a) \in Nat
    BY <1>1, BalNat
  <2>2. LedgerOnly(w, w)
    BY <1>1 DEF LedgerOnly
  <2>3. /\ LedgerOnly(w, Credit(w, ata, 0))
        /\ \A a : Bal(Credit(w, ata, 0), a) = Bal(w, a) + IF a = ata THEN 0 ELSE 0
    BY <1>1, Credits
  <2>4. \A a : Bal(Credit(w, ata, 0), a) = Bal(w, a)
    BY <2>1, <2>3
  <2> QED BY <2>2, <2>3, <2>4
<1>6. Step(w, ix) = v
  <2>1. Step(w, ix) = ExecDistribute(w, ix)
    BY <1>1, <1>3, Dispatch DEF Step
  <2>2. ~(w.curve.creator_fee > 0)
    BY <1>1
  <2> DEFINE rest == Refuse(w, token /\ ~ix.args.initialize_ata /\ ~Has(w, ata),
                            "AccountNotInitialized", v)
  <2>3. ExecDistribute(w, ix) = SharesChecked(w, CreatorVault(w.curve.creator),
                                              HolderAccounts(w), rest)
    BY <1>3, Zenon DEF ExecDistribute
  <2>4. rest = v
    BY <1>3, Zenon DEF Refuse
  <2> HIDE DEF rest, v
  <2>5. SharesChecked(w, CreatorVault(w.curve.creator), HolderAccounts(w), rest) = rest
    BY <1>4, <2>2, Zenon DEF SharesChecked, Refuse
  <2> QED BY <2>1, <2>3, <2>4, <2>5
<1> QED BY <1>5, <1>6 DEF ix

LEMMA DistributePayout ==
  ASSUME NEW w, Ready(w), w.curve.creator = SharingConfig(Mint),
         w.curve.creator_fee = 0, w.pool.creator_fees = 0, Pooled(w) = 0,
         \A i \in DOMAIN w.shareholders : Has(w, QuoteAta(w, w.shareholders[i]))
  PROVE  LET holders == w.shareholders
         IN  Payout(w, Step(w, DistributeCreatorFeesV2Instruction(User, Mint, w.curve.creator,
                                 w.curve.quote_mint, SPL_TOKEN, TRUE, holders)),
                    holders, Owed(w) \div Len(holders), Owed(w) % Len(holders))
<1> DEFINE holders == w.shareholders
           ix == DistributeCreatorFeesV2Instruction(User, Mint, w.curve.creator,
                   w.curve.quote_mint, SPL_TOKEN, TRUE, holders)
           n == Len(holders)
           share == Owed(w) \div n
<1>1. /\ World(w) /\ Sound(w) /\ w.err = "none" /\ w.curve.exists /\ DOMAIN w = Fields
      /\ holders \in Holders
  BY DEF Ready, Sound, World
<1> HIDE DEF ix
<1>2. PICK m : /\ LedgerOnly(w, m) /\ \A a : Bal(m, a) = Bal(w, a)
               /\ Step(w, ix) = Distribute(m, holders)
  BY DistributeRuns DEF ix
<1> DEFINE v == Distribute(m, holders)
<1>3. Step(w, ix) = v
  BY <1>2
<1>4. Cash(w, m)
  BY <1>2, CashSame
<1>5. /\ Ready(m) /\ m.curve = w.curve /\ m.shareholders = holders
      /\ Vault(m) = Vault(w) /\ AmmVault(m) = AmmVault(w)
      /\ \A p : QuoteAta(m, p) = QuoteAta(w, p)
  BY <1>1, <1>2, <1>4, SameAccounts DEF Cash, LedgerOnly
<1>6. Owed(w) = Bal(w, Vault(w))
  <2>1. Owed(w) = 0 + 0 + Bal(w, Vault(w)) + 0 /\ Bal(w, Vault(w)) \in Nat
    BY <1>1, OwedNat
  <2> QED BY <2>1
<1>7. /\ LedgerOnly(m, v)
       /\ Bal(v, Vault(w)) = Owed(w) % n
       /\ Bal(v, AmmVault(w)) = Bal(w, AmmVault(w))
       /\ \A p \in ToSet(holders) :
            Bal(v, p) + Bal(v, QuoteAta(w, p))
              = Bal(w, p) + Bal(w, QuoteAta(w, p)) + share * Times(holders, p)
  <2> DEFINE some == Bal(m, Vault(m)) \div Len(m.shareholders)
  <2>1. some = share
    BY <1>2, <1>5, <1>6
  <2>2. /\ LedgerOnly(m, v)
        /\ Bal(v, Vault(m)) = Bal(m, Vault(m)) % Len(m.shareholders)
        /\ Bal(v, AmmVault(m)) = Bal(m, AmmVault(m))
        /\ \A p \in ToSet(m.shareholders) :
             Bal(v, p) + Bal(v, QuoteAta(m, p))
               = Bal(m, p) + Bal(m, QuoteAta(m, p)) + some * Times(m.shareholders, p)
    BY <1>5, DistributePays
  <2> HIDE DEF v, some, share
  <2> QED BY <1>2, <1>5, <1>6, <2>1, <2>2
<1> HIDE DEF v, share, n
<1>8. LedgerOnly(w, v)
  BY <1>2, <1>7 DEF LedgerOnly
<1>9. Sound(v) /\ Frame(w, v) /\ v.curve = w.curve /\ v.pool = w.pool /\ v.err = "none"
  BY <1>1, <1>8, LedgerOnlySound DEF LedgerOnly
<1>10. Vault(v) = Vault(w) /\ AmmVault(v) = AmmVault(w) /\ \A p : QuoteAta(v, p) = QuoteAta(w, p)
  BY <1>1, <1>9, SameAccounts
<1>11. Pooled(v) = 0
  BY <1>7, <1>9, <1>10 DEF Pooled
<1>12. Owed(v) = Owed(w) % n
  <2>1. Owed(v) = 0 + 0 + Bal(v, Vault(v)) + 0 /\ Bal(v, Vault(v)) \in Nat
    BY <1>9, <1>11, OwedNat
  <2> QED BY <1>7, <1>10, <2>1
<1>13. \A p \in ToSet(holders) : InHand(v, p) = InHand(w, p) + share * Times(holders, p)
  BY <1>7, <1>10 DEF InHand
<1> QED BY <1>3, <1>9, <1>12, <1>13 DEF Payout, share, n, ix

(* A collect: the creator takes the whole of one vault into its wallet or    *)
(* its account.                                                              *)
Takes(w, v, vault) ==
  /\ Ready(v) /\ Frame(w, v) /\ v.curve = w.curve /\ v.pool = w.pool
  /\ Owed(v) = Owed(w) - Bal(w, vault)
  /\ InHand(v, w.curve.creator) = InHand(w, w.curve.creator) + Bal(w, vault)
  /\ \A a \in {Vault(w), AmmVault(w)} : Bal(v, a) = IF a = vault THEN 0 ELSE Bal(w, a)

LEMMA MoveTakes ==
  ASSUME NEW w, Ready(w), ~IsDerived(w.curve.creator),
         NEW vault \in {Vault(w), AmmVault(w)}, vault = AmmVault(w) => w.pool.exists,
         NEW to \in {w.curve.creator, QuoteAta(w, w.curve.creator)}
  PROVE  Takes(w, MoveAll(w, vault, to), vault)
<1> DEFINE c == w.curve.creator
           v == MoveAll(w, vault, to)
<1>1. World(w) /\ Sound(w) /\ w.err = "none" /\ w.curve.exists
  BY DEF Ready, Sound
<1>2. /\ LedgerOnly(w, v)
      /\ \A a : Bal(v, a) = Bal(w, a) - (IF a = vault THEN Bal(w, vault) ELSE 0)
                                      + (IF a = to THEN Bal(w, vault) ELSE 0)
  BY <1>1, MovesAll
<1> HIDE DEF v
<1>3. Sound(v) /\ Frame(w, v)
  BY <1>1, <1>2, LedgerOnlySound
<1>4. /\ v.pool = w.pool /\ v.curve = w.curve /\ v.err = "none"
  BY <1>1, <1>2 DEF LedgerOnly
<1>5. Vault(v) = Vault(w) /\ AmmVault(v) = AmmVault(w) /\ QuoteAta(v, c) = QuoteAta(w, c)
  BY <1>1, <1>3, SameAccounts
<1>6. \A a : Bal(w, a) \in Nat
  BY <1>1, BalNat
<1>7. /\ Vault(w) # AmmVault(w) /\ c # QuoteAta(w, c)
      /\ \A a \in {Vault(w), AmmVault(w)} : a # c /\ a # QuoteAta(w, c)
  BY Separate
<1>8. \A a \in {Vault(w), AmmVault(w)} : Bal(v, a) = IF a = vault THEN 0 ELSE Bal(w, a)
  BY <1>2, <1>6, <1>7
<1>9. Bal(v, c) + Bal(v, QuoteAta(w, c)) = Bal(w, c) + Bal(w, QuoteAta(w, c)) + Bal(w, vault)
  BY <1>2, <1>6, <1>7
<1>10. Owed(v) = Owed(w) - Bal(w, vault)
  <2>1. Owed(v) = v.curve.creator_fee + v.pool.creator_fees + Bal(v, Vault(v)) + Pooled(v)
    BY <1>3, OwedNat
  <2>2. Owed(w) = w.curve.creator_fee + w.pool.creator_fees + Bal(w, Vault(w)) + Pooled(w)
    BY <1>1, OwedNat
  <2>3. /\ w.curve.creator_fee \in Nat /\ w.pool.creator_fees \in Nat /\ Pooled(w) \in Nat
    BY <1>1, OwedNat
  <2>4. CASE vault = Vault(w)
    <3>1. Pooled(v) = Pooled(w)
      BY <1>4, <1>5, <1>7, <1>8, <2>4 DEF Pooled
    <3> QED BY <1>4, <1>5, <1>6, <1>8, <2>1, <2>2, <2>3, <2>4, <3>1
  <2>5. CASE vault = AmmVault(w)
    <3>1. Pooled(v) = 0 /\ Pooled(w) = Bal(w, vault)
      BY <1>4, <1>5, <1>8, <2>5 DEF Pooled
    <3> QED BY <1>4, <1>5, <1>6, <1>7, <1>8, <2>1, <2>2, <2>3, <2>5, <3>1
  <2> QED BY <2>4, <2>5
<1>11. InHand(v, c) = InHand(w, c) + Bal(w, vault)
  BY <1>5, <1>9 DEF InHand
<1>12. Ready(v)
  BY <1>1, <1>3, <1>4 DEF Ready
<1> QED BY <1>3, <1>4, <1>8, <1>10, <1>11, <1>12 DEF Takes, v

(* A collect opens the creator's account and empties a vault into it.       *)
LEMMA CollectMoves ==
  ASSUME NEW w, Ready(w)
  PROVE  LET c == w.curve.creator
             v == Run(w, CollectCreatorFeeV2Instructions(User, c, w.curve.quote_mint,
                                                         SPL_TOKEN, TRUE))
         IN  \E m, to : /\ Cash(w, m) /\ v = MoveAll(m, Vault(m), to)
                        /\ to \in {m.curve.creator, QuoteAta(m, m.curve.creator)}
<1> DEFINE c == w.curve.creator
           create == CreateAta(User, c, Quote(w), SPL_TOKEN)
           collect == CollectCreatorFeeV2Instruction(c, w.curve.quote_mint, SPL_TOKEN)
           list == CollectCreatorFeeV2Instructions(User, c, w.curve.quote_mint, SPL_TOKEN, TRUE)
           m == Step(w, create)
           to == IF Quote(w) = NATIVE_MINT THEN c ELSE QuoteAta(w, c)
<1>1. Cash(w, m) /\ Has(m, QuoteAta(w, c))
  BY CreateCash
<1>2. list = <<create>> \o <<collect>>
  BY DEF CollectCreatorFeeV2Instructions, Quote
<1>3. Known(create) /\ Known(collect)
  BY PlainOps, KnownPlain, KnownCreateAta DEF CollectCreatorFeeV2Instruction
<1>4. /\ collect.op = "collect_creator_fee_v2" /\ collect.a.quote_mint = Quote(w)
      /\ collect.a.creator = c /\ collect.a.creator_vault = CreatorVault(c)
      /\ collect.a.creator_token_account = QuoteAta(w, c)
      /\ collect.a.creator_vault_token_account = QuoteAta(w, CreatorVault(c))
  BY DEF CollectCreatorFeeV2Instruction, Ix, QuoteAta, Quote
<1> HIDE DEF create, collect, list
<1>5. Run(w, list) = Step(m, collect)
  <2>1. IsSeq(<<create>>) /\ IsSeq(<<collect>>)
    BY <1>3, FitsOne DEF Fits
  <2>2. Run(w, <<create>> \o <<collect>>) = Run(Run(w, <<create>>), <<collect>>)
    BY <2>1, RunConcat
  <2>3. Run(w, <<create>>) = m
    BY RunOne
  <2>4. Run(m, <<collect>>) = Step(m, collect)
    BY RunOne
  <2> QED BY <1>2, <2>2, <2>3, <2>4
<1> HIDE DEF m
<1>6. /\ Ready(m) /\ m.err = "none" /\ m.curve.creator = c
      /\ Vault(m) = Vault(w) /\ Quote(m) = Quote(w) /\ QuoteAta(m, c) = QuoteAta(w, c)
  BY <1>1, SameAccounts DEF Cash, Ready
<1>7. Step(m, collect) = ExecCollectCreatorFee(m, collect)
  BY <1>4, <1>6, Dispatch DEF Step
<1>8. ExecCollectCreatorFee(m, collect) = MoveAll(m, Vault(m), to)
  <2>1. CASE Quote(w) = NATIVE_MINT
    <3>1. Vault(m) = CreatorVault(c) /\ to = c
      BY <1>6, <2>1 DEF Vault, VaultAccount
    <3> QED BY <1>4, <2>1, <3>1, Zenon DEF ExecCollectCreatorFee, Refuse
  <2>2. CASE Quote(w) # NATIVE_MINT
    <3>1. Vault(m) = QuoteAta(w, CreatorVault(c)) /\ to = QuoteAta(w, c)
      BY <1>6, <2>2 DEF Vault, VaultAccount, QuoteAta
    <3> HIDE DEF to
    <3> QED BY <1>1, <1>4, <2>2, <3>1, Zenon DEF ExecCollectCreatorFee, Refuse
  <2> QED BY <2>1, <2>2
<1>9. to \in {m.curve.creator, QuoteAta(m, m.curve.creator)}
  BY <1>6
<1> HIDE DEF to
<1>10. Run(w, list) = MoveAll(m, Vault(m), to)
  BY <1>5, <1>7, <1>8
<1> QED BY <1>1, <1>9, <1>10 DEF list

LEMMA CollectPoolMoves ==
  ASSUME NEW w, Ready(w), w.pool.exists
  PROVE  LET c == w.curve.creator
             v == Run(w, CollectCoinCreatorFeeInstructions(User, c, Quote(w), SPL_TOKEN, TRUE))
         IN  \E m, to : /\ Cash(w, m) /\ v = MoveAll(m, AmmVault(m), to)
                        /\ to \in {m.curve.creator, QuoteAta(m, m.curve.creator)}
                        /\ \A a : Bal(m, a) = Bal(w, a)
<1> DEFINE c == w.curve.creator
           create == CreateAta(User, c, Quote(w), SPL_TOKEN)
           collect == CollectCoinCreatorFeeInstruction(c, Quote(w), SPL_TOKEN)
           list == CollectCoinCreatorFeeInstructions(User, c, Quote(w), SPL_TOKEN, TRUE)
           m == Step(w, create)
           to == QuoteAta(w, c)
<1>1. Cash(w, m) /\ Has(m, QuoteAta(w, c)) /\ \A a : Bal(m, a) = Bal(w, a)
  BY CreateCash
<1>2. list = <<create>> \o <<collect>>
  BY DEF CollectCoinCreatorFeeInstructions
<1>3. Known(create) /\ Known(collect)
  BY PlainOps, KnownPlain, KnownCreateAta DEF CollectCoinCreatorFeeInstruction
<1>4. /\ collect.op = "collect_coin_creator_fee"
      /\ collect.a.coin_creator_token_account = QuoteAta(w, c)
      /\ collect.a.coin_creator_vault_ata = AmmVault(w)
  BY DEF CollectCoinCreatorFeeInstruction, Ix, QuoteAta, AmmVault, AmmVaultAccount
<1> HIDE DEF create, collect, list
<1>5. Run(w, list) = Step(m, collect)
  <2>1. IsSeq(<<create>>) /\ IsSeq(<<collect>>)
    BY <1>3, FitsOne DEF Fits
  <2>2. Run(w, <<create>> \o <<collect>>) = Run(Run(w, <<create>>), <<collect>>)
    BY <2>1, RunConcat
  <2>3. Run(w, <<create>>) = m
    BY RunOne
  <2>4. Run(m, <<collect>>) = Step(m, collect)
    BY RunOne
  <2> QED BY <1>2, <2>2, <2>3, <2>4
<1> HIDE DEF m
<1>6. /\ Ready(m) /\ m.err = "none" /\ m.curve.creator = c /\ m.pool.exists
      /\ AmmVault(m) = AmmVault(w) /\ QuoteAta(m, c) = QuoteAta(w, c)
  BY <1>1, SameAccounts DEF Cash, Ready
<1>7. Step(m, collect) = ExecCollectCoinCreatorFee(m, collect)
  BY <1>4, <1>6, Dispatch DEF Step
<1> HIDE DEF to
<1>8. ExecCollectCoinCreatorFee(m, collect) = MoveAll(m, AmmVault(m), to)
  BY <1>1, <1>4, <1>6, Zenon DEF ExecCollectCoinCreatorFee, Refuse, to
<1>9. to \in {m.curve.creator, QuoteAta(m, m.curve.creator)}
  BY <1>6 DEF to
<1>10. Run(w, list) = MoveAll(m, AmmVault(m), to)
  BY <1>5, <1>7, <1>8
<1> QED BY <1>1, <1>9, <1>10 DEF list

LEMMA CollectTakes ==
  ASSUME NEW w, Ready(w), ~IsDerived(w.curve.creator)
  PROVE  LET c == w.curve.creator
             v == Run(w, CollectCreatorFeeV2Instructions(User, c, w.curve.quote_mint,
                                                         SPL_TOKEN, TRUE))
         IN  \E m : Cash(w, m) /\ Takes(m, v, Vault(m))
<1> DEFINE v == Run(w, CollectCreatorFeeV2Instructions(User, w.curve.creator,
                                                       w.curve.quote_mint, SPL_TOKEN, TRUE))
<1>1. \E m, to : /\ Cash(w, m) /\ v = MoveAll(m, Vault(m), to)
                 /\ to \in {m.curve.creator, QuoteAta(m, m.curve.creator)}
  BY CollectMoves
<1> HIDE DEF v
<1>2. PICK m, to : /\ Cash(w, m) /\ v = MoveAll(m, Vault(m), to)
                   /\ to \in {m.curve.creator, QuoteAta(m, m.curve.creator)}
  BY <1>1
<1>3. Ready(m) /\ m.curve.creator = w.curve.creator /\ Vault(m) # AmmVault(m)
  BY <1>2, SameAccounts, Separate DEF Cash, Ready
<1>4. Takes(m, v, Vault(m))
  BY <1>2, <1>3, MoveTakes
<1> QED BY <1>2, <1>4 DEF v

LEMMA CollectPoolTakes ==
  ASSUME NEW w, Ready(w), w.pool.exists, ~IsDerived(w.curve.creator)
  PROVE  LET c == w.curve.creator
             v == Run(w, CollectCoinCreatorFeeInstructions(User, c, Quote(w), SPL_TOKEN, TRUE))
         IN  \E m : /\ Cash(w, m) /\ Takes(m, v, AmmVault(m))
                    /\ \A a : Bal(m, a) = Bal(w, a)
<1> DEFINE v == Run(w, CollectCoinCreatorFeeInstructions(User, w.curve.creator, Quote(w),
                                                         SPL_TOKEN, TRUE))
<1>1. \E m, to : /\ Cash(w, m) /\ v = MoveAll(m, AmmVault(m), to)
                 /\ to \in {m.curve.creator, QuoteAta(m, m.curve.creator)}
                 /\ \A a : Bal(m, a) = Bal(w, a)
  BY CollectPoolMoves
<1> HIDE DEF v
<1>2. PICK m, to : /\ Cash(w, m) /\ v = MoveAll(m, AmmVault(m), to)
                   /\ to \in {m.curve.creator, QuoteAta(m, m.curve.creator)}
                   /\ \A a : Bal(m, a) = Bal(w, a)
  BY <1>1
<1>3. Ready(m) /\ m.curve.creator = w.curve.creator /\ m.pool.exists
  BY <1>2, SameAccounts DEF Cash, Ready
<1>4. Takes(m, v, AmmVault(m))
  BY <1>2, <1>3, MoveTakes
<1> QED BY <1>2, <1>4 DEF v

LEMMA CashInHand ==
  ASSUME NEW w, Ready(w), NEW v, Cash(w, v), NEW p, ~IsDerived(p)
  PROVE  InHand(v, p) = InHand(w, p)
<1>1. QuoteAta(v, p) = QuoteAta(w, p)
  BY SameAccounts DEF Cash, Ready
<1> QED BY <1>1 DEF Cash, InHand

(* After the sweeps both buckets are empty. *)
Swept(w) == w.curve.creator_fee = 0 /\ w.pool.creator_fees = 0

LEMMA SweepsCash ==
  ASSUME Ready(chain)
  PROVE  Cash(chain, Run(chain, Sweeps)) /\ Swept(Run(chain, Sweeps))
<1> DEFINE a == SweepCreatorFeeInstruction(User, Mint, chain.curve.creator,
                                          chain.curve.quote_mint, SPL_TOKEN)
           b == SweepPoolCreatorFeeInstruction(User, chain.pool, SPL_TOKEN)
           m == IF OnPool THEN <<b>> ELSE <<>>
           w == Step(chain, a)
           v == Run(w, m)
<1>1. Sweeps = <<a>> \o m
  BY Zenon DEF Sweeps
<1>2. Known(a) /\ Known(b)
  BY PlainOps, KnownPlain DEF SweepCreatorFeeInstruction, SweepPoolCreatorFeeInstruction, Ix
<1>3. Cash(chain, w) /\ w.curve.creator_fee = 0
  BY SweepCash
<1> HIDE DEF a, b
<1>4. IsSeq(<<a>>) /\ IsSeq(m)
  BY <1>2, FitsOne, FitsNone DEF Fits
<1>5. Run(chain, Sweeps) = v
  <2> HIDE DEF m
  <2> QED BY <1>1, <1>4, RunConcat, RunOne
<1> HIDE DEF w
<1>6. Ready(w) /\ w.pool.exists = chain.pool.exists
  BY <1>3 DEF Cash
<1>7. CASE OnPool
  <2>1. v = Step(w, b)
    BY <1>7, RunOne
  <2>2. /\ chain.pool.coin_creator = chain.curve.creator /\ chain.pool.quote_mint = Quote(chain)
        /\ w.curve.creator = chain.curve.creator /\ Quote(w) = Quote(chain)
    BY <1>3, <1>7, PoolAccounts, SameAccounts DEF OnPool, Cash, Ready
  <2> HIDE DEF v
  <2>3. Cash(w, v) /\ v.pool.creator_fees = 0
    BY <1>6, <1>7, <2>1, <2>2, SweepPoolCash DEF b, OnPool
  <2>4. Cash(chain, v) /\ v.curve.creator_fee = 0
    BY <1>3, <2>3, CashThrough DEF Ready, Cash
  <2> QED BY <1>5, <2>3, <2>4 DEF Swept
<1>8. CASE ~OnPool
  <2>1. v = w
    BY <1>8, RunNone
  <2>2. w.pool.creator_fees = 0
    BY <1>6, <1>8 DEF OnPool, Ready, Sound, PoolMatches
  <2> QED BY <1>3, <1>5, <2>1, <2>2 DEF Swept
<1> QED BY <1>7, <1>8

(* A coin whose creator is a wallet: the collects take the two vaults.       *)
LEMMA CollectsPayout ==
  ASSUME Ready(chain), NEW w, Cash(chain, w), Swept(w), ~IsDerived(chain.curve.creator)
  PROVE  LET v == Run(w, Collects)
         IN  /\ v.err = "none" /\ Owed(v) = 0
             /\ InHand(v, chain.curve.creator) = InHand(w, chain.curve.creator) + Owed(w)
<1> DEFINE c == chain.curve.creator
           q == chain.curve.quote_mint
           l == CollectCreatorFeeV2Instructions(User, c, q, SPL_TOKEN, TRUE)
           p == CollectCoinCreatorFeeInstructions(User, c, Quote(chain), SPL_TOKEN, TRUE)
           m == IF OnPool THEN p ELSE <<>>
           u == Run(w, l)
           v == Run(u, m)
<1>1. /\ Ready(w) /\ w.curve.creator = c /\ w.curve.quote_mint = q /\ Quote(w) = Quote(chain)
      /\ w.pool.exists = chain.pool.exists
  BY SameAccounts DEF Cash, Ready
<1>2. Collects = l \o m
  BY Zenon DEF Collects
<1>3. Fits(l) /\ Fits(p)
  BY CollectListsFit
<1>4. \E x : Cash(w, x) /\ Takes(x, u, Vault(x))
  BY <1>1, CollectTakes
<1> HIDE DEF l, u
<1>5. PICK x : Cash(w, x) /\ Takes(x, u, Vault(x))
  BY <1>4
<1>6. Run(w, Collects) = v
  <2>1. IsSeq(l) /\ IsSeq(m)
    <3> HIDE DEF p
    <3> QED BY <1>3, FitsNone DEF Fits
  <2> HIDE DEF m
  <2> QED BY <1>2, <2>1, RunConcat DEF u
<1>7. /\ Ready(x) /\ x.curve.creator = c /\ Owed(x) = Owed(w) /\ InHand(x, c) = InHand(w, c)
      /\ Swept(x) /\ x.pool.exists = w.pool.exists
  BY <1>1, <1>5, CashInHand, SameAccounts DEF Cash, Ready, Swept
<1>8. /\ Ready(u) /\ u.curve = x.curve /\ u.pool = x.pool
      /\ Vault(u) = Vault(x) /\ AmmVault(u) = AmmVault(x) /\ Quote(u) = Quote(x)
  BY <1>5, <1>7, SameAccounts DEF Takes, Ready
<1>9. /\ Bal(u, Vault(x)) = 0 /\ Owed(u) = Owed(x) - Bal(x, Vault(x))
      /\ InHand(u, c) = InHand(x, c) + Bal(x, Vault(x))
  BY <1>5, <1>7 DEF Takes
<1>10. Owed(u) = Pooled(u)
  <2>1. Owed(u) = 0 + 0 + 0 + Pooled(u) /\ Pooled(u) \in Nat
    BY <1>7, <1>8, <1>9, OwedNat DEF Ready, Swept
  <2> QED BY <2>1
<1>11. Owed(x) \in Nat /\ Bal(x, Vault(x)) \in Nat /\ InHand(x, c) \in Nat /\ Owed(u) \in Nat
  BY <1>7, <1>8, OwedNat DEF Ready
<1>12. CASE ~OnPool
  <2>1. v = u
    BY <1>12, RunNone
  <2>2. Pooled(u) = 0
    BY <1>1, <1>7, <1>8, <1>12 DEF OnPool, Pooled
  <2> HIDE DEF v
  <2>3. Owed(x) = Bal(x, Vault(x))
    BY <1>9, <1>10, <1>11, <2>2
  <2> QED BY <1>6, <1>7, <1>8, <1>9, <1>10, <2>1, <2>2, <2>3 DEF Ready
<1>13. CASE OnPool
  <2>1. v = Run(u, p)
    BY <1>13
  <2>2. Quote(u) = Quote(chain) /\ u.curve.creator = c /\ u.pool.exists
    <3>1. Quote(x) = Quote(w)
      BY <1>1, <1>5, SameAccounts DEF Cash, Ready
    <3> QED BY <1>1, <1>7, <1>8, <1>13, <3>1 DEF OnPool
  <2> HIDE DEF v
  <2>3. \E y : Cash(u, y) /\ Takes(y, v, AmmVault(y)) /\ \A a : Bal(y, a) = Bal(u, a)
    BY <1>8, <2>1, <2>2, CollectPoolTakes
  <2>4. PICK y : Cash(u, y) /\ Takes(y, v, AmmVault(y)) /\ \A a : Bal(y, a) = Bal(u, a)
    BY <2>3
  <2>5. /\ Ready(y) /\ y.curve.creator = c /\ Owed(y) = Owed(u) /\ InHand(y, c) = InHand(u, c)
        /\ y.pool.exists /\ Swept(y)
    BY <1>7, <1>8, <2>2, <2>4, CashInHand, SameAccounts DEF Cash, Ready, Swept
  <2>6. /\ Ready(v) /\ v.curve = y.curve /\ v.pool = y.pool /\ Owed(v) = Owed(y) - Pooled(y)
        /\ InHand(v, c) = InHand(y, c) + Pooled(y)
    BY <2>4, <2>5 DEF Takes, Pooled
  <2>7. Pooled(y) = Pooled(u)
    BY <1>8, <2>2, <2>4, <2>5, SameAccounts DEF Pooled, Ready, Cash
  <2>8. v.err = "none" /\ Owed(v) = 0 /\ InHand(v, c) = InHand(u, c) + Owed(u)
    <3>1. Owed(u) - Owed(u) = 0
      BY <1>11
    <3> QED BY <1>10, <2>5, <2>6, <2>7, <3>1 DEF Ready
  <2>9. InHand(x, c) + Bal(x, Vault(x)) + (Owed(x) - Bal(x, Vault(x))) = InHand(x, c) + Owed(x)
    BY <1>11
  <2>10. InHand(v, c) = InHand(w, c) + Owed(w)
    BY <1>7, <1>9, <2>8, <2>9
  <2> QED BY <1>6, <2>8, <2>10
<1> QED BY <1>12, <1>13

(* A coin with a sharing config: the pool's vault goes to the curve's, and   *)
(* that is distributed.                                                      *)
LEMMA DistributionReaches ==
  ASSUME Ready(chain), NEW w, Cash(chain, w), Shared
  PROVE  \E v : /\ Cash(w, v) /\ v.curve.creator = chain.curve.creator
                /\ v.shareholders = chain.shareholders
                /\ v.curve.creator_fee = 0 /\ (w.pool.creator_fees = 0 => Pooled(v) = 0)
                /\ \A i \in DOMAIN v.shareholders : Has(v, QuoteAta(v, v.shareholders[i]))
                /\ Run(w, Distribution)
                     = Step(v, DistributeCreatorFeesV2Instruction(User, Mint, v.curve.creator,
                                 v.curve.quote_mint, SPL_TOKEN, TRUE, v.shareholders))
<1> DEFINE c == chain.curve.creator
           q == chain.curve.quote_mint
           holders == chain.shareholders
           transfer == TransferCreatorFeesToPumpV2Instruction(User, c, Quote(chain), SPL_TOKEN)
           first == IF OnPool THEN <<transfer>> ELSE <<>>
           sweep == SweepCreatorFeeInstruction(User, Mint, c, q, SPL_TOKEN)
           vault == CreateAta(User, CreatorVault(c), Quote(chain), SPL_TOKEN)
           creates == [i \in DOMAIN holders |-> CreateAta(User, holders[i], Quote(chain), SPL_TOKEN)]
           last == DistributeCreatorFeesV2Instruction(User, Mint, c, q, SPL_TOKEN, TRUE, holders)
           w1 == Run(w, first)
           w2 == Step(w1, sweep)
           w3 == Step(w2, vault)
           w4 == Run(w3, creates)
           Like(v) == /\ Cash(w, v) /\ Ready(v)
                      /\ v.curve.creator = c /\ v.curve.quote_mint = q
                      /\ Quote(v) = Quote(chain) /\ v.shareholders = holders
                      /\ v.pool.exists = chain.pool.exists
<1>1. Like(w)
  <2>1. Ready(w) /\ w.shareholders = holders /\ w.pool.exists = chain.pool.exists
    BY DEF Cash
  <2>2. w.curve.creator = c /\ w.curve.quote_mint = q /\ Quote(w) = Quote(chain)
    BY SameAccounts DEF Cash, Ready
  <2>3. Cash(w, w)
    BY <2>1, CashNone
  <2> QED BY <2>1, <2>2, <2>3
<1>2. ASSUME NEW u, Like(u), NEW v, Cash(u, v) PROVE Like(v)
  <2>1. Ready(v) /\ v.shareholders = holders /\ v.pool.exists = chain.pool.exists
    BY <1>2 DEF Cash
  <2>2. v.curve.creator = c /\ v.curve.quote_mint = q /\ Quote(v) = Quote(chain)
    BY <1>2, SameAccounts DEF Cash, Ready
  <2>3. Cash(w, v)
    BY <1>1, <1>2, CashThrough DEF Ready
  <2> QED BY <2>1, <2>2, <2>3
<1>3. IsSeq(holders) /\ \A p \in ToSet(holders) : ~IsDerived(p)
  BY WalletAssumption DEF Ready, Sound, Shared, IsSeq, ToSet
<1>4. Distribution = first \o (((<<sweep>> \o <<vault>>) \o creates) \o <<last>>)
  BY DEF Distribution, DistributeCreatorFeesV2Instructions, Quote
<1>5. Run(w, Distribution) = Step(w4, last)
  <2>1. /\ IsSeq(<<transfer>>) /\ IsSeq(<<sweep>>) /\ IsSeq(<<vault>>) /\ IsSeq(<<last>>)
    BY PlainOps, KnownPlain, KnownCreateAta, FitsOne
       DEF Fits, TransferCreatorFeesToPumpV2Instruction, SweepCreatorFeeInstruction,
           DistributeCreatorFeesV2Instruction, Ix
  <2>2. IsSeq(creates)
    BY <1>3, CreatesQuiet DEF Quiet, Fits
  <2> HIDE DEF transfer, sweep, vault, creates, last
  <2>3. IsSeq(first)
    BY <2>1, FitsNone DEF Fits
  <2> HIDE DEF first
  <2>4. IsSeq(<<sweep>> \o <<vault>>)
    BY <2>1, IsSeqConcat
  <2>5. IsSeq((<<sweep>> \o <<vault>>) \o creates)
    BY <2>2, <2>4, IsSeqConcat
  <2>6. IsSeq(((<<sweep>> \o <<vault>>) \o creates) \o <<last>>)
    BY <2>1, <2>5, IsSeqConcat
  <2>7. Run(w, Distribution) = Run(w1, ((<<sweep>> \o <<vault>>) \o creates) \o <<last>>)
    BY <1>4, <2>3, <2>6, RunConcat
  <2> HIDE DEF w1
  <2>8. Run(w1, ((<<sweep>> \o <<vault>>) \o creates) \o <<last>>)
          = Run(Run(w1, (<<sweep>> \o <<vault>>) \o creates), <<last>>)
    BY <2>1, <2>5, RunConcat
  <2>9. Run(w1, (<<sweep>> \o <<vault>>) \o creates)
          = Run(Run(w1, <<sweep>> \o <<vault>>), creates)
    BY <2>2, <2>4, RunConcat
  <2>10. Run(w1, <<sweep>> \o <<vault>>) = Run(Run(w1, <<sweep>>), <<vault>>)
    BY <2>1, RunConcat
  <2>11. Run(w1, <<sweep>>) = w2 /\ Run(w2, <<vault>>) = w3
    BY RunOne
  <2>12. Run(w4, <<last>>) = Step(w4, last)
    BY RunOne
  <2> HIDE DEF w2, w3
  <2> QED BY <2>7, <2>8, <2>9, <2>10, <2>11, <2>12
<1>6. Cash(w, w1) /\ (OnPool => Pooled(w1) = 0)
  <2>1. CASE OnPool
    <3>1. w1 = Step(w, transfer)
      BY <2>1, RunOne
    <3>2. w.pool.exists
      BY <1>1, <2>1 DEF OnPool
    <3> HIDE DEF w1
    <3> QED BY <1>1, <3>1, <3>2, TransferCash
  <2>2. CASE ~OnPool
    <3>1. w1 = w
      BY <2>2, RunNone
    <3> QED BY <1>1, <2>2, <3>1
  <2> QED BY <2>1, <2>2
<1> HIDE DEF w1
<1>7. Like(w1)
  BY <1>1, <1>2, <1>6
<1>8. Cash(w1, w2)
  BY <1>7, SweepCash
<1> HIDE DEF w2
<1>9. Like(w2)
  BY <1>2, <1>7, <1>8
<1>10. Cash(w2, w3)
  BY <1>9, CreateCash
<1> HIDE DEF w3
<1>11. Like(w3)
  BY <1>2, <1>9, <1>10
<1>12. Cash(w3, w4) /\ \A i \in DOMAIN holders : Has(w4, QuoteAta(w3, holders[i]))
  BY <1>3, <1>11, CreatesCash
<1> HIDE DEF w4
<1>13. Like(w4)
  BY <1>2, <1>11, <1>12
<1>14. \A i \in DOMAIN holders : Has(w4, QuoteAta(w4, w4.shareholders[i]))
  BY <1>11, <1>12, <1>13, SameAccounts DEF Cash, Ready
<1>15. w4.curve.creator_fee = 0
  <2>1. w2.curve.creator_fee = 0
    BY <1>7, SweepCash DEF w2
  <2> QED BY <1>10, <1>12, <2>1 DEF Cash
<1>16. w.pool.creator_fees = 0 => Pooled(w4) = 0
  <2>1. ASSUME OnPool, w.pool.creator_fees = 0 PROVE Pooled(w4) = 0
    <3>1. w1.pool.creator_fees = 0 /\ Pooled(w1) = 0
      BY <1>6, <2>1 DEF Cash
    <3>2. w2.pool.creator_fees = 0 /\ Pooled(w2) = 0
      BY <1>8, <3>1 DEF Cash
    <3>3. w3.pool.creator_fees = 0 /\ Pooled(w3) = 0
      BY <1>10, <3>2 DEF Cash
    <3> QED BY <1>12, <3>3 DEF Cash
  <2>2. ~OnPool => Pooled(w4) = 0
    BY <1>13 DEF OnPool, Pooled
  <2> QED BY <2>1, <2>2
<1> HIDE DEF last, holders
<1>17. Step(w4, last) = Step(w4, DistributeCreatorFeesV2Instruction(User, Mint, w4.curve.creator,
                                   w4.curve.quote_mint, SPL_TOKEN, TRUE, w4.shareholders))
  BY <1>13 DEF last
<1> QED BY <1>5, <1>13, <1>14, <1>15, <1>16, <1>17 DEF holders

LEMMA DistributionPayout ==
  ASSUME Ready(chain), NEW w, Cash(chain, w), Swept(w), Shared
  PROVE  LET holders == chain.shareholders
         IN  Payout(w, Run(w, Distribution), holders,
                    Owed(w) \div Len(holders), Owed(w) % Len(holders))
<1> DEFINE holders == chain.shareholders
<1>1. Ready(w)
  BY DEF Cash
<1>2. PICK v : /\ Cash(w, v) /\ v.curve.creator = chain.curve.creator
               /\ v.shareholders = holders
               /\ v.curve.creator_fee = 0 /\ (w.pool.creator_fees = 0 => Pooled(v) = 0)
               /\ \A i \in DOMAIN v.shareholders : Has(v, QuoteAta(v, v.shareholders[i]))
               /\ Run(w, Distribution)
                    = Step(v, DistributeCreatorFeesV2Instruction(User, Mint, v.curve.creator,
                                v.curve.quote_mint, SPL_TOKEN, TRUE, v.shareholders))
  BY DistributionReaches
<1> HIDE DEF holders
<1>3. /\ Ready(v) /\ v.curve.creator = SharingConfig(Mint)
      /\ v.curve.creator_fee = 0 /\ v.pool.creator_fees = 0 /\ Pooled(v) = 0
  BY <1>2 DEF Cash, Swept, Shared
<1>4. Payout(v, Run(w, Distribution), holders, Owed(v) \div Len(holders), Owed(v) % Len(holders))
  BY <1>2, <1>3, DistributePayout
<1>5. \A p \in ToSet(holders) : ~IsDerived(p)
  BY WalletAssumption DEF Ready, Sound, Shared, ToSet, holders
<1>6. Owed(v) = Owed(w) /\ \A p \in ToSet(holders) : InHand(v, p) = InHand(w, p)
  BY <1>1, <1>2, <1>5, CashInHand DEF Cash
<1> QED BY <1>4, <1>6 DEF Payout, holders

LEMMA OnePayee ==
  ASSUME NEW c
  PROVE  /\ Len(<<c>>) = 1 /\ ToSet(<<c>>) = {c} /\ Times(<<c>>, c) = 1
<1>1. DOMAIN <<c>> = {1} /\ <<c>>[1] = c /\ Len(<<c>>) = 1
  OBVIOUS
<1>2. {i \in DOMAIN <<c>> : <<c>>[i] = c} = {1}
  BY <1>1
<1>3. ToSet(<<c>>) = {c}
  BY <1>1 DEF ToSet
<1>4. Times(<<c>>, c) = 1
  BY <1>2, FS_Singleton DEF Times
<1> QED BY <1>1, <1>3, <1>4

(* Wherever the coin's fees are, the sweeps and then the collects or the     *)
(* distribution pay them to those they are owed to.                          *)
LEMMA CashesOut ==
  ASSUME Ready(chain)
  PROVE  Payout(chain, Run(chain, CashOut), Payees,
                Owed(chain) \div Len(Payees), Owed(chain) % Len(Payees))
<1> DEFINE w == Run(chain, Sweeps)
           c == chain.curve.creator
<1>1. Cash(chain, w) /\ Swept(w)
  BY SweepsCash
<1>2. IsSeq(Sweeps)
  BY SweepsQuiet DEF Quiet, Fits
<1>3. Owed(w) = Owed(chain) /\ Owed(chain) \in Nat
  BY <1>1, OwedNat DEF Cash, Ready
<1>4. \A p : ~IsDerived(p) => InHand(w, p) = InHand(chain, p)
  BY <1>1, CashInHand
<1>5. CASE Shared
  <2>1. CashOut = Sweeps \o Distribution /\ Payees = chain.shareholders
    BY <1>5, Zenon DEF CashOut, Payees
  <2>2. IsSeq(chain.shareholders) /\ \A p \in ToSet(Payees) : ~IsDerived(p)
    BY <1>5, <2>1, WalletAssumption DEF Ready, Sound, Shared, IsSeq, ToSet
  <2>3. IsSeq(Distribution)
    BY <2>2, DistributionFits DEF Fits
  <2>4. Run(chain, CashOut) = Run(w, Distribution)
    BY <1>2, <2>1, <2>3, RunConcat
  <2> HIDE DEF w
  <2>5. Payout(w, Run(w, Distribution), Payees, Owed(w) \div Len(Payees), Owed(w) % Len(Payees))
    BY <1>1, <1>5, <2>1, DistributionPayout
  <2> QED BY <1>3, <1>4, <2>2, <2>4, <2>5 DEF Payout
<1>6. CASE ~Shared
  <2>1. CashOut = Sweeps \o Collects /\ Payees = <<c>>
    BY <1>6, Zenon DEF CashOut, Payees
  <2>2. ~IsDerived(c)
    BY <1>6 DEF Ready, Sound, CurveShape, Ordinary, Shared
  <2>3. Run(chain, CashOut) = Run(w, Collects)
    BY <1>2, <2>1, CollectsFits, RunConcat DEF Fits
  <2> HIDE DEF w
  <2>4. LET v == Run(w, Collects)
        IN  v.err = "none" /\ Owed(v) = 0 /\ InHand(v, c) = InHand(chain, c) + Owed(chain)
    BY <1>1, <1>3, <1>4, <2>2, CollectsPayout
  <2>5. /\ Owed(chain) \div 1 = Owed(chain) /\ Owed(chain) % 1 = 0
        /\ Owed(chain) * 1 = Owed(chain)
    BY <1>3
  <2> QED BY <2>1, <2>3, <2>4, <2>5, OnePayee DEF Payout
<1> QED BY <1>5, <1>6

(* CreatorCanCashOut: no creator fee is stranded, wherever the chain, the    *)
(* others and the user's own lists have left it.                             *)
THEOREM CreatorCanCashOutHolds == Spec => []CreatorCanCashOut
<1>1. Inv => CreatorCanCashOut
  <2> SUFFICES ASSUME Inv, chain.curve.exists PROVE CreatorCanCashOut
    BY DEF CreatorCanCashOut
  <2>1. Ready(chain)
    BY DEF Inv, Ready
  <2>2. Payout(chain, Run(chain, CashOut), Payees,
               Owed(chain) \div Len(Payees), Owed(chain) % Len(Payees))
    BY <2>1, CashesOut
  <2> QED BY <2>2 DEF Payout, CreatorCanCashOut, Times
<1> QED BY <1>1, Invariance, PTL
=============================================================================
