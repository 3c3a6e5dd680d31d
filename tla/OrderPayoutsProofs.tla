------------------------- MODULE OrderPayoutsProofs -------------------------
(***************************************************************************)
(* What holds of the payouts of an order for any number of payments and    *)
(* items, any shares and any totals.                                       *)
(*                                                                         *)
(* The argument follows one payout through its life.  It is built while    *)
(* nobody sees its payment, from the sum confirmed at that moment; sums of *)
(* confirmed payouts only grow; and a confirmed payout is never changed    *)
(* again.  What each generator did (Drafts), what the vendors have         *)
(* (Coverage) and what the amounts are (Rounding) are invariants of their  *)
(* own; that nobody is overpaid by payments that knew of each other        *)
(* (Overpayment) needs only that a payout that is about to be confirmed    *)
(* either saw the present sum, or the same sum as a confirmed one.         *)
(***************************************************************************)
EXTENDS OrderPayouts, FiniteSetTheorems, TLAPS

\* How far a generator has come, and that nothing else happens to a payment
\* before it is visible.
Drafts ==
  \A k \in Payments :
    /\ confirmed[k] \subseteq made[k]
    /\ state[k] = "none" => at[k] = 1 /\ sum[k] = 0 /\ made[k] = {} /\ short[k] = {}
    /\ state[k] = "creating" => confirmed[k] = {} /\ \A p \in made[k] : p < at[k]
    /\ Visible(k) => at[k] = Store
    /\ state[k] = "completed" => made[k] = confirmed[k]

\* The generator has nothing left once it had to leave a vendor short.
NothingLeft ==
  \A k \in Payments : state[k] = "creating" /\ short[k] # {} => remaining[k] = 0

\* What is built and what is left are together what was asked for, up to half a
\* cent a payout.
Rounding ==
  \A k \in Payments : state[k] = "creating" =>
    /\ amount[k] = asked[k]
    /\ 2 * asked[k] <= 2 * (sum[k] + remaining[k]) + Cent * Cardinality(made[k])
    /\ 2 * (sum[k] + remaining[k]) <= 2 * asked[k] + Cent * Cardinality(made[k])

\* What each payout promised its vendor, and what the vendor had of it.
Coverage ==
  \A k \in Payments, i \in Items :
    /\ i \in made[k] => seen[k][i] <= got[i]
    /\ i \in made[k] /\ i \notin short[k] => seen[k][i] + payout[k][i] + Cent > Owed[i]
    /\ i \in confirmed[k] => seen[k][i] + payout[k][i] <= got[i]
    /\ i \notin made[k] /\ i < at[k] /\ (state[k] = "creating" \/ made[k] # {}) =>
         got[i] >= Owed[i]

Whole(a) == a % Cent = 0

\* Payouts are whole cents, and none is for more than its vendor was owed, to
\* the nearest cent.
WholeCents ==
  /\ \A i \in Payees : Whole(got[i])
  /\ \A k \in Payments, i \in Payees : Whole(payout[k][i])
  /\ \A k \in Payments, i \in Items :
       i \in made[k] => seen[k][i] + payout[k][i] <= InCents(Owed[i])

SameTotal(k, m, i) == seen[k][i] = seen[m][i]

\* A confirmed payout that gave the vendor anything: a share of less than half
\* a cent makes a payout of nothing.
Gave(k, i) == i \in confirmed[k] /\ payout[k][i] > 0

\* No two payouts that gave the vendor something started from the same total.
Sequential(i) ==
  \A k, m \in Payments : k # m /\ Gave(k, i) /\ Gave(m, i) => ~SameTotal(k, m, i)

\* While confirmed payouts followed one another, the next one to be confirmed
\* saw them all, or shares its total with one of them.
Overpayment ==
  \A i \in Items : Sequential(i) =>
    /\ got[i] <= InCents(Owed[i])
    /\ \A k \in Payments :
         i \in made[k] /\ i \notin confirmed[k] /\ payout[k][i] > 0 =>
           \/ seen[k][i] = got[i]
           \/ \E m \in Payments : Gave(m, i) /\ SameTotal(k, m, i)

\* The payments a request replaces are none it would have taken.
Replacement ==
  \A k, m \in Payments : state[k] = "creating" /\ m \in replaced[k] =>
    Visible(m) /\ amount[m] # asked[k]

-----------------------------------------------------------------------------
(* Cents.                                                                  *)

\* An amount is some cents and a part of one.
LEMMA CentParts ==
  ASSUME NEW a \in Nat
  PROVE  /\ Cent \in Nat /\ Cent > 0
         /\ a % Cent \in 0..(Cent - 1) /\ a \div Cent \in Nat
         /\ a = Cent * (a \div Cent) + (a % Cent)
BY PayoutsAssumption

\* Cents of a number are a number, and one more is a cent more.
LEMMA CentsGrow ==
  ASSUME NEW c \in Nat
  PROVE  /\ Cent \in Nat /\ Cent * c \in Nat
         /\ Cent * (c + 1) = Cent * c + Cent
BY PayoutsAssumption

\* It is so in one way only.
LEMMA PartsUnique ==
  ASSUME NEW q \in Nat, NEW p \in Nat,
         NEW x \in 0..(Cent - 1), NEW y \in 0..(Cent - 1),
         Cent * q + x = Cent * p + y
  PROVE  q = p /\ x = y
BY PayoutsAssumption, SMTT(30)

\* Whole cents more leave the part as it is.
LEMMA WholeAdds ==
  ASSUME NEW a \in Nat, NEW b \in Nat, Whole(b)
  PROVE  (a + b) % Cent = a % Cent
<1> DEFINE q == a \div Cent
           p == b \div Cent
           r == (a + b) \div Cent
           x == a % Cent
           y == (a + b) % Cent
<1>1. /\ Cent \in Nat /\ q \in Nat /\ x \in 0..(Cent - 1)
      /\ a = Cent * q + x
  BY CentParts
<1>2. p \in Nat /\ b = Cent * p + (b % Cent) /\ b % Cent = 0
  BY CentParts DEF Whole
<1>3. /\ a + b \in Nat
      /\ r \in Nat /\ y \in 0..(Cent - 1)
      /\ a + b = Cent * r + y
  <2>1. a + b \in Nat
    OBVIOUS
  <2> QED BY <2>1, CentParts
<1> HIDE DEF q, p, r, x, y
<1> DEFINE s == q + p
<1>4. a + b = Cent * s + x /\ s \in Nat
  BY <1>1, <1>2
<1> HIDE DEF s
<1>5. y = x
  <2>1. Cent * r + y = Cent * s + x
    BY <1>3, <1>4
  <2> QED BY <1>1, <1>3, <1>4, <2>1, PartsUnique
<1> QED BY <1>5 DEF x, y

\* An amount without its part is whole cents, and so is the next cent.
LEMMA PartTaken ==
  ASSUME NEW a \in Nat
  PROVE  /\ a - (a % Cent) \in Nat /\ Whole(a - (a % Cent))
         /\ a - (a % Cent) + Cent \in Nat /\ Whole(a - (a % Cent) + Cent)
<1> DEFINE q == a \div Cent
           x == a % Cent
<1>1. a - x = Cent * q /\ q \in Nat
  <2>1. /\ Cent \in Nat /\ q \in Nat /\ x \in 0..(Cent - 1)
        /\ a = Cent * q + x
    BY CentParts
  <2> HIDE DEF q, x
  <2>2. Cent * q \in Nat
    BY <2>1
  <2> QED BY <2>1, <2>2
<1> HIDE DEF q
<1>2. Cent * q \in Nat /\ Cent * q + Cent \in Nat /\ Cent * q + Cent = Cent * (q + 1)
  BY <1>1, CentsGrow
<1>3. \A n \in Nat : Cent * n \in Nat => Whole(Cent * n)
  <2> SUFFICES ASSUME NEW n \in Nat, Cent * n \in Nat
               PROVE  (Cent * n) % Cent = 0
    BY DEF Whole
  <2>1. Cent * n = Cent * ((Cent * n) \div Cent) + ((Cent * n) % Cent)
    BY CentParts
  <2>2. Cent * n = Cent * n + 0 /\ 0 \in 0..(Cent - 1)
    BY CentParts
  <2> QED BY <2>1, <2>2, CentParts, PartsUnique
<1> QED BY <1>1, <1>2, <1>3

\* The column keeps whole cents, no more than half a cent from the amount, and
\* less than that below it.
LEMMA InCentsFacts ==
  ASSUME NEW a \in Nat
  PROVE  /\ InCents(a) \in Nat /\ Whole(InCents(a))
         /\ 2 * InCents(a) <= 2 * a + Cent /\ 2 * a < 2 * InCents(a) + Cent
<1>1. /\ Cent \in Nat /\ Cent > 0 /\ a % Cent \in Nat /\ a % Cent < Cent
      /\ a % Cent <= a
  BY CentParts, PartTaken
<1> QED BY <1>1, PartTaken DEF InCents

\* What round_up is given is whole cents already, and stays as it is.
LEMMA RoundUpIdle ==
  ASSUME NEW a \in Nat
  PROVE  RoundUp(InCents(a)) = InCents(a)
BY InCentsFacts DEF RoundUp, Whole

\* Whole cents can be added before or after the rounding.
LEMMA InCentsAdds ==
  ASSUME NEW a \in Nat, NEW b \in Nat, Whole(b)
  PROVE  InCents(a) + b = InCents(a + b)
<1> DEFINE x == a % Cent
<1>1. (a + b) % Cent = x
  BY WholeAdds
<1>2. x \in Nat /\ Cent \in Nat
  <2>1. x \in 0..(Cent - 1) /\ Cent \in Nat
    BY CentParts
  <2> HIDE DEF x
  <2> QED BY <2>1
<1>3. InCents(a) = (IF 2 * x < Cent THEN a - x ELSE a - x + Cent)
  BY DEF InCents
<1> DEFINE c == a + b
           y == c % Cent
<1>4. InCents(c) = (IF 2 * y < Cent THEN c - y ELSE c - y + Cent)
  BY DEF InCents
<1>5. y = x
  BY <1>1
<1> HIDE DEF x, y
<1> QED BY <1>2, <1>3, <1>4, <1>5

\* Rounding keeps the order of two amounts.
LEMMA InCentsMonotone ==
  ASSUME NEW a \in Nat, NEW b \in Nat, a <= b
  PROVE  InCents(a) <= InCents(b)
<1> DEFINE q == a \div Cent
           p == b \div Cent
           x == a % Cent
           y == b % Cent
<1>1. /\ q \in Nat /\ p \in Nat /\ Cent \in Nat /\ Cent > 0
      /\ x \in 0..(Cent - 1) /\ y \in 0..(Cent - 1)
      /\ a - x = Cent * q /\ b - y = Cent * p
  <2>1. /\ q \in Nat /\ Cent \in Nat /\ Cent > 0 /\ x \in 0..(Cent - 1)
        /\ a = Cent * q + x
    BY CentParts
  <2>2. p \in Nat /\ y \in 0..(Cent - 1) /\ b = Cent * p + y
    BY CentParts
  <2> HIDE DEF q, p, x, y
  <2>3. Cent * q \in Nat /\ Cent * p \in Nat
    BY <2>1, <2>2
  <2> QED BY <2>1, <2>2, <2>3
<1>2. InCents(a) = (IF 2 * x < Cent THEN a - x ELSE a - x + Cent)
      /\ InCents(b) = (IF 2 * y < Cent THEN b - y ELSE b - y + Cent)
  BY DEF InCents
<1> HIDE DEF q, p, x, y
<1>3. CASE q = p
  BY <1>1, <1>2, <1>3
<1>4. CASE q < p
  <2>1. Cent * q + Cent <= Cent * p
    BY <1>1, <1>4
  <2> QED BY <1>1, <1>2, <2>1
<1>5. CASE q > p
  <2>1. Cent * p + Cent <= Cent * q
    BY <1>1, <1>5
  <2> QED BY <1>1, <1>2, <2>1
<1> QED BY <1>1, <1>3, <1>4, <1>5

-----------------------------------------------------------------------------
(* Type correctness.                                                       *)

\* Where items and the store stand.
LEMMA ItemFacts ==
  /\ Store \in Payees /\ Store \in Nat /\ Store \notin Items
  /\ \A p \in Payees : p \in Items \/ p = Store
  /\ \A i \in Items : /\ i \in Nat /\ i \in Payees /\ i < Store
                      /\ i + 1 \in 1..Store /\ Owed[i] \in Nat
BY PayoutsAssumption DEF Items, Store, Payees

\* What a step does: the transitions of a payment differ in their states only.
LEMMA NextCases ==
  ASSUME Next
  PROVE  \/ \E k \in Payments, t \in Totals : Create(k, t)
         \/ \E k \in Payments : VendorPayout(k) \/ Finish(k) \/ CustomerPays(k)
         \/ \E k \in Payments, p \in Payees : ConfirmPayout(k, p)
         \/ \E k \in Payments, to \in State \ {"none", "creating"} :
              \E from \in SUBSET (State \ {"none", "creating"}) :
                 /\ Become(k, from, to)
                 /\ to = "completed" => AllConfirmed(k)
BY DEF Next, Process, Reprocess, Complete, State

\* VendorPayout when the vendor is owed nothing.
VendorPasses(k) ==
  /\ state[k] = "creating" /\ at[k] \in Items
  /\ got[at[k]] >= Owed[at[k]]
  /\ at' = [at EXCEPT ![k] = @ + 1]
  /\ UNCHANGED <<state, replaced, asked, amount, remaining, sum, made, payout,
                 seen, short, confirmed, got, paid>>

\* VendorPayout when the vendor gets a, and is owed more or as much.
VendorBuilds(k, i, a, owed) ==
  /\ state[k] = "creating" /\ i = at[k] /\ i \in Items
  /\ owed + got[i] = Owed[i] /\ owed > 0
  /\ a <= owed /\ a <= remaining[k]
  /\ a < owed => a = remaining[k]
  /\ made' = [made EXCEPT ![k] = @ \cup {i}]
  /\ payout' = [payout EXCEPT ![k][i] = InCents(a)]
  /\ seen' = [seen EXCEPT ![k][i] = got[i]]
  /\ sum' = [sum EXCEPT ![k] = @ + InCents(a)]
  /\ remaining' = [remaining EXCEPT ![k] = @ - a]
  /\ short' = [short EXCEPT ![k] = IF InCents(owed - a) > 0 THEN @ \cup {i} ELSE @]
  /\ at' = [at EXCEPT ![k] = @ + 1]
  /\ UNCHANGED <<state, replaced, asked, amount, confirmed, got, paid>>

\* VendorPayout either passes the item or builds a payout within bounds.
LEMMA VendorCases ==
  ASSUME TypeOK, NEW k \in Payments, VendorPayout(k)
  PROVE  VendorPasses(k) \/ \E i \in Items, a, b \in Nat : VendorBuilds(k, i, a, b)
<1> DEFINE i == at[k]
           owed == Outstanding(i, got[i])
           a == PayoutAmount(owed, remaining[k])
<1>1. i \in Items /\ Owed[i] \in Nat /\ got[i] \in Nat /\ remaining[k] \in Nat
  BY ItemFacts DEF VendorPayout, TypeOK
<1>2. CASE got[i] >= Owed[i]
  BY <1>1, <1>2 DEF VendorPayout, VendorPasses, bank
<1>3. CASE got[i] < Owed[i]
  <2>1. /\ owed + got[i] = Owed[i] /\ owed \in Nat /\ owed > 0
        /\ a \in Nat /\ a <= owed /\ a <= remaining[k]
        /\ a < owed => a = remaining[k]
    BY <1>1, <1>3 DEF Outstanding, PayoutAmount
  <2>2. /\ Build(k, i, a, got[i])
        /\ remaining' = [remaining EXCEPT ![k] = @ - a]
        /\ short' = [short EXCEPT ![k] = IF InCents(owed - a) > 0 THEN @ \cup {i} ELSE @]
        /\ at' = [at EXCEPT ![k] = @ + 1]
        /\ state[k] = "creating" /\ i = at[k]
        /\ UNCHANGED <<state, replaced, asked, amount, confirmed, got, paid>>
    BY <1>1, <1>3 DEF VendorPayout, bank
  <2> HIDE DEF i, owed, a
  <2>3. VendorBuilds(k, i, a, owed)
    <3>1. RoundUp(InCents(a)) = InCents(a)
      BY <2>1, RoundUpIdle
    <3> QED BY <1>1, <2>1, <2>2, <3>1 DEF VendorBuilds, Build
  <2>4. QED
    BY <1>1, <2>1, <2>3
<1>4. QED
  BY <1>1, <1>2, <1>3

\* What Finish does to the states, and what it leaves alone.
FinishFrame(k) ==
  /\ state[k] = "creating" /\ at[k] = Store
  /\ state' = [m \in Payments |->
                 IF m = k THEN "checkout"
                 ELSE IF m \in replaced[k] THEN "invalid" ELSE state[m]]
  /\ UNCHANGED <<replaced, asked, remaining, at, short, confirmed, got, paid>>

\* Finish when the store gets the rest, r of it after rounding.
StoreAlso(k, r) ==
  /\ made[k] # {} /\ remaining[k] > 0 /\ r = InCents(remaining[k])
  /\ made' = [made EXCEPT ![k] = @ \cup {Store}]
  /\ payout' = [payout EXCEPT ![k][Store] = r]
  /\ seen' = [seen EXCEPT ![k][Store] = 0]
  /\ sum' = [sum EXCEPT ![k] = @ + r]
  /\ amount' = [amount EXCEPT ![k] = sum[k] + r]

\* Finish when the vendors' payouts are all there is.
VendorsOnly(k) ==
  /\ made[k] # {} /\ remaining[k] = 0
  /\ amount' = [amount EXCEPT ![k] = sum[k]]
  /\ UNCHANGED <<sum, made, payout, seen>>

\* Finish changes the states, and has one of three outcomes for the payouts.
LEMMA FinishCases ==
  ASSUME TypeOK, NEW k \in Payments, Finish(k)
  PROVE  /\ FinishFrame(k)
         /\ NoPayouts(k) \/ VendorsOnly(k) \/ \E r \in Nat : StoreAlso(k, r)
<1>1. FinishFrame(k)
  BY DEF Finish, FinishFrame, bank
<1>2. CASE SavePayouts(k) /\ StoreGets(k)
  <2> DEFINE r == InCents(remaining[k])
  <2>1. r \in Nat /\ RoundUp(r) = r
    BY InCentsFacts, RoundUpIdle DEF TypeOK
  <2>2. /\ made[k] # {} /\ remaining[k] > 0
        /\ made' = [made EXCEPT ![k] = @ \cup {Store}]
        /\ payout' = [payout EXCEPT ![k][Store] = r]
        /\ seen' = [seen EXCEPT ![k][Store] = 0]
        /\ sum' = [sum EXCEPT ![k] = @ + r]
        /\ amount' = [amount EXCEPT ![k] = sum'[k]]
    BY <1>2, <2>1 DEF SavePayouts, StoreGets, Build
  <2> HIDE DEF r
  <2>3. sum'[k] = sum[k] + r
    BY <2>1, <2>2 DEF TypeOK
  <2>4. StoreAlso(k, r)
    BY <2>2, <2>3 DEF StoreAlso, r
  <2>5. QED
    BY <1>1, <2>1, <2>4
<1>3. CASE SavePayouts(k) /\ ~StoreGets(k)
  BY <1>1, <1>3 DEF SavePayouts, StoreGets, VendorsOnly, TypeOK
<1>4. QED
  BY <1>1, <1>2, <1>3 DEF Finish

\* Every action keeps every variable in its type.
LEMMA TypeStep ==
  ASSUME TypeOK, Next
  PROVE  TypeOK'
<1> USE DEF TypeOK, generator, bank
<1>1. ASSUME NEW k \in Payments, NEW t \in Totals, Create(k, t)
      PROVE  TypeOK'
  <2>1. t \in Nat
    BY PayoutsAssumption
  <2>2. QED
    BY <1>1, <2>1 DEF Create, State
<1>2. ASSUME NEW k \in Payments, VendorPayout(k)
      PROVE  TypeOK'
  <2>1. CASE VendorPasses(k)
    <3>1. at[k] + 1 \in 1..Store
      BY <2>1, ItemFacts DEF VendorPasses
    <3>2. QED
      BY <2>1, <3>1 DEF VendorPasses
  <2>2. ASSUME NEW i \in Items, NEW a \in Nat, NEW b \in Nat, VendorBuilds(k, i, a, b)
        PROVE  TypeOK'
    <3>1. i = at[k] /\ i \in Payees /\ at[k] + 1 \in 1..Store
      BY <2>2, ItemFacts DEF VendorBuilds
    <3>2. InCents(a) \in Nat
      BY InCentsFacts
    <3>3. remaining[k] - a \in Nat
      <4>1. a <= remaining[k] /\ remaining[k] \in Nat
        BY <2>2 DEF VendorBuilds
      <4>2. QED
        BY <4>1
    <3>4. got[i] \in Nat
      BY <3>1
    <3>5. QED
      BY <2>2, <3>1, <3>2, <3>3, <3>4 DEF VendorBuilds
  <2>3. QED
    BY <1>2, <2>1, <2>2, VendorCases
<1>3. ASSUME NEW k \in Payments, Finish(k)
      PROVE  TypeOK'
  <2>1. Store \in Payees
    BY ItemFacts
  <2>2. state' \in [Payments -> State]
    BY <1>3, FinishCases DEF FinishFrame, State
  <2>3. ASSUME NEW r \in Nat, StoreAlso(k, r)
        PROVE  TypeOK'
    <3>1. /\ made' \in [Payments -> SUBSET Payees]
          /\ payout' \in [Payments -> [Payees -> Nat]]
          /\ seen' \in [Payments -> [Payees -> Nat]]
      BY <2>1, <2>3 DEF StoreAlso
    <3>2. sum' \in [Payments -> Nat] /\ amount' \in [Payments -> Nat]
      BY <2>3 DEF StoreAlso
    <3>3. FinishFrame(k)
      BY <1>3, FinishCases
    <3>4. QED
      BY <2>2, <3>1, <3>2, <3>3 DEF FinishFrame
  <2>4. CASE VendorsOnly(k)
    BY <1>3, <2>2, <2>4, FinishCases DEF VendorsOnly, FinishFrame
  <2>5. CASE NoPayouts(k)
    BY <1>3, <2>2, <2>5, FinishCases DEF NoPayouts, FinishFrame
  <2>6. QED
    BY <1>3, <2>3, <2>4, <2>5, FinishCases
<1>4. ASSUME NEW k \in Payments, CustomerPays(k)
      PROVE  TypeOK'
  BY <1>4 DEF CustomerPays
<1>5. ASSUME NEW k \in Payments, NEW from, NEW to \in State, Become(k, from, to)
      PROVE  TypeOK'
  BY <1>5 DEF Become
<1>6. ASSUME NEW k \in Payments, NEW p \in Payees, ConfirmPayout(k, p)
      PROVE  TypeOK'
  BY <1>6 DEF ConfirmPayout
<1>7. QED
  BY <1>1, <1>2, <1>3, <1>4, <1>5, <1>6, NextCases

\* Types are kept along every behaviour.
THEOREM TypeCorrect == Spec => []TypeOK
<1>1. Init => TypeOK
  BY PayoutsAssumption DEF Init, TypeOK, State, Items, Store, Payees
<1>2. TypeOK /\ [Next]_vars => TypeOK'
  <2>1. CASE Next
    BY <2>1, TypeStep
  <2>2. CASE UNCHANGED vars
    BY <2>2 DEF TypeOK, vars, generator, bank
  <2>3. QED
    BY <2>1, <2>2
<1>3. QED
  BY <1>1, <1>2, PTL DEF Spec

-----------------------------------------------------------------------------
(* Which payments a request replaces.                                      *)

\* The amount of a payment that is visible, and what it asked for, never
\* change, and it never becomes invisible.
LEMMA VisibleStays ==
  ASSUME TypeOK, Next, NEW m \in Payments, Visible(m)
  PROVE  Visible(m)' /\ amount'[m] = amount[m] /\ asked'[m] = asked[m]
<1> USE DEF Visible
<1>1. ASSUME NEW k \in Payments, NEW t \in Totals, Create(k, t)
      PROVE  Visible(m)' /\ amount'[m] = amount[m] /\ asked'[m] = asked[m]
  BY <1>1 DEF Create, TypeOK
<1>2. ASSUME NEW k \in Payments, VendorPayout(k)
      PROVE  Visible(m)' /\ amount'[m] = amount[m] /\ asked'[m] = asked[m]
  BY <1>2 DEF VendorPayout
<1>3. ASSUME NEW k \in Payments, Finish(k)
      PROVE  Visible(m)' /\ amount'[m] = amount[m] /\ asked'[m] = asked[m]
  BY <1>3, FinishCases
     DEF FinishFrame, NoPayouts, VendorsOnly, StoreAlso, TypeOK
<1>4. ASSUME NEW k \in Payments, CustomerPays(k)
      PROVE  Visible(m)' /\ amount'[m] = amount[m] /\ asked'[m] = asked[m]
  BY <1>4 DEF CustomerPays
<1>5. ASSUME NEW k \in Payments, NEW to \in State \ {"none", "creating"},
             NEW from \in SUBSET (State \ {"none", "creating"}), Become(k, from, to)
      PROVE  Visible(m)' /\ amount'[m] = amount[m] /\ asked'[m] = asked[m]
  BY <1>5 DEF Become, TypeOK
<1>6. ASSUME NEW k \in Payments, NEW p \in Payees, ConfirmPayout(k, p)
      PROVE  Visible(m)' /\ amount'[m] = amount[m] /\ asked'[m] = asked[m]
  BY <1>6 DEF ConfirmPayout
<1>7. QED
  BY <1>1, <1>2, <1>3, <1>4, <1>5, <1>6, NextCases

\* What a creation replaces and asks for is settled when it starts.
LEMMA CreationStarts ==
  ASSUME TypeOK, Next, NEW k \in Payments, state'[k] = "creating"
  PROVE  \/ /\ state[k] = "creating"
            /\ replaced'[k] = replaced[k] /\ asked'[k] = asked[k]
         \/ /\ state[k] = "none"
            /\ Found(asked'[k]) = {}
            /\ replaced'[k] = {m \in Payments : state[m] = "checkout"}
<1> DEFINE Goal ==
      \/ /\ state[k] = "creating"
         /\ replaced'[k] = replaced[k] /\ asked'[k] = asked[k]
      \/ /\ state[k] = "none"
         /\ Found(asked'[k]) = {}
         /\ replaced'[k] = {m \in Payments : state[m] = "checkout"}
<1>1. ASSUME NEW l \in Payments, NEW t \in Totals, Create(l, t)
      PROVE  Goal
  <2>1. asked' = [asked EXCEPT ![l] = t] /\ Found(t) = {}
    BY <1>1 DEF Create
  <2>2. l = k => asked'[k] = t
    BY <2>1 DEF TypeOK
  <2>3. QED
    BY <1>1, <2>1, <2>2 DEF Create, TypeOK
<1>2. ASSUME NEW l \in Payments, VendorPayout(l)
      PROVE  Goal
  BY <1>2 DEF VendorPayout
<1>3. ASSUME NEW l \in Payments, Finish(l)
      PROVE  Goal
  BY <1>3, FinishCases DEF FinishFrame
<1>4. ASSUME NEW l \in Payments, CustomerPays(l)
      PROVE  Goal
  BY <1>4 DEF CustomerPays
<1>5. ASSUME NEW l \in Payments, NEW to \in State \ {"none", "creating"},
             NEW from \in SUBSET (State \ {"none", "creating"}), Become(l, from, to)
      PROVE  Goal
  BY <1>5 DEF Become, TypeOK
<1>6. ASSUME NEW l \in Payments, NEW p \in Payees, ConfirmPayout(l, p)
      PROVE  Goal
  BY <1>6 DEF ConfirmPayout
<1>7. QED
  BY <1>1, <1>2, <1>3, <1>4, <1>5, <1>6, NextCases

\* Replacement is inductive: what is replaced was settled at the start.
LEMMA ReplacementStep ==
  ASSUME TypeOK, Replacement, Next
  PROVE  Replacement'
<1> SUFFICES ASSUME NEW k \in Payments, NEW m \in Payments,
                    state'[k] = "creating", m \in replaced'[k]
             PROVE  Visible(m)' /\ amount'[m] # asked'[k]
  BY DEF Replacement
<1>1. Visible(m) /\ amount[m] # asked'[k]
  BY CreationStarts DEF Replacement, Found, Visible
<1>2. QED
  BY <1>1, VisibleStays

\* An order's earlier payment for the same total is given up for a new one
\* only when rounding changed its amount.
THEOREM ReplacedOnlyRounded == Spec => ReplacedWasRounded
<1> DEFINE Given ==
      \A k, m \in Payments :
        /\ state[m] = "checkout" /\ state'[m] = "invalid"
        /\ state[k] = "creating" /\ state'[k] = "checkout"
        /\ asked[k] = asked[m]
        => amount[m] # asked[m]
<1>1. Init => Replacement
  BY DEF Init, Replacement
<1>2. TypeOK /\ Replacement /\ [Next]_vars => Replacement'
  <2>1. CASE UNCHANGED vars
    BY <2>1 DEF Replacement, Visible, vars
  <2>2. QED
    BY <2>1, ReplacementStep
<1>3. TypeOK /\ Replacement /\ [Next]_vars => [Given]_vars
  <2> SUFFICES ASSUME TypeOK, Replacement, Next,
                      NEW k \in Payments, NEW m \in Payments,
                      state[m] = "checkout", state'[m] = "invalid",
                      state[k] = "creating", state'[k] = "checkout",
                      asked[k] = asked[m]
               PROVE  amount[m] # asked[m]
    BY Zenon
  <2>1. m \in replaced[k]
    <3>1. ASSUME NEW l \in Payments, NEW t \in Totals, Create(l, t)
          PROVE  m \in replaced[k]
      BY <3>1 DEF Create, TypeOK
    <3>2. ASSUME NEW l \in Payments, VendorPayout(l)
          PROVE  m \in replaced[k]
      BY <3>2 DEF VendorPayout
    <3>3. ASSUME NEW l \in Payments, Finish(l)
          PROVE  m \in replaced[k]
      BY <3>3, FinishCases DEF FinishFrame
    <3>4. ASSUME NEW l \in Payments, CustomerPays(l)
          PROVE  m \in replaced[k]
      BY <3>4 DEF CustomerPays
    <3>5. ASSUME NEW l \in Payments, NEW to \in State \ {"none", "creating"},
                 NEW from \in SUBSET (State \ {"none", "creating"}), Become(l, from, to)
          PROVE  m \in replaced[k]
      BY <3>5 DEF Become, TypeOK
    <3>6. ASSUME NEW l \in Payments, NEW p \in Payees, ConfirmPayout(l, p)
          PROVE  m \in replaced[k]
      BY <3>6 DEF ConfirmPayout
    <3>7. QED
      BY <3>1, <3>2, <3>3, <3>4, <3>5, <3>6, NextCases
  <2>2. QED
    BY <2>1 DEF Replacement
<1>4. QED
  BY <1>1, <1>2, <1>3, TypeCorrect, PTL DEF Spec, ReplacedWasRounded

-----------------------------------------------------------------------------
(* The store comes last.                                                   *)

\* Drafts is inductive: only its own generator touches an invisible payment.
LEMMA DraftsStep ==
  ASSUME TypeOK, Drafts, Replacement, Next
  PROVE  Drafts'
<1> DEFINE D(k) ==
      /\ confirmed[k] \subseteq made[k]
      /\ state[k] = "none" => at[k] = 1 /\ sum[k] = 0 /\ made[k] = {} /\ short[k] = {}
      /\ state[k] = "creating" => confirmed[k] = {} /\ \A p \in made[k] : p < at[k]
      /\ Visible(k) => at[k] = Store
      /\ state[k] = "completed" => made[k] = confirmed[k]
<1> SUFFICES ASSUME NEW m \in Payments
             PROVE  D(m)'
  BY DEF Drafts
<1>d. D(m)
  BY DEF Drafts
<1>n. \A p \in made[m] : p \in Nat
  BY ItemFacts DEF TypeOK
<1> USE DEF Visible
<1>1. ASSUME NEW k \in Payments, NEW t \in Totals, Create(k, t)
      PROVE  D(m)'
  BY <1>d, <1>1, ItemFacts DEF Create, TypeOK, bank
<1>2. ASSUME NEW k \in Payments, VendorPayout(k)
      PROVE  D(m)'
  <2>1. CASE VendorPasses(k)
    BY <1>d, <1>n, <2>1, ItemFacts DEF VendorPasses, TypeOK
  <2>2. ASSUME NEW i \in Items, NEW a \in Nat, NEW b \in Nat, VendorBuilds(k, i, a, b)
        PROVE  D(m)'
    <3>1. /\ state[k] = "creating" /\ i = at[k]
          /\ made' = [made EXCEPT ![k] = @ \cup {i}]
          /\ sum' = [sum EXCEPT ![k] = @ + InCents(a)]
          /\ short' = [short EXCEPT ![k] = short'[k]]
          /\ at' = [at EXCEPT ![k] = @ + 1]
          /\ UNCHANGED <<state, confirmed>>
      BY <2>2 DEF VendorBuilds, TypeOK
    <3>2. i \in Nat
      BY ItemFacts
    <3>3. QED
      BY <1>d, <1>n, <3>1, <3>2 DEF TypeOK
  <2>3. QED
    BY <1>2, <2>1, <2>2, VendorCases
<1>3. ASSUME NEW k \in Payments, Finish(k)
      PROVE  D(m)'
  <2>1. FinishFrame(k)
    BY <1>3, FinishCases
  <2>2. m \in replaced[k] => Visible(m)
    BY <2>1 DEF FinishFrame, Replacement
  <2>3. m # k => made'[m] = made[m] /\ sum'[m] = sum[m]
    <3>1. ASSUME NEW r \in Nat, StoreAlso(k, r)
          PROVE  m # k => made'[m] = made[m] /\ sum'[m] = sum[m]
      BY <3>1 DEF StoreAlso, TypeOK
    <3>2. CASE VendorsOnly(k) \/ NoPayouts(k)
      BY <3>2 DEF VendorsOnly, NoPayouts, TypeOK
    <3>3. QED
      BY <1>3, <3>1, <3>2, FinishCases
  <2>4. CASE m = k
    BY <1>d, <2>1, <2>4 DEF FinishFrame
  <2>5. CASE m # k
    BY <1>d, <2>1, <2>2, <2>3, <2>5 DEF FinishFrame
  <2>6. QED
    BY <2>4, <2>5
<1>4. ASSUME NEW k \in Payments, CustomerPays(k)
      PROVE  D(m)'
  BY <1>d, <1>4 DEF CustomerPays, generator
<1>5. ASSUME NEW k \in Payments, NEW to \in State \ {"none", "creating"},
             NEW from \in SUBSET (State \ {"none", "creating"}), Become(k, from, to),
             to = "completed" => AllConfirmed(k)
      PROVE  D(m)'
  BY <1>d, <1>5 DEF Become, TypeOK, AllConfirmed, generator, bank
<1>6. ASSUME NEW k \in Payments, NEW p \in Payees, ConfirmPayout(k, p)
      PROVE  D(m)'
  BY <1>d, <1>6 DEF ConfirmPayout, TypeOK, generator
<1>7. QED
  BY <1>1, <1>2, <1>3, <1>4, <1>5, <1>6, NextCases

\* A vendor is left short only by what takes all that remains.
LEMMA StoreLastStep ==
  ASSUME TypeOK, Drafts, NothingLeft, StoreLast, Next
  PROVE  NothingLeft' /\ StoreLast'
<1> DEFINE P(k) == /\ state[k] = "creating" /\ short[k] # {} => remaining[k] = 0
                   /\ Store \in made[k] => short[k] = {}
<1> SUFFICES ASSUME NEW m \in Payments
             PROVE  P(m)'
  BY DEF NothingLeft, StoreLast
<1>p. P(m)
  BY DEF NothingLeft, StoreLast
<1>1. ASSUME NEW k \in Payments, NEW t \in Totals, Create(k, t)
      PROVE  P(m)'
  BY <1>p, <1>1 DEF Create, TypeOK, Drafts
<1>2. ASSUME NEW k \in Payments, VendorPayout(k)
      PROVE  P(m)'
  <2>1. CASE VendorPasses(k)
    BY <1>p, <2>1 DEF VendorPasses
  <2>2. ASSUME NEW i \in Items, NEW a \in Nat, NEW b \in Nat, VendorBuilds(k, i, a, b)
        PROVE  P(m)'
    <3>1. /\ state[k] = "creating" /\ i = at[k]
          /\ made' = [made EXCEPT ![k] = @ \cup {i}]
          /\ a <= remaining[k] /\ (a < b => a = remaining[k]) /\ a <= b
          /\ remaining' = [remaining EXCEPT ![k] = @ - a]
          /\ short' = [short EXCEPT ![k] = IF InCents(b - a) > 0 THEN @ \cup {i} ELSE @]
          /\ UNCHANGED state
      BY <2>2 DEF VendorBuilds
    <3>2. Store \notin made'[k]
      <4>1. Store \notin made[k] /\ Store # i
        BY <3>1, ItemFacts DEF Drafts, TypeOK
      <4>2. QED
        BY <3>1, <4>1 DEF TypeOK
    <3>3. short'[k] # {} => remaining'[k] = 0
      <4>1. remaining[k] \in Nat /\ remaining'[k] = remaining[k] - a
        BY <3>1 DEF TypeOK
      <4>2. short'[k] # {} => a < b \/ short[k] # {}
        <5>1. a = b => ~(InCents(b - a) > 0)
          <6>1. InCents(0) = 0
            BY PayoutsAssumption DEF InCents
          <6> QED BY <6>1
        <5> QED BY <3>1, <5>1 DEF TypeOK
      <4>3. short[k] # {} => remaining[k] = 0
        BY <3>1 DEF NothingLeft
      <4>4. QED
        BY <3>1, <4>1, <4>2, <4>3
    <3>4. CASE m = k
      BY <3>1, <3>2, <3>3, <3>4
    <3>5. CASE m # k
      BY <1>p, <3>1, <3>5 DEF TypeOK
    <3>6. QED
      BY <3>4, <3>5
  <2>3. QED
    BY <1>2, <2>1, <2>2, VendorCases
<1>3. ASSUME NEW k \in Payments, Finish(k)
      PROVE  P(m)'
  <2>1. FinishFrame(k)
    BY <1>3, FinishCases
  <2>2. m # k => made'[m] = made[m]
    BY <1>3, FinishCases DEF NoPayouts, VendorsOnly, StoreAlso, TypeOK
  <2>3. Store \in made'[k] => short[k] = {}
    <3>1. ASSUME NEW r \in Nat, StoreAlso(k, r)
          PROVE  short[k] = {}
      <4>1. remaining[k] > 0 /\ state[k] = "creating"
        BY <2>1, <3>1 DEF StoreAlso, FinishFrame
      <4>2. QED
        BY <4>1 DEF NothingLeft
    <3>2. VendorsOnly(k) \/ NoPayouts(k) => made'[k] = made[k] \/ made'[k] = {}
      BY DEF VendorsOnly, NoPayouts, TypeOK
    <3>3. QED
      BY <1>3, <3>1, <3>2, FinishCases DEF StoreLast
  <2>4. QED
    BY <1>p, <2>1, <2>2, <2>3 DEF FinishFrame
<1>4. ASSUME NEW k \in Payments, CustomerPays(k)
      PROVE  P(m)'
  BY <1>p, <1>4 DEF CustomerPays, generator
<1>5. ASSUME NEW k \in Payments, NEW to \in State \ {"none", "creating"},
             NEW from \in SUBSET (State \ {"none", "creating"}), Become(k, from, to)
      PROVE  P(m)'
  BY <1>p, <1>5 DEF Become, TypeOK, generator
<1>6. ASSUME NEW k \in Payments, NEW p \in Payees, ConfirmPayout(k, p)
      PROVE  P(m)'
  BY <1>p, <1>6 DEF ConfirmPayout, generator
<1>7. QED
  BY <1>1, <1>2, <1>3, <1>4, <1>5, <1>6, NextCases

\* Drafts and Replacement hold along every behaviour.
LEMMA DraftsInvariant == Spec => [](Drafts /\ Replacement)
<1>1. Init => Drafts /\ Replacement
  BY DEF Init, Drafts, Replacement, Visible
<1>2. TypeOK /\ Drafts /\ Replacement /\ [Next]_vars => Drafts' /\ Replacement'
  <2>1. CASE UNCHANGED vars
    BY <2>1 DEF Drafts, Replacement, Visible, vars, generator, bank
  <2>2. QED
    BY <2>1, DraftsStep, ReplacementStep
<1>3. QED
  BY <1>1, <1>2, TypeCorrect, PTL DEF Spec

\* The store takes nothing while the same payment leaves a vendor short.
THEOREM StoreTakesLast == Spec => []StoreLast
<1>1. Init => NothingLeft /\ StoreLast
  BY DEF Init, NothingLeft, StoreLast
<1>2. TypeOK /\ Drafts /\ NothingLeft /\ StoreLast /\ [Next]_vars
        => NothingLeft' /\ StoreLast'
  <2>1. CASE UNCHANGED vars
    BY <2>1 DEF NothingLeft, StoreLast, vars, generator
  <2>2. QED
    BY <2>1, StoreLastStep
<1>3. QED
  BY <1>1, <1>2, TypeCorrect, DraftsInvariant, PTL DEF Spec

-----------------------------------------------------------------------------
(* What rounding costs the customer.                                       *)

\* A payout more is one payout more.
LEMMA OnePayoutMore ==
  ASSUME TypeOK, NEW k \in Payments, NEW p \in Payees, p \notin made[k]
  PROVE  /\ Cardinality(made[k]) \in Nat
         /\ Cardinality(made[k] \cup {p}) = Cardinality(made[k]) + 1
<1>1. IsFiniteSet(1..Store)
  BY FS_Interval, ItemFacts
<1>2. Payees \subseteq 1..Store
  BY ItemFacts, PayoutsAssumption DEF Payees, Items, Store
<1>3. made[k] \subseteq 1..Store
  BY <1>2 DEF TypeOK
<1>4. IsFiniteSet(made[k])
  BY <1>1, <1>3, FS_Subset
<1>5. QED
  BY <1>4, FS_CardinalityType, FS_AddElement

\* Each payout built moves what remains into the sum, up to half a cent.
LEMMA RoundingStep ==
  ASSUME TypeOK, Drafts, Replacement, Rounding, RoundingBounded, Next
  PROVE  Rounding' /\ RoundingBounded'
<1> DEFINE Slack(k) == Cent * Cardinality(made[k])
           R(k) == /\ state[k] = "creating" =>
                        /\ amount[k] = asked[k]
                        /\ 2 * asked[k] <= 2 * (sum[k] + remaining[k]) + Slack(k)
                        /\ 2 * (sum[k] + remaining[k]) <= 2 * asked[k] + Slack(k)
                   /\ Visible(k) => /\ 2 * asked[k] <= 2 * amount[k] + Slack(k)
                                    /\ 2 * amount[k] <= 2 * asked[k] + Slack(k)
<1> SUFFICES ASSUME NEW m \in Payments
             PROVE  R(m)'
  BY DEF Rounding, RoundingBounded
<1>r. R(m)
  BY DEF Rounding, RoundingBounded
<1>t. /\ amount[m] \in Nat /\ asked[m] \in Nat /\ sum[m] \in Nat /\ remaining[m] \in Nat
  BY DEF TypeOK
<1>e. Cent * Cardinality({}) = 0
  BY FS_EmptySet, PayoutsAssumption
<1>1. ASSUME NEW k \in Payments, NEW t \in Totals, Create(k, t)
      PROVE  R(m)'
  <2>1. t \in Nat
    BY PayoutsAssumption
  <2>2. CASE m = k
    <3>1. /\ state'[k] = "creating" /\ amount'[k] = t /\ asked'[k] = t
          /\ remaining'[k] = t /\ sum'[k] = 0 /\ made'[k] = {}
      BY <1>1, <2>2 DEF Create, TypeOK, Drafts
    <3>2. QED
      BY <1>e, <2>1, <2>2, <3>1 DEF Visible
  <2>3. CASE m # k
    BY <1>r, <1>1, <2>3 DEF Create, TypeOK, Visible
  <2>4. QED
    BY <2>2, <2>3
<1>2. ASSUME NEW k \in Payments, VendorPayout(k)
      PROVE  R(m)'
  <2>1. CASE VendorPasses(k)
    BY <1>r, <2>1 DEF VendorPasses, Visible
  <2>2. ASSUME NEW i \in Items, NEW a \in Nat, NEW b \in Nat, VendorBuilds(k, i, a, b)
        PROVE  R(m)'
    <3>1. /\ state[k] = "creating" /\ i = at[k] /\ a <= remaining[k]
          /\ made' = [made EXCEPT ![k] = @ \cup {i}]
          /\ sum' = [sum EXCEPT ![k] = @ + InCents(a)]
          /\ remaining' = [remaining EXCEPT ![k] = @ - a]
          /\ UNCHANGED <<state, asked, amount>>
      BY <2>2 DEF VendorBuilds
    <3>2. CASE m = k
      <4>1. i \in Payees /\ i \notin made[k]
        BY <3>1, ItemFacts DEF Drafts
      <4>2. Slack(k) \in Nat /\ Cent \in Nat /\ Slack(k)' = Slack(k) + Cent
        <5>1. made'[k] = made[k] \cup {i}
          BY <3>1 DEF TypeOK
        <5>2. QED
          BY <4>1, <5>1, OnePayoutMore, CentsGrow
      <4>3. /\ sum'[k] = sum[k] + InCents(a) /\ remaining'[k] = remaining[k] - a
        BY <3>1 DEF TypeOK
      <4>4. /\ InCents(a) \in Nat
            /\ 2 * InCents(a) <= 2 * a + Cent /\ 2 * a < 2 * InCents(a) + Cent
        BY InCentsFacts
      <4> HIDE DEF Slack
      <4>5. QED
        BY <1>r, <1>t, <3>1, <3>2, <4>2, <4>3, <4>4 DEF Visible
    <3>3. CASE m # k
      BY <1>r, <3>1, <3>3 DEF TypeOK, Visible
    <3>4. QED
      BY <3>2, <3>3
  <2>3. QED
    BY <1>2, <2>1, <2>2, VendorCases
<1>3. ASSUME NEW k \in Payments, Finish(k)
      PROVE  R(m)'
  <2>1. FinishFrame(k)
    BY <1>3, FinishCases
  <2>2. state'[k] = "checkout" /\ UNCHANGED asked
    BY <2>1 DEF FinishFrame
  <2>3. CASE m = k
    <3>1. /\ amount[k] = asked[k]
          /\ 2 * asked[k] <= 2 * (sum[k] + remaining[k]) + Slack(k)
          /\ 2 * (sum[k] + remaining[k]) <= 2 * asked[k] + Slack(k)
      BY <1>r, <2>1, <2>3 DEF FinishFrame
    <3>2. ASSUME NEW r \in Nat, StoreAlso(k, r)
          PROVE  /\ 2 * asked[k] <= 2 * amount'[k] + Slack(k)'
                 /\ 2 * amount'[k] <= 2 * asked[k] + Slack(k)'
      <4>1. made' = [made EXCEPT ![k] = @ \cup {Store}] /\ r = InCents(remaining[k])
            /\ amount' = [amount EXCEPT ![k] = sum[k] + r]
        BY <3>2 DEF StoreAlso
      <4>2. made'[k] = made[k] \cup {Store} /\ amount'[k] = sum[k] + r
        BY <4>1 DEF TypeOK
      <4>3. 2 * remaining[k] < 2 * r + Cent /\ 2 * r <= 2 * remaining[k] + Cent
        BY <1>t, <2>3, <4>1, InCentsFacts
      <4>4. Store \in Payees /\ Store \notin made[k]
        BY <2>1, ItemFacts DEF FinishFrame, Drafts
      <4>5. Slack(k) \in Nat /\ Cent \in Nat /\ Slack(k)' = Slack(k) + Cent
        BY <4>2, <4>4, OnePayoutMore, CentsGrow
      <4> HIDE DEF Slack
      <4>6. QED
        BY <1>t, <2>3, <3>1, <4>2, <4>3, <4>5
    <3>3. CASE VendorsOnly(k)
      <4>1. amount'[k] = sum[k] /\ remaining[k] = 0 /\ made'[k] = made[k]
        BY <3>3 DEF VendorsOnly, TypeOK
      <4>2. Slack(k)' = Slack(k)
        BY <4>1
      <4> HIDE DEF Slack
      <4>3. QED
        BY <1>t, <2>2, <2>3, <3>1, <4>1, <4>2
    <3>4. CASE NoPayouts(k)
      <4>1. amount'[k] = amount[k] /\ made'[k] = {}
        BY <3>4 DEF NoPayouts, TypeOK
      <4>2. QED
        BY <1>t, <1>e, <2>2, <2>3, <3>1, <4>1
    <3>5. QED
      BY <1>3, <2>2, <2>3, <3>2, <3>3, <3>4, FinishCases
  <2>4. CASE m # k
    <3>1. made'[m] = made[m] /\ amount'[m] = amount[m]
          /\ sum'[m] = sum[m] /\ remaining'[m] = remaining[m]
      <4>1. remaining'[m] = remaining[m]
        BY <2>1 DEF FinishFrame
      <4>2. ASSUME NEW r \in Nat, StoreAlso(k, r)
            PROVE  made'[m] = made[m] /\ amount'[m] = amount[m] /\ sum'[m] = sum[m]
        <5>1. /\ made' = [made EXCEPT ![k] = made'[k]]
              /\ amount' = [amount EXCEPT ![k] = amount'[k]]
              /\ sum' = [sum EXCEPT ![k] = sum'[k]]
          BY <4>2 DEF StoreAlso, TypeOK
        <5>2. QED
          BY <2>4, <5>1 DEF TypeOK
      <4>3. ASSUME VendorsOnly(k) \/ NoPayouts(k)
            PROVE  made'[m] = made[m] /\ amount'[m] = amount[m] /\ sum'[m] = sum[m]
        BY <2>4, <4>3 DEF VendorsOnly, NoPayouts, TypeOK
      <4>4. QED
        BY <1>3, <4>1, <4>2, <4>3, FinishCases
    <3>2. /\ state'[m] = "creating" => state[m] = "creating"
          /\ Visible(m)' => Visible(m)
      BY <2>1, <2>4 DEF FinishFrame, Replacement, Visible
    <3>3. QED
      BY <1>r, <2>2, <3>1, <3>2
  <2>5. QED
    BY <2>3, <2>4
<1>4. ASSUME NEW k \in Payments, CustomerPays(k)
      PROVE  R(m)'
  BY <1>r, <1>4 DEF CustomerPays, generator, Visible
<1>5. ASSUME NEW k \in Payments, NEW to \in State \ {"none", "creating"},
             NEW from \in SUBSET (State \ {"none", "creating"}), Become(k, from, to)
      PROVE  R(m)'
  BY <1>r, <1>5 DEF Become, TypeOK, generator, Visible
<1>6. ASSUME NEW k \in Payments, NEW p \in Payees, ConfirmPayout(k, p)
      PROVE  R(m)'
  BY <1>r, <1>6 DEF ConfirmPayout, generator, Visible
<1>7. QED
  BY <1>1, <1>2, <1>3, <1>4, <1>5, <1>6, NextCases

\* A payment asks for what the order asked, up to half a cent a payout, more or
\* less.
THEOREM RoundingIsBounded == Spec => []RoundingBounded
<1>1. Init => Rounding /\ RoundingBounded
  BY DEF Init, Rounding, RoundingBounded, Visible
<1>2. TypeOK /\ Drafts /\ Replacement /\ Rounding /\ RoundingBounded /\ [Next]_vars
        => Rounding' /\ RoundingBounded'
  <2>1. CASE UNCHANGED vars
    BY <2>1 DEF Rounding, RoundingBounded, Visible, vars, generator
  <2>2. QED
    BY <2>1, RoundingStep
<1>3. QED
  BY <1>1, <1>2, TypeCorrect, DraftsInvariant, PTL DEF Spec

-----------------------------------------------------------------------------
(* The vendors have what completed payments promised.                      *)

\* Coverage is inductive: confirmed sums only grow.
LEMMA CoverageStep ==
  ASSUME TypeOK, Drafts, Replacement, Coverage, Next
  PROVE  Coverage'
<1> DEFINE C(k, i) ==
      /\ i \in made[k] => seen[k][i] <= got[i]
      /\ i \in made[k] /\ i \notin short[k] => seen[k][i] + payout[k][i] + Cent > Owed[i]
      /\ i \in confirmed[k] => seen[k][i] + payout[k][i] <= got[i]
      /\ i \notin made[k] /\ i < at[k] /\ (state[k] = "creating" \/ made[k] # {}) =>
           got[i] >= Owed[i]
<1> SUFFICES ASSUME NEW m \in Payments, NEW j \in Items
             PROVE  C(m, j)'
  BY DEF Coverage
<1>c. C(m, j)
  BY DEF Coverage
<1>t. /\ j \in Nat /\ j \in Payees /\ j # Store /\ Owed[j] \in Nat /\ at[m] \in Nat
      /\ got[j] \in Nat /\ seen[m][j] \in Nat /\ payout[m][j] \in Nat
      /\ Cent \in Nat /\ Cent > 0
  BY ItemFacts, PayoutsAssumption DEF TypeOK
<1>1. ASSUME NEW k \in Payments, NEW t \in Totals, Create(k, t)
      PROVE  C(m, j)'
  <2>1. CASE m = k
    <3>1. made'[k] = {} /\ confirmed'[k] = {} /\ at'[k] = 1
      BY <1>1 DEF Create, Drafts, bank
    <3>2. ~(j < 1)
      BY PayoutsAssumption DEF Items
    <3>3. QED
      BY <2>1, <3>1, <3>2
  <2>2. CASE m # k
    BY <1>c, <1>1, <2>2 DEF Create, TypeOK, bank
  <2>3. QED
    BY <2>1, <2>2
<1>2. ASSUME NEW k \in Payments, VendorPayout(k)
      PROVE  C(m, j)'
  <2>1. CASE VendorPasses(k)
    <3>1. /\ got[at[k]] >= Owed[at[k]] /\ at' = [at EXCEPT ![k] = @ + 1]
          /\ UNCHANGED <<state, made, payout, seen, short, confirmed, got>>
      BY <2>1 DEF VendorPasses
    <3>2. at'[m] = (IF m = k THEN at[m] + 1 ELSE at[m])
      BY <3>1 DEF TypeOK
    <3>3. j < at'[m] => j < at[m] \/ (m = k /\ j = at[k])
      BY <1>t, <3>2
    <3>4. QED
      BY <1>c, <3>1, <3>3
  <2>2. ASSUME NEW i \in Items, NEW a \in Nat, NEW b \in Nat, VendorBuilds(k, i, a, b)
        PROVE  C(m, j)'
    <3>1. /\ state[k] = "creating" /\ i = at[k] /\ b + got[i] = Owed[i] /\ a <= b
          /\ made' = [made EXCEPT ![k] = @ \cup {i}]
          /\ payout' = [payout EXCEPT ![k][i] = InCents(a)]
          /\ seen' = [seen EXCEPT ![k][i] = got[i]]
          /\ short' = [short EXCEPT ![k] = IF InCents(b - a) > 0 THEN @ \cup {i} ELSE @]
          /\ at' = [at EXCEPT ![k] = @ + 1]
          /\ UNCHANGED <<state, confirmed, got>>
      BY <2>2 DEF VendorBuilds
    <3>2. CASE m = k /\ j = i
      <4>1. /\ j \in made'[m] /\ seen'[m][j] = got[j] /\ payout'[m][j] = InCents(a)
            /\ InCents(b - a) > 0 => j \in short'[m]
            /\ j \notin confirmed'[m]
        BY <1>t, <3>1, <3>2 DEF TypeOK, Drafts
      <4>2. b - a \in Nat
        BY <3>1
      <4>3. got'[j] = got[j] /\ b + got[j] = Owed[j]
        BY <3>1, <3>2
      <4>4. /\ InCents(a) \in Nat /\ 2 * a < 2 * InCents(a) + Cent /\ Cent \in Nat
            /\ j \notin short'[m] => 2 * (b - a) < Cent
        BY <4>1, <4>2, InCentsFacts, PayoutsAssumption
      <4>5. j \notin short'[m] => seen'[m][j] + payout'[m][j] + Cent > Owed[j]
        BY <1>t, <4>1, <4>2, <4>3, <4>4
      <4>6. QED
        BY <1>t, <4>1, <4>3, <4>5
    <3>3. CASE m = k /\ j # i
      <4>1. /\ j \in made'[m] <=> j \in made[m]
            /\ j \in short'[m] <=> j \in short[m]
            /\ seen'[m][j] = seen[m][j] /\ payout'[m][j] = payout[m][j]
            /\ j < at'[m] => j < at[m]
        BY <1>t, <3>1, <3>3 DEF TypeOK
      <4>2. QED
        BY <1>c, <3>1, <3>3, <4>1
    <3>4. CASE m # k
      BY <1>c, <3>1, <3>4 DEF TypeOK
    <3>5. QED
      BY <3>2, <3>3, <3>4
  <2>3. QED
    BY <1>2, <2>1, <2>2, VendorCases
<1>3. ASSUME NEW k \in Payments, Finish(k)
      PROVE  C(m, j)'
  <2>1. FinishFrame(k)
    BY <1>3, FinishCases
  <2>2. UNCHANGED <<at, short, confirmed, got>>
    BY <2>1 DEF FinishFrame
  <2>3. m # k /\ state'[m] = "creating" => state[m] = "creating"
    BY <2>1 DEF FinishFrame
  <2>4. CASE m = k
    <3>1. state[k] = "creating" /\ state'[k] = "checkout" /\ confirmed[k] = {}
      BY <2>1 DEF FinishFrame, Drafts
    <3>2. ASSUME NEW r \in Nat, StoreAlso(k, r)
          PROVE  /\ j \in made'[m] <=> j \in made[m]
                 /\ seen'[m][j] = seen[m][j] /\ payout'[m][j] = payout[m][j]
      BY <1>t, <2>4, <3>2 DEF StoreAlso, TypeOK
    <3>3. VendorsOnly(k) => UNCHANGED <<made, seen, payout>>
      BY DEF VendorsOnly
    <3>4. NoPayouts(k) => made'[m] = {} /\ confirmed'[m] = {}
      BY <2>2, <2>4, <3>1 DEF NoPayouts, TypeOK
    <3>5. \/ made'[m] = {} /\ confirmed'[m] = {}
          \/ /\ j \in made'[m] <=> j \in made[m]
             /\ seen'[m][j] = seen[m][j] /\ payout'[m][j] = payout[m][j]
      BY <1>3, <3>2, <3>3, <3>4, FinishCases
    <3>6. QED
      BY <1>c, <2>2, <2>4, <3>1, <3>5
  <2>5. CASE m # k
    <3>1. made'[m] = made[m] /\ seen'[m] = seen[m] /\ payout'[m] = payout[m]
      <4>1. ASSUME NEW r \in Nat, StoreAlso(k, r)
            PROVE  made'[m] = made[m] /\ seen'[m] = seen[m] /\ payout'[m] = payout[m]
        BY <2>5, <4>1 DEF StoreAlso, TypeOK
      <4>2. NoPayouts(k) \/ VendorsOnly(k) =>
              made'[m] = made[m] /\ seen'[m] = seen[m] /\ payout'[m] = payout[m]
        BY <2>5 DEF NoPayouts, VendorsOnly, TypeOK
      <4>3. QED
        BY <1>3, <4>1, <4>2, FinishCases
    <3>2. QED
      BY <1>c, <2>2, <2>3, <2>5, <3>1
  <2>6. QED
    BY <2>4, <2>5
<1>4. ASSUME NEW k \in Payments, CustomerPays(k)
      PROVE  C(m, j)'
  BY <1>c, <1>4 DEF CustomerPays, generator
<1>5. ASSUME NEW k \in Payments, NEW to \in State \ {"none", "creating"},
             NEW from \in SUBSET (State \ {"none", "creating"}), Become(k, from, to)
      PROVE  C(m, j)'
  BY <1>c, <1>5 DEF Become, TypeOK, generator, bank
<1>6. ASSUME NEW k \in Payments, NEW p \in Payees, ConfirmPayout(k, p)
      PROVE  C(m, j)'
  <2>1. /\ state[k] = "processing" /\ p \in made[k]
        /\ confirmed' = [confirmed EXCEPT ![k] = @ \cup {p}]
        /\ got' = [got EXCEPT ![p] = @ + payout[k][p]]
        /\ UNCHANGED <<state, at, made, payout, seen, short>>
    BY <1>6 DEF ConfirmPayout, generator
  <2>2. got'[j] \in Nat /\ got'[j] >= got[j]
    BY <1>t, <2>1 DEF TypeOK
  <2>3. CASE m = k /\ j = p
    <3>1. got'[j] = got[j] + payout[m][j]
      BY <1>t, <2>1, <2>3 DEF TypeOK
    <3>2. QED
      BY <1>c, <1>t, <2>1, <2>2, <2>3, <3>1
  <2>4. CASE ~(m = k /\ j = p)
    <3>1. j \in confirmed'[m] <=> j \in confirmed[m]
      BY <2>1, <2>4 DEF TypeOK
    <3>2. QED
      BY <1>c, <1>t, <2>1, <2>2, <3>1
  <2>5. QED
    BY <2>3, <2>4
<1>7. QED
  BY <1>1, <1>2, <1>3, <1>4, <1>5, <1>6, NextCases

\* Coverage holds along every behaviour.
LEMMA CoverageInvariant == Spec => []Coverage
<1>1. Init => Coverage
  BY PayoutsAssumption DEF Init, Coverage, Items
<1>2. TypeOK /\ Drafts /\ Replacement /\ Coverage /\ [Next]_vars => Coverage'
  <2>1. CASE UNCHANGED vars
    BY <2>1 DEF Coverage, vars, generator, bank
  <2>2. QED
    BY <2>1, CoverageStep
<1>3. QED
  BY <1>1, <1>2, TypeCorrect, DraftsInvariant, PTL DEF Spec

\* A completed payment that left nobody an outstanding amount leaves every
\* vendor less than a cent short of its share, whichever payments it came from.
THEOREM CompletedCoversVendors == Spec => []VendorsCovered
<1>1. TypeOK /\ Drafts /\ Coverage => VendorsCovered
  <2> SUFFICES ASSUME TypeOK, Drafts, Coverage,
                      NEW k \in Payments, NEW i \in Items,
                      state[k] = "completed", made[k] # {}, short[k] = {}
               PROVE  got[i] + Cent > Owed[i]
    BY DEF VendorsCovered
  <2>1. made[k] = confirmed[k] /\ at[k] = Store
    BY DEF Drafts, Visible
  <2>2. /\ i \in Payees /\ i < Store /\ Owed[i] \in Nat /\ got[i] \in Nat
        /\ seen[k][i] \in Nat /\ payout[k][i] \in Nat /\ Cent \in Nat /\ Cent > 0
    BY ItemFacts, PayoutsAssumption DEF TypeOK
  <2>3. CASE i \in made[k]
    BY <2>1, <2>2, <2>3 DEF Coverage
  <2>4. CASE i \notin made[k]
    BY <2>1, <2>2, <2>4 DEF Coverage
  <2>5. QED
    BY <2>3, <2>4
<1>2. QED
  BY <1>1, TypeCorrect, DraftsInvariant, CoverageInvariant, PTL

-----------------------------------------------------------------------------
(* Who may be overpaid.                                                    *)

\* Making a payment a payout more, or none, touches no other payout.
LEMMA OthersKept ==
  ASSUME TypeOK, NEW k \in Payments, Finish(k),
         NEW m \in Payments, NEW j \in Items
  PROVE  /\ j \in made'[m] => /\ j \in made[m]
                              /\ seen'[m][j] = seen[m][j]
                              /\ payout'[m][j] = payout[m][j]
         /\ UNCHANGED <<confirmed, got>>
<1>1. j \in Payees /\ j # Store
  BY ItemFacts
<1>2. ASSUME NEW r \in Nat, StoreAlso(k, r)
      PROVE  j \in made'[m] => /\ j \in made[m]
                               /\ seen'[m][j] = seen[m][j]
                               /\ payout'[m][j] = payout[m][j]
  BY <1>1, <1>2 DEF StoreAlso, TypeOK
<1>3. VendorsOnly(k) \/ NoPayouts(k) =>
        (j \in made'[m] => /\ j \in made[m]
                           /\ seen'[m][j] = seen[m][j]
                           /\ payout'[m][j] = payout[m][j])
  BY DEF VendorsOnly, NoPayouts, TypeOK
<1>4. QED
  BY <1>2, <1>3, FinishCases DEF FinishFrame

\* Sums of rounded payouts stay whole cents, and below the rounded share.
LEMMA CentsStep ==
  ASSUME TypeOK, WholeCents, Next
  PROVE  WholeCents'
<1>1. ASSUME NEW k \in Payments, NEW t \in Totals, Create(k, t)
      PROVE  WholeCents'
  BY <1>1 DEF Create, WholeCents, bank
<1>2. ASSUME NEW k \in Payments, VendorPayout(k)
      PROVE  WholeCents'
  <2>1. CASE VendorPasses(k)
    BY <2>1 DEF VendorPasses, WholeCents
  <2>2. ASSUME NEW i \in Items, NEW a \in Nat, NEW b \in Nat, VendorBuilds(k, i, a, b)
        PROVE  WholeCents'
    <3> DEFINE r == InCents(a)
    <3>1. /\ b + got[i] = Owed[i] /\ a <= b /\ got' = got
          /\ made' = [made EXCEPT ![k] = @ \cup {i}]
          /\ payout' = [payout EXCEPT ![k][i] = r]
          /\ seen' = [seen EXCEPT ![k][i] = got[i]]
      BY <2>2 DEF VendorBuilds
    <3>2. r \in Nat /\ Whole(r)
      BY InCentsFacts
    <3>3. r + got[i] <= InCents(Owed[i])
      <4>1. got[i] \in Nat /\ Whole(got[i])
        BY ItemFacts DEF TypeOK, WholeCents
      <4>2. InCents(a) + got[i] = InCents(a + got[i])
        BY <4>1, InCentsAdds
      <4>3. a + got[i] <= Owed[i] /\ a + got[i] \in Nat /\ Owed[i] \in Nat
        BY <3>1, <4>1, ItemFacts
      <4>4. InCents(a + got[i]) <= InCents(Owed[i])
        BY <4>3, InCentsMonotone
      <4>5. QED
        BY <4>2, <4>4
    <3> HIDE DEF r
    <3>4. \A p \in Payees : Whole(got'[p])
      BY <3>1 DEF WholeCents
    <3>5. \A m \in Payments, p \in Payees : Whole(payout'[m][p])
      BY <3>1, <3>2 DEF WholeCents, TypeOK
    <3>6. ASSUME NEW m \in Payments, NEW j \in Items, j \in made'[m]
          PROVE  seen'[m][j] + payout'[m][j] <= InCents(Owed[j])
      <4>1. j \in Payees /\ got[i] \in Nat
        BY ItemFacts DEF TypeOK
      <4>2. CASE m = k /\ j = i
        <5>1. seen'[m][j] = got[i] /\ payout'[m][j] = r
          BY <3>1, <4>1, <4>2 DEF TypeOK
        <5>2. QED
          BY <3>2, <3>3, <4>1, <4>2, <5>1
      <4>3. CASE ~(m = k /\ j = i)
        <5>1. /\ j \in made[m]
              /\ seen'[m][j] = seen[m][j] /\ payout'[m][j] = payout[m][j]
          BY <3>1, <3>6, <4>1, <4>3 DEF TypeOK
        <5>2. QED
          BY <5>1 DEF WholeCents
      <4>4. QED
        BY <4>2, <4>3
    <3>7. QED
      BY <3>4, <3>5, <3>6 DEF WholeCents
  <2>3. QED
    BY <1>2, <2>1, <2>2, VendorCases
<1>3. ASSUME NEW k \in Payments, Finish(k)
      PROVE  WholeCents'
  <2>1. \A m \in Payments, p \in Payees : Whole(payout'[m][p])
    <3>1. ASSUME NEW r \in Nat, StoreAlso(k, r)
          PROVE  \A m \in Payments, p \in Payees : Whole(payout'[m][p])
      <4>1. Whole(r)
        BY <3>1, InCentsFacts DEF StoreAlso, TypeOK
      <4>2. payout' = [payout EXCEPT ![k][Store] = r]
        BY <3>1 DEF StoreAlso
      <4>3. QED
        BY <4>1, <4>2 DEF WholeCents, TypeOK
    <3>2. VendorsOnly(k) \/ NoPayouts(k) => UNCHANGED payout
      BY DEF VendorsOnly, NoPayouts
    <3>3. QED
      BY <1>3, <3>1, <3>2, FinishCases DEF WholeCents
  <2>2. ASSUME NEW m \in Payments, NEW j \in Items, j \in made'[m]
        PROVE  seen'[m][j] + payout'[m][j] <= InCents(Owed[j])
    BY <1>3, <2>2, OthersKept DEF WholeCents
  <2>3. UNCHANGED got
    BY <1>3 DEF Finish, bank
  <2>4. QED
    BY <2>1, <2>2, <2>3 DEF WholeCents
<1>4. ASSUME NEW k \in Payments, CustomerPays(k)
      PROVE  WholeCents'
  BY <1>4 DEF CustomerPays, WholeCents, generator
<1>5. ASSUME NEW k \in Payments, NEW to \in State \ {"none", "creating"},
             NEW from \in SUBSET (State \ {"none", "creating"}), Become(k, from, to)
      PROVE  WholeCents'
  BY <1>5 DEF Become, WholeCents, generator, bank
<1>6. ASSUME NEW k \in Payments, NEW p \in Payees, ConfirmPayout(k, p)
      PROVE  WholeCents'
  <2>1. got' = [got EXCEPT ![p] = @ + payout[k][p]] /\ UNCHANGED <<made, payout, seen>>
    BY <1>6 DEF ConfirmPayout, generator
  <2>2. \A q \in Payees : Whole(got'[q])
    <3> SUFFICES ASSUME NEW q \in Payees
                 PROVE  Whole(got'[q])
      OBVIOUS
    <3>1. /\ got[q] \in Nat /\ Whole(got[q])
          /\ payout[k][q] \in Nat /\ Whole(payout[k][q])
      BY DEF TypeOK, WholeCents
    <3>2. got'[q] = got[q] \/ got'[q] = got[q] + payout[k][q]
      BY <2>1 DEF TypeOK
    <3>3. Whole(got[q] + payout[k][q])
      BY <3>1, WholeAdds DEF Whole
    <3>4. QED
      BY <3>1, <3>2, <3>3
  <2>3. QED
    BY <2>1, <2>2 DEF WholeCents
<1>7. QED
  BY <1>1, <1>2, <1>3, <1>4, <1>5, <1>6, NextCases

\* A confirmation that keeps the totals apart is of a payout that saw them all.
LEMMA OverpaymentStep ==
  ASSUME TypeOK, Drafts, WholeCents, Overpayment, Next
  PROVE  Overpayment'
<1> SUFFICES ASSUME NEW j \in Items, Sequential(j)'
             PROVE  /\ got'[j] <= InCents(Owed[j])
                    /\ \A k \in Payments :
                         j \in made'[k] /\ j \notin confirmed'[k] /\ payout'[k][j] > 0 =>
                           \/ seen'[k][j] = got'[j]
                           \/ \E m \in Payments : Gave(m, j)' /\ SameTotal(k, m, j)'
  BY DEF Overpayment
<1> DEFINE Goal ==
      /\ got'[j] <= InCents(Owed[j])
      /\ \A k \in Payments :
           j \in made'[k] /\ j \notin confirmed'[k] /\ payout'[k][j] > 0 =>
             \/ seen'[k][j] = got'[j]
             \/ \E m \in Payments : Gave(m, j)' /\ SameTotal(k, m, j)'
<1>j. j \in Payees
  BY ItemFacts
  \* Nothing is confirmed, and only payouts that saw the present sum are new.
<1>s. ASSUME UNCHANGED <<confirmed, got>>,
             \A m \in Payments : j \in confirmed[m] =>
               seen'[m][j] = seen[m][j] /\ payout'[m][j] = payout[m][j],
             \A m \in Payments : j \in made'[m] =>
               \/ seen'[m][j] = got[j]
               \/ /\ j \in made[m] /\ seen'[m][j] = seen[m][j]
                  /\ payout'[m][j] = payout[m][j]
      PROVE  Goal
  <2>1. Sequential(j)
    BY <1>s DEF Sequential, SameTotal, Gave
  <2>2. QED
    BY <1>s, <2>1 DEF Overpayment, SameTotal, Gave
<1>1. ASSUME NEW k \in Payments, NEW t \in Totals, Create(k, t)
      PROVE  Goal
  BY <1>s, <1>1 DEF Create, bank
<1>2. ASSUME NEW k \in Payments, VendorPayout(k)
      PROVE  Goal
  <2>1. CASE VendorPasses(k)
    BY <1>s, <2>1 DEF VendorPasses
  <2>2. ASSUME NEW i \in Items, NEW a \in Nat, NEW b \in Nat, VendorBuilds(k, i, a, b)
        PROVE  Goal
    <3>1. /\ made' = [made EXCEPT ![k] = @ \cup {i}]
          /\ seen' = [seen EXCEPT ![k][i] = got[i]]
          /\ payout' = [payout EXCEPT ![k][i] = InCents(a)]
          /\ state[k] = "creating" /\ UNCHANGED <<confirmed, got>>
      BY <2>2 DEF VendorBuilds
    <3>2. \A m \in Payments : j \in confirmed[m] =>
            seen'[m][j] = seen[m][j] /\ payout'[m][j] = payout[m][j]
      BY <1>j, <3>1 DEF Drafts, TypeOK
    <3>3. \A m \in Payments : j \in made'[m] =>
            \/ seen'[m][j] = got[j]
            \/ /\ j \in made[m] /\ seen'[m][j] = seen[m][j]
               /\ payout'[m][j] = payout[m][j]
      BY <1>j, <3>1 DEF TypeOK
    <3>4. QED
      BY <1>s, <3>1, <3>2, <3>3
  <2>3. QED
    BY <1>2, <2>1, <2>2, VendorCases
<1>3. ASSUME NEW k \in Payments, Finish(k)
      PROVE  Goal
  <2>1. \A m \in Payments : j \in made'[m] =>
          /\ j \in made[m] /\ seen'[m][j] = seen[m][j]
          /\ payout'[m][j] = payout[m][j]
    BY <1>3, OthersKept
  <2>2. UNCHANGED <<confirmed, got>>
    BY <1>3 DEF Finish, bank
  <2>3. \A m \in Payments : j \in confirmed[m] => j \in made'[m]
    <3>1. ASSUME NEW m \in Payments, m # k
          PROVE  made'[m] = made[m]
      <4>1. ASSUME NEW r \in Nat, StoreAlso(k, r)
            PROVE  made'[m] = made[m]
        BY <3>1, <4>1 DEF StoreAlso, TypeOK
      <4>2. NoPayouts(k) \/ VendorsOnly(k) => made'[m] = made[m]
        BY <3>1 DEF NoPayouts, VendorsOnly, TypeOK
      <4>3. QED
        BY <1>3, <4>1, <4>2, FinishCases
    <3>2. confirmed[k] = {}
      BY <1>3 DEF Finish, Drafts
    <3>3. QED
      BY <3>1, <3>2 DEF Drafts
  <2>4. QED
    BY <1>s, <2>1, <2>2, <2>3
<1>4. ASSUME NEW k \in Payments, CustomerPays(k)
      PROVE  Goal
  BY <1>s, <1>4 DEF CustomerPays, generator
<1>5. ASSUME NEW k \in Payments, NEW to \in State \ {"none", "creating"},
             NEW from \in SUBSET (State \ {"none", "creating"}), Become(k, from, to)
      PROVE  Goal
  BY <1>s, <1>5 DEF Become, generator, bank
<1>6. ASSUME NEW k \in Payments, NEW p \in Payees, ConfirmPayout(k, p)
      PROVE  Goal
  <2>1. /\ p \in made[k] /\ p \notin confirmed[k]
        /\ confirmed' = [confirmed EXCEPT ![k] = @ \cup {p}]
        /\ got' = [got EXCEPT ![p] = @ + payout[k][p]]
        /\ UNCHANGED <<made, payout, seen>>
    BY <1>6 DEF ConfirmPayout, generator
  <2>2. \A m \in Payments :
          /\ Gave(m, j) => Gave(m, j)'
          /\ Gave(m, j)' => Gave(m, j) \/ (m = k /\ j = p)
          /\ j \notin confirmed'[m] => j \notin confirmed[m]
    BY <2>1 DEF TypeOK, Gave
  <2>3. Sequential(j)
    BY <2>1, <2>2 DEF Sequential, SameTotal
  <2>4. CASE j = p /\ payout[k][p] > 0
    <3>0. Gave(k, j)' /\ ~Gave(k, j)
      BY <2>1, <2>4 DEF Gave, TypeOK
    <3>1. \A m \in Payments : Gave(m, j) => ~SameTotal(k, m, j)
      BY <2>1, <2>2, <3>0 DEF Sequential, SameTotal
    <3>2. seen[k][j] = got[j]
      BY <2>1, <2>3, <2>4, <3>1 DEF Overpayment
    <3>3. got'[j] = got[j] + payout[k][j]
      BY <1>j, <2>1, <2>4 DEF TypeOK
    <3>4. got'[j] <= InCents(Owed[j])
      BY <2>1, <2>4, <3>2, <3>3 DEF WholeCents
    <3>5. ASSUME NEW m \in Payments, j \in made'[m], j \notin confirmed'[m],
                 payout'[m][j] > 0
          PROVE  \E l \in Payments : Gave(l, j)' /\ SameTotal(m, l, j)'
      <4>1. \/ seen[m][j] = got[j]
            \/ \E l \in Payments : Gave(l, j) /\ SameTotal(m, l, j)
        BY <2>1, <2>2, <2>3, <3>5 DEF Overpayment
      <4>2. QED
        BY <2>1, <2>2, <3>0, <3>2, <4>1 DEF SameTotal
    <3>6. QED
      BY <3>4, <3>5
  <2>5. CASE ~(j = p /\ payout[k][p] > 0)
    <3>1. got'[j] = got[j]
      <4>1. payout[k][p] \in Nat /\ got[j] \in Nat
        BY <1>j DEF TypeOK
      <4>2. QED
        BY <1>j, <2>1, <2>5, <4>1 DEF TypeOK
    <3>2. QED
      BY <2>1, <2>2, <2>3, <3>1 DEF Overpayment, SameTotal
  <2>6. QED
    BY <2>4, <2>5
<1>7. QED
  BY <1>1, <1>2, <1>3, <1>4, <1>5, <1>6, NextCases

\* A vendor is overpaid only by payments that were created from the same sum
\* of confirmed payouts.
THEOREM OverpaidOnlyBlindly == Spec => []OverpaidMeansStaleTotal
<1>1. Init => WholeCents /\ Overpayment
  <2> SUFFICES ASSUME Init
               PROVE  WholeCents /\ Overpayment
    OBVIOUS
  <2>1. ASSUME NEW i \in Items
        PROVE  0 <= InCents(Owed[i])
    <3>1. InCents(Owed[i]) \in Nat
      BY ItemFacts, InCentsFacts
    <3>2. QED
      BY <3>1
  <2>2. 0 % Cent = 0
    BY PayoutsAssumption
  <2>3. QED
    BY <2>1, <2>2, ItemFacts DEF Init, WholeCents, Overpayment, Whole
<1>2. TypeOK /\ Drafts /\ WholeCents /\ Overpayment /\ [Next]_vars
        => WholeCents' /\ Overpayment'
  <2>1. CASE UNCHANGED vars
    BY <2>1 DEF WholeCents, Overpayment, Sequential, SameTotal, Gave, vars, generator, bank
  <2>2. QED
    BY <2>1, CentsStep, OverpaymentStep
<1>3. TypeOK /\ Overpayment => OverpaidMeansStaleTotal
  <2> SUFFICES ASSUME TypeOK, Overpayment, NEW i \in Items,
                      got[i] > InCents(Owed[i])
               PROVE  ~Sequential(i)
    BY DEF OverpaidMeansStaleTotal, Sequential, SameTotal, Gave
  <2>1. got[i] \in Nat /\ InCents(Owed[i]) \in Nat
    BY ItemFacts, InCentsFacts DEF TypeOK
  <2>2. QED
    BY <2>1 DEF Overpayment
<1>4. QED
  BY <1>1, <1>2, <1>3, TypeCorrect, DraftsInvariant, PTL DEF Spec
=============================================================================
