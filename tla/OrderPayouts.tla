---------------------------- MODULE OrderPayouts ----------------------------
(***************************************************************************)
(* The payments of one order with a gateway that splits what it is paid,   *)
(* and the payouts generated for each of them (PayoutsGenerator).          *)
(*                                                                         *)
(* Items are the order's line items and vendor-handled shipments that have *)
(* a payout profile, numbered in the order they are paid; the store takes  *)
(* what is left.  Shares are exact, in a unit of which a cent has Cent;    *)
(* what the columns store is whole cents.  A payment is created in one     *)
(* transaction, but what earlier payments confirmed for an item is read    *)
(* item by item, each in a query of its own.                               *)
(***************************************************************************)
EXTENDS Integers, FiniteSets

CONSTANTS
  Payments,   \* the payments the order may get
  Cent,       \* how many units a cent has
  N,          \* number of items
  Owed,       \* what each item's vendor is to receive
  Totals      \* the order's total, after each store credit that may be used

Items  == 1..N
Store  == N + 1
Payees == Items \cup {Store}

\* A vendor's share is what is left of a price after a percentage, and need not
\* be a whole number of cents; the order's total is.
ASSUME PayoutsAssumption ==
  /\ Cent \in Nat \ {0} /\ N \in Nat /\ Owed \in [Items -> Nat]
  /\ \A t \in Totals : t \in Nat /\ t % Cent = 0

VARIABLES
  state,      \* each payment's state
  replaced,   \* the payments its creation invalidates, locked until it commits
  asked,      \* what the order asked for when the payment was created
  amount,     \* the payment's amount
  remaining,  \* the generator's remaining_amount
  at,         \* the payee the generator is at
  sum,        \* the sum of the payouts built so far, in whole cents
  made,       \* the payees that have a payout
  payout,     \* its amount
  seen,       \* its total_confirmed_payouts: what was confirmed when it was built
  short,      \* the items whose payout leaves an outstanding amount
  confirmed,  \* the payees whose payout is confirmed
  got,        \* the sum of the confirmed payouts of each payee, of any payment
  paid        \* the payments the customer paid at the bank

generator == <<remaining, at, sum, made, payout, seen, short>>
bank == <<confirmed, got, paid>>
vars == <<state, replaced, asked, amount, generator, bank>>

State == {"none", "creating", "checkout", "processing", "failed", "invalid", "completed"}

TypeOK ==
  /\ state \in [Payments -> State]
  /\ replaced \in [Payments -> SUBSET Payments]
  /\ asked \in [Payments -> Nat]
  /\ amount \in [Payments -> Nat]
  /\ remaining \in [Payments -> Nat]
  /\ at \in [Payments -> 1..Store]
  /\ sum \in [Payments -> Nat]
  /\ made \in [Payments -> SUBSET Payees]
  /\ payout \in [Payments -> [Payees -> Nat]]
  /\ seen \in [Payments -> [Payees -> Nat]]
  /\ short \in [Payments -> SUBSET Items]
  /\ confirmed \in [Payments -> SUBSET Payees]
  /\ got \in [Payees -> Nat]
  /\ paid \subseteq Payments

Init ==
  /\ state = [k \in Payments |-> "none"]
  /\ replaced = [k \in Payments |-> {}]
  /\ asked = [k \in Payments |-> 0]
  /\ amount = [k \in Payments |-> 0]
  /\ remaining = [k \in Payments |-> 0]
  /\ at = [k \in Payments |-> 1]
  /\ sum = [k \in Payments |-> 0]
  /\ made = [k \in Payments |-> {}]
  /\ payout = [k \in Payments |-> [i \in Payees |-> 0]]
  /\ seen = [k \in Payments |-> [i \in Payees |-> 0]]
  /\ short = [k \in Payments |-> {}]
  /\ confirmed = [k \in Payments |-> {}]
  /\ got = [i \in Payees |-> 0]
  /\ paid = {}

-----------------------------------------------------------------------------
(* FindOrCreate *)

Found_Never(t) == {}

\* The payments that are still in checkout for this very amount.
Found(t) == {k \in Payments : state[k] = "checkout" /\ amount[k] = t}

\* A request finds no such payment and inserts one, which invalidates those
\* in checkout; one that another request is just creating is not among them.
Create(k, t) ==
  /\ state[k] = "none" /\ Found(t) = {}
  /\ state' = [state EXCEPT ![k] = "creating"]
  /\ replaced' = [replaced EXCEPT ![k] = {m \in Payments : state[m] = "checkout"}]
  /\ asked' = [asked EXCEPT ![k] = t]
  /\ amount' = [amount EXCEPT ![k] = t]
  /\ remaining' = [remaining EXCEPT ![k] = t]
  /\ UNCHANGED <<at, sum, made, payout, seen, short, bank>>

-----------------------------------------------------------------------------
(* PayoutsGenerator *)

InCents_Exact(a) == a

\* What a column of two decimals makes of an amount it is assigned: the
\* nearest cent, a half rounded up.
InCents(a) ==
  LET part == a % Cent
  IN  IF 2 * part < Cent THEN a - part ELSE a - part + Cent

\* round_up, the next whole cent.  The amounts it is given are whole cents
\* already.
RoundUp(a) ==
  LET part == a % Cent
  IN  IF part = 0 THEN a ELSE a - part + Cent

Outstanding_Whole(i, total) == Owed[i]

\* What the item's vendor is still owed.
Outstanding(i, total) == Owed[i] - total

PayoutAmount_Whole(owed, left) == owed

PayoutAmount(owed, left) == IF owed <= left THEN owed ELSE left

\* A payout: its column rounds what it is given, and round_up what the column
\* has once all of them are built.
Build(k, payee, a, total) ==
  /\ made' = [made EXCEPT ![k] = @ \cup {payee}]
  /\ payout' = [payout EXCEPT ![k][payee] = RoundUp(InCents(a))]
  /\ seen' = [seen EXCEPT ![k][payee] = total]
  /\ sum' = [sum EXCEPT ![k] = @ + RoundUp(InCents(a))]

\* vendor_payouts and vendor_shipment_payouts, one item after the other: what
\* confirmed payouts have not given the vendor, as far as the payment goes.
\* remaining_amount loses the exact share, outstanding_amount is a column.
VendorPayout(k) ==
  /\ state[k] = "creating" /\ at[k] \in Items
  /\ LET i    == at[k]
         owed == Outstanding(i, got[i])
         a    == PayoutAmount(owed, remaining[k])
     IN  \/ /\ got[i] >= Owed[i]
            /\ UNCHANGED <<remaining, sum, made, payout, seen, short>>
         \/ /\ got[i] < Owed[i]
            /\ Build(k, i, a, got[i])
            /\ remaining' = [remaining EXCEPT ![k] = @ - a]
            /\ short' = [short EXCEPT ![k] =
                           IF InCents(owed - a) > 0 THEN @ \cup {i} ELSE @]
  /\ at' = [at EXCEPT ![k] = @ + 1]
  /\ UNCHANGED <<state, replaced, asked, amount, bank>>

StoreGets_Zero(k) == remaining[k] >= 0

\* The store takes the rest.
StoreGets(k) == remaining[k] > 0

\* All payouts would go to the store, or one goes to another merchant: there
\* are none.
NoPayouts(k) ==
  /\ made' = [made EXCEPT ![k] = {}]
  /\ UNCHANGED <<amount, sum, payout, seen>>

\* The payouts are saved, and the payment's amount becomes their sum.
SavePayouts(k) ==
  /\ made[k] # {}
  /\ IF StoreGets(k) THEN Build(k, Store, remaining[k], 0)
     ELSE UNCHANGED <<sum, made, payout, seen>>
  /\ amount' = [amount EXCEPT ![k] = sum'[k]]

\* The end of call, and of the transaction: the payment is visible now, and
\* those it replaces are invalid.
Finish(k) ==
  /\ state[k] = "creating" /\ at[k] = Store
  /\ SavePayouts(k) \/ NoPayouts(k)
  /\ state' = [m \in Payments |->
                 IF m = k THEN "checkout"
                 ELSE IF m \in replaced[k] THEN "invalid" ELSE state[m]]
  /\ UNCHANGED <<replaced, asked, remaining, at, short, bank>>

-----------------------------------------------------------------------------
(* The customer, the processor and the administrator *)

\* The code of a payment can be paid for, whatever became of the payment.
CustomerPays(k) ==
  /\ state[k] \in {"checkout", "failed", "invalid"} /\ k \notin paid
  /\ paid' = paid \cup {k}
  /\ UNCHANGED <<state, replaced, asked, amount, generator, confirmed, got>>

\* A transition waits for the lock a creation holds on the payment.
Become(k, from, to) ==
  /\ state[k] \in from
  /\ \A m \in Payments : state[m] = "creating" => k \notin replaced[m]
  /\ state' = [state EXCEPT ![k] = to]
  /\ UNCHANGED <<replaced, asked, amount, generator, bank>>

\* process!, which asks the bank; it may not know of the customer's payment,
\* may not answer, or may report payouts that are not those expected.
Process(k) ==
  \/ k \in paid /\ Become(k, {"checkout", "failed"}, "processing")
  \/ Become(k, {"checkout"}, "failed")

\* The administrator's reprocess.
Reprocess(k) == Become(k, {"failed", "invalid", "processing"}, "checkout")

\* confirm_payouts: the bank reports what it was asked to split, and the
\* payouts are confirmed one by one.
ConfirmPayout(k, p) ==
  /\ state[k] = "processing"
  /\ p \in made[k] \ confirmed[k]
  /\ \A q \in made[k] \ confirmed[k] : p <= q
  /\ confirmed' = [confirmed EXCEPT ![k] = @ \cup {p}]
  /\ got' = [got EXCEPT ![p] = @ + payout[k][p]]
  /\ UNCHANGED <<state, replaced, asked, amount, generator, paid>>

AllConfirmed_Some(k) == made[k] = {} \/ confirmed[k] # {}

AllConfirmed(k) == made[k] = confirmed[k]

Complete(k) ==
  /\ AllConfirmed(k)
  /\ Become(k, {"processing"}, "completed")

Next ==
  \E k \in Payments :
    \/ \E t \in Totals : Create(k, t)
    \/ VendorPayout(k) \/ Finish(k)
    \/ CustomerPays(k) \/ Process(k) \/ Reprocess(k)
    \/ \E p \in Payees : ConfirmPayout(k, p)
    \/ Complete(k)

Spec == Init /\ [][Next]_vars

-----------------------------------------------------------------------------
(* Properties *)

Visible(k) == state[k] \notin {"none", "creating"}

\* Rounding moves the payment's amount, which ABA must find split exactly, by no
\* more than half a cent a payout from what the order asked for.
RoundingBounded ==
  \A k \in Payments : Visible(k) =>
    /\ 2 * asked[k] <= 2 * amount[k] + Cent * Cardinality(made[k])
    /\ 2 * amount[k] <= 2 * asked[k] + Cent * Cardinality(made[k])

\* The store takes nothing while a vendor is left short by the same payment.
StoreLast ==
  \A k \in Payments : Store \in made[k] => short[k] = {}

\* A completed payment that left nobody an outstanding amount leaves no vendor
\* short of a cent: what it skipped or topped up was confirmed by other
\* payments, and stays so.
VendorsCovered ==
  \A k \in Payments :
    state[k] = "completed" /\ made[k] # {} /\ short[k] = {} =>
      \A i \in Items : got[i] + Cent > Owed[i]

\* A vendor gets more than its share, to the nearest cent, only by payments
\* that were created from the same confirmed total: both paid something, and
\* neither knew the other.
OverpaidMeansStaleTotal ==
  \A i \in Items : got[i] > InCents(Owed[i]) =>
    \E k, m \in Payments :
      /\ k # m
      /\ i \in confirmed[k] /\ i \in confirmed[m]
      /\ seen[k][i] = seen[m][i]
      /\ payout[k][i] > 0 /\ payout[m][i] > 0

\* PayoutsGenerator#call: "If any payouts were rounded, the total may increase
\* slightly": a completed payment is for no less than the order asked, or the
\* order, which completes only when it is covered, does not.
CompletedCoversTotal ==
  \A k \in Payments : state[k] = "completed" => amount[k] >= asked[k]

\* A request replaces a payment of the same total only if rounding has
\* changed that payment's amount; any other it would have found.
ReplacedWasRounded ==
  [][\A k, m \in Payments :
       /\ state[m] = "checkout" /\ state'[m] = "invalid"
       /\ state[k] = "creating" /\ state'[k] = "checkout"
       /\ asked[k] = asked[m]
       => amount[m] # asked[m]]_vars
=============================================================================
