--------------------------- MODULE PreAuthContract ---------------------------
(***************************************************************************)
(* What a pre-authorized checkout promises, without jobs, retries, rows or *)
(* documents: money is held before the order is placed, collected only for *)
(* a placed order, released only for one that is not, booked in the shop's *)
(* ledger only once it was collected in full, and the customer is told of  *)
(* success last.  PreAuthCheckout implements it (see its Contract).        *)
(***************************************************************************)

VARIABLES
  money,    \* "none", "held", "refused", "collected", "short", "released"
  placed,   \* the order is complete
  booked,   \* the payment is completed
  told      \* the customer saw the success page

vars == <<money, placed, booked, told>>

Init == money = "none" /\ placed = FALSE /\ booked = FALSE /\ told = FALSE

Answer ==
  /\ money = "none" /\ money' \in {"held", "refused"}
  /\ UNCHANGED <<placed, booked, told>>

Place ==
  /\ money = "held" /\ ~ placed /\ placed' = TRUE
  /\ UNCHANGED <<money, booked, told>>

\* A collection outside this program may fall short of the amount held.
Collect ==
  /\ money = "held" /\ placed /\ money' \in {"collected", "short"}
  /\ UNCHANGED <<placed, booked, told>>

Release ==
  /\ money = "held" /\ ~ placed /\ money' = "released"
  /\ UNCHANGED <<placed, booked, told>>

Book ==
  /\ money = "collected" /\ ~ booked /\ booked' = TRUE
  /\ UNCHANGED <<money, placed, told>>

Tell ==
  /\ booked /\ ~ told /\ told' = TRUE
  /\ UNCHANGED <<money, placed, booked>>

Next == Answer \/ Place \/ Collect \/ Release \/ Book \/ Tell

Spec == Init /\ [][Next]_vars

=============================================================================
