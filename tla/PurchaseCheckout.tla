-------------------------- MODULE PurchaseCheckout --------------------------
(***************************************************************************)
(* One order paid with one auto-captured payment of a gateway that can     *)
(* refund (TrueMoney, the Vattanac mini app).                              *)
(*                                                                         *)
(* The customer pays at the bank at once.  PaymentProcessorJob asks the    *)
(* bank, books the payment and completes the order; when the order cannot  *)
(* be completed, PaymentCancelerJob refunds the money.  As in              *)
(* PreAuthCheckout, an action is the code between two accesses to the      *)
(* payment row, the order, the bank or the order's Firestore document.     *)
(***************************************************************************)
EXTENDS PaymentStates, Naturals

CONSTANTS
  StockReturns,      \* an order that failed for stock may complete later
  MaxRetries,        \* Sidekiq retries of a job
  MaxFaults          \* how often a call is lost, a job killed, a push sent

ASSUME PurchaseAssumption ==
  /\ StockReturns \in BOOLEAN
  /\ MaxRetries \in Nat /\ MaxFaults \in Nat

VARIABLES
  bank,      \* the transaction at the bank
  pay,       \* the payment's state column
  order,     \* the order's state
  inStock,   \* whether the order's lines can be fulfilled
  doc,       \* the order's Firestore document
  pc,        \* where each job is
  mem,       \* the payment state each job holds in memory
  tries,     \* Sidekiq retries used by each job
  killed,    \* whether a job was killed
  faults     \* what is left of MaxFaults

jobs == <<pc, mem, tries>>
serverVars == <<bank, pay, order, inStock, doc, jobs, killed, faults>>

Jobs == {"processor", "canceler"}

MessageCode ==
  {"none", "payment_is_processing", "payment_is_retrying",
   "order_is_processing", "order_is_completed",
   "order_process_failed", "payment_process_failed"}

Label ==
  {"idle", "queued", "dead",
   "announce", "start", "purchase", "tell_retrying", "tell_failed",
   "tell_order", "complete_order", "tell_completed", "tell_order_failed",
   "enqueue_cancel", "refund", "save_void"}

ServerTypeOK ==
  /\ bank \in {"unpaid", "paid", "declined", "refunded"}
  /\ pay \in PaymentState
  /\ order \in {"payment", "complete"}
  /\ inStock \in BOOLEAN
  /\ doc \in [code : MessageCode, order : {"payment", "complete"}]
  /\ pc \in [Jobs -> Label]
  /\ mem \in [Jobs -> PaymentState \cup {"none"}]
  /\ tries \in [Jobs -> 0..MaxRetries]
  /\ killed \in BOOLEAN
  /\ faults \in 0..MaxFaults

ServerInit ==
  /\ bank = "unpaid" /\ pay = "checkout" /\ order = "payment" /\ inStock = TRUE
  /\ doc = [code |-> "none", order |-> "payment"]
  /\ pc = [j \in Jobs |-> "idle"]
  /\ mem = [j \in Jobs |-> "none"]
  /\ tries = [j \in Jobs |-> 0]
  /\ killed = FALSE /\ faults = MaxFaults

Placed == order = "complete"

-----------------------------------------------------------------------------
(* Moving a job on.                                                        *)

\* One more thing goes wrong, or comes unasked.
Fault == faults > 0 /\ faults' = faults - 1

Step(j, label, state) ==
  /\ pc' = [pc EXCEPT ![j] = label]
  /\ mem' = [mem EXCEPT ![j] = state]
  /\ UNCHANGED tries

Goto(j, label) == Step(j, label, mem[j])

Finish(j) ==
  /\ pc' = [pc EXCEPT ![j] = "idle"]
  /\ mem' = [mem EXCEPT ![j] = "none"]
  /\ tries' = [tries EXCEPT ![j] = 0]

RetriesLeft_OffByOne(j) == tries[j] <= MaxRetries
RetriesLeft(j) == tries[j] < MaxRetries

\* The step raised: Sidekiq runs the job again, or drops it with its unique
\* lock still taken.
Raise(j) ==
  /\ pc' = [pc EXCEPT ![j] = IF RetriesLeft(j) THEN "queued" ELSE "dead"]
  /\ mem' = [mem EXCEPT ![j] = "none"]
  /\ tries' = [tries EXCEPT ![j] = IF RetriesLeft(j) THEN @ + 1 ELSE @]

\* perform_later under a unique lock: refused while the job is there.
Enqueue(j) ==
  /\ pc' = [pc EXCEPT ![j] = IF @ = "idle" THEN "queued" ELSE @]
  /\ UNCHANGED <<mem, tries>>

\* Firebase#notify: the order is reloaded and written with the message.
Notify(code) == doc' = [code |-> code, order |-> order]

\* A step that only notifies; an error of Firestore fails the run.
Tell(at, code, next) ==
  /\ pc["processor"] = at
  /\ \/ Notify(code) /\ Goto("processor", next) /\ UNCHANGED faults
     \/ Fault /\ Raise("processor") /\ UNCHANGED doc
  /\ UNCHANGED <<bank, pay, order, inStock, killed>>

-----------------------------------------------------------------------------
(* The customer, the bank and the shop floor.                              *)

CustomerPays ==
  /\ bank = "unpaid"
  /\ bank' \in {"paid", "declined"}
  /\ UNCHANGED <<pay, order, inStock, doc, jobs, faults, killed>>

StockChanges ==
  /\ ~ Placed
  /\ inStock \/ StockReturns
  /\ inStock' = ~ inStock
  /\ UNCHANGED <<bank, pay, order, doc, jobs, faults, killed>>

\* process_payment: enqueue the processor unless order.paid?.
ProcessPayment_OnlyCheckout ==
  IF pay = "checkout" THEN Enqueue("processor") ELSE UNCHANGED jobs
ProcessPayment ==
  IF Placed /\ pay = "completed" THEN UNCHANGED jobs ELSE Enqueue("processor")

\* The gateway's own call of process_payment.
Pushback ==
  /\ bank # "unpaid" /\ Fault
  /\ ProcessPayment
  /\ UNCHANGED <<bank, pay, order, inStock, doc, killed>>

-----------------------------------------------------------------------------
(* PaymentProcessor: book the payment, then complete the order.            *)

ProcessorLoad ==
  /\ pc["processor"] = "queued"
  /\ \/ CanProcess(pay) /\ Step("processor", "announce", pay)
     \/ pay = "completed" /\ Step("processor", "tell_order", pay)
     \/ pay = "void" /\ Finish("processor")
  /\ UNCHANGED <<bank, pay, order, inStock, doc, faults, killed>>

Announce == Tell("announce", "payment_is_processing", "start")

\* process! resets a failed payment, then started_processing!; Spree's
\* purchase! returns at once for a payment already in processing.
Start ==
  /\ pc["processor"] = "start"
  /\ \/ /\ mem["processor"] = "failed"
        /\ pay' = "checkout" /\ Step("processor", "start", "checkout")
     \/ /\ mem["processor"] = "checkout"
        /\ pay' = "processing" /\ Step("processor", "purchase", "processing")
     \/ /\ mem["processor"] = "processing"
        /\ Finish("processor") /\ UNCHANGED pay
  /\ UNCHANGED <<bank, order, inStock, doc, faults, killed>>

Purchased_TakesPending(status) == status # "declined"
Purchased(status) == status = "paid"

\* protect_from_connection_error: Spree's own does not know Faraday's errors.
AfterLostAnswer_Spree == "processing"
AfterLostAnswer == "failed"

\* TrueMoney#purchase asks the bank, and handle_response commits the answer.

Purchase ==
  /\ pc["processor"] = "purchase"
  /\ \/ /\ Purchased(bank)
        /\ pay' = "completed" /\ Step("processor", "tell_order", "completed")
        /\ UNCHANGED faults
     \/ /\ ~ Purchased(bank)
        /\ pay' = "failed" /\ Step("processor", "tell_failed", "failed")
        /\ UNCHANGED faults
     \/ /\ Fault
        /\ pay' = AfterLostAnswer /\ Step("processor", "tell_retrying", pay')
  /\ UNCHANGED <<bank, order, inStock, doc, killed>>

TellRetrying ==
  /\ pc["processor"] = "tell_retrying"
  /\ \/ Notify("payment_is_retrying") /\ UNCHANGED faults
     \/ Fault /\ UNCHANGED doc
  /\ Raise("processor")
  /\ UNCHANGED <<bank, pay, order, inStock, killed>>

\* A failed payment has neither a void nor a cancel action: the run is over.
TellFailed == Tell("tell_failed", "payment_process_failed", "enqueue_cancel")

TellOrder == Tell("tell_order", "order_is_processing", "complete_order")

\* completer.success? decides what the page is told.
AfterCompleter_Unchecked(success) == "tell_completed"
AfterCompleter(success) ==
  IF success THEN "tell_completed" ELSE "tell_order_failed"

\* Spree::Checkout::Complete, one transaction; at once for a complete order.
CompleteOrder ==
  /\ pc["processor"] = "complete_order"
  /\ order' = IF inStock /\ pay = "completed" THEN "complete" ELSE order
  /\ Goto("processor", AfterCompleter(order' = "complete"))
  /\ UNCHANGED <<bank, pay, inStock, doc, faults, killed>>

\* No capture is enqueued for a completed payment: the run is over.
TellCompleted ==
  Tell("tell_completed", "order_is_completed", "enqueue_cancel")

TellOrderFailed ==
  Tell("tell_order_failed", "order_process_failed", "enqueue_cancel")

\* can_cancel?: the payment is completed and the order is not.
CanCancel(state) == ~ Placed /\ state = "completed"

EnqueueCancel ==
  /\ pc["processor"] = "enqueue_cancel"
  /\ pc' = [pc EXCEPT !["processor"] = "idle",
                      !["canceler"] =
                         IF CanCancel(mem["processor"]) /\ @ = "idle"
                           THEN "queued" ELSE @]
  /\ mem' = [mem EXCEPT !["processor"] = "none"]
  /\ tries' = [tries EXCEPT !["processor"] = 0]
  /\ UNCHANGED <<bank, pay, order, inStock, doc, faults, killed>>

Processor ==
  \/ ProcessorLoad \/ Announce \/ Start \/ Purchase \/ TellRetrying
  \/ TellFailed \/ TellOrder \/ CompleteOrder \/ TellCompleted
  \/ TellOrderFailed \/ EnqueueCancel

-----------------------------------------------------------------------------
(* PaymentCancelerJob: cancel! refunds.                                    *)

CancelerLoad ==
  /\ pc["canceler"] = "queued"
  /\ IF CanCancel(pay) THEN Step("canceler", "refund", pay)
                       ELSE Finish("canceler")
  /\ UNCHANGED <<bank, pay, order, inStock, doc, faults, killed>>

\* The next step once the bank has answered: only success voids.
AfterRefund_Unchecked(accepted) == "save_void"
AfterRefund(accepted) == IF accepted THEN "save_void" ELSE "raise"

\* RefundIssuer: the bank refunds what was paid, once, or refuses.  A lost
\* answer raises, as does a refusal (a completed payment cannot fail).
Refund ==
  /\ pc["canceler"] = "refund"
  /\ \/ /\ bank = "paid" /\ bank' = "refunded"
        /\ Goto("canceler", AfterRefund(TRUE)) /\ UNCHANGED faults
     \/ /\ (bank = "refunded" /\ UNCHANGED faults) \/ Fault
        /\ IF AfterRefund(FALSE) = "save_void"
             THEN Goto("canceler", "save_void") ELSE Raise("canceler")
        /\ UNCHANGED bank
     \/ /\ Fault /\ Raise("canceler")
        /\ bank' \in {bank, "refunded"}
  /\ UNCHANGED <<pay, order, inStock, doc, killed>>

SaveVoid ==
  /\ pc["canceler"] = "save_void"
  /\ pay' = "void" /\ Finish("canceler")
  /\ UNCHANGED <<bank, order, inStock, doc, faults, killed>>

Canceler == CancelerLoad \/ Refund \/ SaveVoid

-----------------------------------------------------------------------------

\* A job is killed: it is run again, or lost with its unique lock taken.
Crash(j) ==
  /\ pc[j] \notin {"idle", "queued", "dead"} /\ Fault
  /\ \E label \in {"queued", "dead"} : Step(j, label, "none")
  /\ killed' = TRUE
  /\ UNCHANGED <<bank, pay, order, inStock, doc>>

\* The unique lock's TTL runs out.
LockExpires(j) ==
  /\ pc[j] = "dead" /\ Finish(j)
  /\ UNCHANGED <<bank, pay, order, inStock, doc, faults, killed>>

ServerNext ==
  \/ CustomerPays \/ StockChanges \/ Pushback \/ Processor \/ Canceler
  \/ \E j \in Jobs : Crash(j) \/ LockExpires(j)

-----------------------------------------------------------------------------
(* Properties of the server alone.                                         *)

\* A void payment's money went back: PaymentCancelerJob voids only on the
\* bank's word, whatever was killed, retried or lost before.
VoidMeansRefunded == pay = "void" => bank = "refunded"

\* A placed order was paid for: an answer taken for success too early, or an
\* order completed on a payment that only started, would give it away.
PlacedMeansPaid == Placed => bank \in {"paid", "refunded"}

\* Only a killed job leaves a payment in `processing`, where a later run of
\* the processor does nothing: a run that fails never does.
ProcessingHasRun ==
  pay = "processing" /\ ~ killed => pc["processor"] = "purchase"

=============================================================================
