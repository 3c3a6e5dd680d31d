--------------------------- MODULE PreAuthCheckout ---------------------------
(***************************************************************************)
(* One order paid with one pre-authorized ABA PayWay payment.              *)
(*                                                                         *)
(* The bank first only holds the money; the order is completed on the      *)
(* hold; then the hold is captured, or cancelled when the order could not  *)
(* be completed.  Three Sidekiq jobs drive this, each unique per payment:  *)
(*                                                                         *)
(*   processor   PaymentProcessorJob: authorize, complete the order        *)
(*   capturer    PaymentCapturerJob:  capture the hold                     *)
(*   voider      PaymentVoiderJob:    release the hold                     *)
(*                                                                         *)
(* and the same operations can be fired by an administrator.  They share   *)
(* the payment row, the order, the bank's transaction and one Firestore    *)
(* document that the customer's page listens to, and nothing serializes    *)
(* them, so an action below is the code between two accesses to any of     *)
(* those: a committed write, a call to the bank, or a Firestore write.     *)
(***************************************************************************)
EXTENDS PaymentStates, Naturals

CONSTANTS
  AdminOperations,   \* what administrators and ops do besides the jobs
  StockReturns,      \* an order that failed for stock may complete later
  Crashes,           \* a job process may be killed between two steps
  GatewayFaults,     \* calls to the bank may time out or be refused
  FirestoreFaults,   \* writes of the Firestore document may fail
  PayoutOutcomes,    \* whether the bank reports the payouts we expect
  MaxRetries         \* Sidekiq retries of a job

ASSUME ConstantsAssumption ==
  /\ AdminOperations \subseteq
       {"process", "capture", "void", "sync_capture", "portal_capture"}
  /\ {StockReturns, Crashes, GatewayFaults, FirestoreFaults} \subseteq BOOLEAN
  /\ PayoutOutcomes \subseteq BOOLEAN
  /\ MaxRetries \in Nat

VARIABLES
  aba,       \* the transaction at the bank
  pay,       \* the payment's state column
  stored,    \* transaction_status of the payment's pre_auth_response column
  events,    \* the payment's capture events
  order,     \* the order's state
  inStock,   \* whether the order's lines can be fulfilled
  payouts,   \* whether the bank's payouts match the payment's
  doc,       \* the order's Firestore document
  page,      \* what the customer's browser shows
  pc,        \* where each worker is
  mem,       \* the payment state each worker holds in memory
  tries      \* Sidekiq retries used by each job

ledger == <<pay, stored, events>>
shop   == <<order, inStock, payouts>>
screen == <<doc, page>>
jobs   == <<pc, mem, tries>>
vars   == <<aba, ledger, shop, screen, jobs>>

Jobs    == {"processor", "capturer", "voider"}
Workers == Jobs \cup {"admin"}

\* PARTIAL is an APPROVED transaction collected for less than was held.
AbaStatus == {"PENDING", "PRE-AUTH", "APPROVED", "PARTIAL",
              "DECLINED", "CANCELLED"}

MessageCode ==
  {"none", "payment_is_processing", "payment_is_retrying",
   "order_is_processing", "order_is_completed", "payment_is_capturing",
   "payment_capture_retrying", "payment_capture_unconfirmed",
   "order_process_failed", "payment_process_failed"}

\* No job: "idle".  Waiting in Sidekiq: "queued".  Lost or out of retries,
\* with the unique lock still taken: "dead".  Every other label is a step.
Label ==
  {"idle", "queued", "dead",
   "announce", "start", "authorize", "tell_retrying", "tell_failed",
   "check_order", "tell_order", "complete_order", "check_capture",
   "tell_capturing", "tell_completed", "enqueue_capture",
   "tell_order_failed", "enqueue_void",
   "capture", "save_capture", "sync", "record", "complete",
   "tell_capture_retrying", "report", "give_up", "tell_unconfirmed",
   "unlock", "void", "save_void", "commit_void"}

\* Capture events are counted up to this many, which stands for "or more".
EventCap == 2

TypeOK ==
  /\ aba \in AbaStatus
  /\ pay \in PaymentState
  /\ stored \in {"none", "COMPLETED", "CANCELLED"}
  /\ events \in 0..EventCap
  /\ order \in {"payment", "complete"}
  /\ inStock \in BOOLEAN
  /\ payouts \in BOOLEAN
  /\ doc \in [code : MessageCode, order : {"payment", "complete"}]
  /\ page \in {"processing", "success"}
  /\ pc \in [Workers -> Label]
  /\ mem \in [Workers -> PaymentState \cup {"none"}]
  /\ tries \in [Workers -> 0..MaxRetries]

Init ==
  /\ aba = "PENDING" /\ pay = "checkout" /\ stored = "none" /\ events = 0
  /\ order = "payment" /\ inStock = TRUE /\ payouts \in PayoutOutcomes
  /\ doc = [code |-> "none", order |-> "payment"]
  /\ page = "processing"
  /\ pc = [w \in Workers |-> "idle"]
  /\ mem = [w \in Workers |-> "none"]
  /\ tries = [w \in Workers |-> 0]

Placed == order = "complete"

-----------------------------------------------------------------------------
(* Moving a worker on.                                                     *)

Step(w, label, state) ==
  /\ pc' = [pc EXCEPT ![w] = label]
  /\ mem' = [mem EXCEPT ![w] = state]
  /\ UNCHANGED tries

Goto(w, label) == Step(w, label, mem[w])

\* payment.reload, or finding the payment at the start of a run.
Reload(w, label) == Step(w, label, pay)

\* The job is done and its unique lock is free; an admin request returns.
Finish(w) ==
  /\ pc' = [pc EXCEPT ![w] = "idle"]
  /\ mem' = [mem EXCEPT ![w] = "none"]
  /\ tries' = [tries EXCEPT ![w] = 0]

\* A job goes on to its next step where an admin request is over.
Proceed(w, label, state) ==
  IF w = "admin" THEN Finish(w) ELSE Step(w, label, state)

RetriesLeft_OffByOne(w) == tries[w] <= MaxRetries
RetriesLeft(w) == tries[w] < MaxRetries

\* Where Sidekiq leaves a job without retries: only the capturer has an
\* exhausted callback, the lock of the others waits for its TTL.
Exhausted_NoCallback(w) == "dead"
Exhausted(w) == IF w = "capturer" THEN "give_up" ELSE "dead"

\* The step raised: Sidekiq runs the job again from its start.
Raise(w) ==
  IF w = "admin" THEN Finish(w)
  ELSE /\ pc' = [pc EXCEPT ![w] = IF RetriesLeft(w) THEN "queued"
                                  ELSE Exhausted(w)]
       /\ mem' = [mem EXCEPT ![w] = "none"]
       /\ tries' = [tries EXCEPT ![w] = IF RetriesLeft(w) THEN @ + 1 ELSE @]

\* perform_later under a unique lock: refused while a job holds it.  The
\* worker that enqueues has finished its own run.
FinishAndEnqueue(w, job) ==
  /\ pc' = [pc EXCEPT ![w] = "idle",
                      ![job] = IF pc[job] = "idle" THEN "queued" ELSE @]
  /\ mem' = [mem EXCEPT ![w] = "none"]
  /\ tries' = [tries EXCEPT ![w] = 0]

\* Firebase#notify: the order is reloaded and written with the message.
Notify(code) ==
  /\ doc' = [code |-> code, order |-> order]
  /\ UNCHANGED page

\* A step that only notifies; an error of Firestore fails the run.
Tell(w, at, code, next) ==
  /\ pc[w] = at
  /\ \/ Notify(code) /\ Goto(w, next)
     \/ FirestoreFaults /\ Raise(w) /\ UNCHANGED screen
  /\ UNCHANGED <<aba, ledger, shop>>

-----------------------------------------------------------------------------
(* The customer, the bank and the shop floor.                              *)

\* The customer answers the QR: ABA holds the money, or declines.
CustomerPays ==
  /\ aba = "PENDING"
  /\ aba' \in {"PRE-AUTH", "DECLINED"}
  /\ UNCHANGED <<ledger, shop, screen, jobs>>

\* Choosing another payment method invalidates this payment while it is in
\* `checkout`; its QR may still be paid.
SwitchMethod ==
  /\ pay \in FromInvalidate
  /\ pay' = "invalid"
  /\ UNCHANGED <<aba, stored, events, shop, screen, jobs>>

\* Other orders buy the last items; sometimes stock comes back.
StockChanges ==
  /\ ~ Placed
  /\ inStock \/ StockReturns
  /\ inStock' = ~ inStock
  /\ UNCHANGED <<aba, ledger, order, payouts, screen, jobs>>

\* The bank's pushback, or the page's own request each time it loads.
ProcessPayment ==
  /\ pc["processor"] = "idle"
  /\ ~ (Placed /\ pay = "completed")
  /\ Step("processor", "queued", "none")
  /\ UNCHANGED <<aba, ledger, shop, screen>>

\* The codes with which a complete order is not yet a success.
CapturePendingCodes_Missing ==
  {"payment_capture_retrying", "payment_capture_unconfirmed"}
CapturePendingCodes ==
  {"payment_is_capturing", "payment_capture_retrying",
   "payment_capture_unconfirmed"}

ShowsSuccess(d) == d.order = "complete" /\ d.code \notin CapturePendingCodes

\* The page's Firestore listener sees the document.
PageSnapshot ==
  /\ page = "processing" /\ ShowsSuccess(doc)
  /\ page' = "success"
  /\ UNCHANGED <<aba, ledger, shop, doc, jobs>>

\* Loading the page redirects to success on its own.
PageLoad ==
  /\ page = "processing" /\ Placed /\ ~ AwaitingPreAuthCapture(pay)
  /\ page' = "success"
  /\ UNCHANGED <<aba, ledger, shop, doc, jobs>>

Environment ==
  \/ CustomerPays \/ SwitchMethod \/ StockChanges
  \/ ProcessPayment \/ PageSnapshot \/ PageLoad

-----------------------------------------------------------------------------
(* PaymentProcessor: authorize the payment, then complete the order.       *)

ProcessorLoad ==
  /\ pc["processor"] = "queued"
  /\ \/ CanProcess(pay) /\ Reload("processor", "announce")
     \/ pay \in {"completed", "pending"} /\ Reload("processor", "check_order")
     \/ pay = "void" /\ Finish("processor")
  /\ UNCHANGED <<aba, ledger, shop, screen>>

Announce ==
  Tell("processor", "announce", "payment_is_processing", "start")

\* process! resets a failed payment before the event.
ResetFailed(w) ==
  /\ pc[w] = "start" /\ mem[w] = "failed"
  /\ pay' = "checkout"
  /\ Step(w, "start", "checkout")
  /\ UNCHANGED <<aba, stored, events, shop, screen>>

StartedProcessing(w) ==
  /\ pc[w] = "start" /\ mem[w] = "checkout"
  /\ pay' = "processing"
  /\ Step(w, "authorize", "processing")
  /\ UNCHANGED <<aba, stored, events, shop, screen>>

\* authorize! does nothing for a payment already in processing, and the
\* event of an invalid payment raises InvalidTransition.
CannotStart ==
  /\ pc["processor"] = "start"
  /\ \/ mem["processor"] = "processing" /\ Finish("processor")
     \/ mem["processor"] = "invalid" /\ Goto("processor", "tell_failed")
  /\ UNCHANGED <<aba, ledger, shop, screen>>

AuthorizedStatus_Pending == {"PRE-AUTH", "APPROVED", "PARTIAL", "PENDING"}
AuthorizedStatus == {"PRE-AUTH", "APPROVED", "PARTIAL"}

\* PaywayV2#authorize reads the bank's status; the answer is committed.
Authorize(w) ==
  /\ pc[w] = "authorize"
  /\ \/ /\ aba \in AuthorizedStatus
        /\ pay' = "pending"
        /\ Proceed(w, "check_order", "pending")
     \/ /\ aba \notin AuthorizedStatus
        /\ pay' = "failed"
        /\ Proceed(w, "tell_failed", "failed")
     \/ /\ GatewayFaults
        /\ pay' = "failed"
        /\ Proceed(w, "tell_retrying", "failed")
  /\ UNCHANGED <<aba, stored, events, shop, screen>>

\* The connection error is raised again whether or not the page is told.
TellRetrying ==
  /\ pc["processor"] = "tell_retrying"
  /\ \/ Notify("payment_is_retrying")
     \/ FirestoreFaults /\ UNCHANGED screen
  /\ Raise("processor")
  /\ UNCHANGED <<aba, ledger, shop>>

TellFailed ==
  Tell("processor", "tell_failed", "payment_process_failed", "enqueue_void")

\* process_order!: a re-run on a complete, held order stays silent.
CheckOrder ==
  /\ pc["processor"] = "check_order"
  /\ Reload("processor",
            IF Placed /\ AwaitingPreAuthCapture(pay) THEN "complete_order"
                                                     ELSE "tell_order")
  /\ UNCHANGED <<aba, ledger, shop, screen>>

TellOrder ==
  Tell("processor", "tell_order", "order_is_processing", "complete_order")

\* process_payments! wants the total covered by completed and pending
\* payments, after running process! on those still in checkout.
Covered ==
  \/ pay \in {"completed", "pending"}
  \/ pay = "checkout" /\ aba \in AuthorizedStatus

\* Spree::Checkout::Complete, one transaction; at once for a complete order.
CompleteOrder ==
  /\ pc["processor"] = "complete_order"
  /\ \/ /\ Placed \/ (inStock /\ Covered)
        /\ order' = "complete"
        /\ pay' = IF ~ Placed /\ pay = "checkout" THEN "pending" ELSE pay
        /\ Goto("processor", "check_capture")
     \/ /\ ~ Placed /\ ~ (inStock /\ Covered)
        /\ UNCHANGED <<order, pay>>
        /\ Goto("processor", "tell_order_failed")
  /\ UNCHANGED <<aba, stored, events, inStock, payouts, screen>>

\* notify_order_completed chooses the message before it writes it.
CheckCapture ==
  /\ pc["processor"] = "check_capture"
  /\ Reload("processor",
            IF Placed /\ AwaitingPreAuthCapture(pay) THEN "tell_capturing"
                                                     ELSE "tell_completed")
  /\ UNCHANGED <<aba, ledger, shop, screen>>

TellCapturing ==
  Tell("processor", "tell_capturing", "payment_is_capturing", "enqueue_capture")

TellCompleted ==
  Tell("processor", "tell_completed", "order_is_completed", "enqueue_capture")

EnqueueCapture ==
  /\ pc["processor"] = "enqueue_capture"
  /\ IF CanCapture(mem["processor"], Placed)
       THEN FinishAndEnqueue("processor", "capturer")
       ELSE Finish("processor")
  /\ UNCHANGED <<aba, ledger, shop, screen>>

TellOrderFailed ==
  Tell("processor", "tell_order_failed", "order_process_failed", "enqueue_void")

\* Which in-memory state makes the voider worth enqueuing.
EnqueueVoid ==
  /\ pc["processor"] = "enqueue_void"
  /\ IF CanVoid(mem["processor"])
       THEN FinishAndEnqueue("processor", "voider")
       ELSE Finish("processor")
  /\ UNCHANGED <<aba, ledger, shop, screen>>

Processor ==
  \/ ProcessorLoad \/ Announce \/ ResetFailed("processor")
  \/ StartedProcessing("processor") \/ CannotStart \/ Authorize("processor")
  \/ TellRetrying \/ TellFailed \/ CheckOrder \/ TellOrder \/ CompleteOrder
  \/ CheckCapture \/ TellCapturing \/ TellCompleted \/ EnqueueCapture
  \/ TellOrderFailed \/ EnqueueVoid

-----------------------------------------------------------------------------
(* PaymentCapturerJob, and pre_auth_capture! for it and for the admin.     *)

CapturerLoad ==
  /\ pc["capturer"] = "queued"
  /\ \/ CanCapture(pay, Placed) /\ Reload("capturer", "capture")
     \/ pay = "completed" /\ Reload("capturer", "report")
     \/ /\ ~ CanCapture(pay, Placed) /\ pay # "completed"
        /\ Finish("capturer")
  /\ UNCHANGED <<aba, ledger, shop, screen>>

\* What a failed attempt leaves in the state column: nothing is written.
AfterFailedCapture_Spree == "failed"
AfterFailedCapture == pay

\* The attempt raises GatewayError; the job has a callback for it.
CaptureFails(w) ==
  /\ pay' = AfterFailedCapture
  /\ Proceed(w, "tell_capture_retrying", mem[w])

\* The money has moved: confirm_payouts, then the capture event.
AfterCapture_NoEvent == "complete"
AfterCapture == "record"

CaptureConfirmed(w) ==
  IF payouts THEN pay' = pay /\ Goto(w, AfterCapture) ELSE CaptureFails(w)

\* save_response if success?
SaveStep_Always(accepted) == "save_capture"
SaveStep(accepted) == IF accepted THEN "save_capture" ELSE "refused"

\* PaywayV2#capture: a stored response of either kind is taken for success
\* without a call.  Otherwise the bank captures what it holds and refuses
\* the rest; a fault hides its answer, whether the call landed or not.
Capture(w) ==
  /\ pc[w] = "capture"
  /\ \/ stored # "none" /\ CaptureConfirmed(w) /\ UNCHANGED aba
     \/ /\ stored = "none"
        /\ aba' = IF aba = "PRE-AUTH" THEN "APPROVED" ELSE aba
        /\ IF SaveStep(aba = "PRE-AUTH") = "save_capture"
             THEN pay' = pay /\ Goto(w, "save_capture")
             ELSE CaptureFails(w)
     \/ /\ stored = "none" /\ GatewayFaults
        /\ \/ aba' = aba
           \/ aba = "PRE-AUTH" /\ aba' = "APPROVED"
        /\ CaptureFails(w)
  /\ UNCHANGED <<stored, events, shop, screen>>

SaveCapture(w) ==
  /\ pc[w] = "save_capture"
  /\ stored' = "COMPLETED"
  /\ CaptureConfirmed(w)
  /\ UNCHANGED <<aba, events, shop, screen>>

\* capture_events.create!, a commit of its own.
Record(w) ==
  /\ pc[w] = "record"
  /\ events' = IF events < EventCap THEN events + 1 ELSE events
  /\ Goto(w, "complete")
  /\ UNCHANGED <<aba, pay, stored, shop, screen>>

\* complete!, from the state in memory; sync_capture! resets `failed` first.
Complete(w) ==
  /\ pc[w] = "complete"
  /\ \/ /\ mem[w] = "failed"
        /\ pay' = "checkout"
        /\ Step(w, "complete", "checkout")
     \/ /\ mem[w] \in FromComplete
        /\ pay' = "completed"
        /\ Proceed(w, "report", "completed")
  /\ UNCHANGED <<aba, stored, events, shop, screen>>

\* The page learns that the money was captured.
Report ==
  /\ pc["capturer"] = "report"
  /\ \/ Notify("order_is_completed") /\ Finish("capturer")
     \/ FirestoreFaults /\ Raise("capturer") /\ UNCHANGED screen
  /\ UNCHANGED <<aba, ledger, shop>>

\* notify_capture_retrying; its errors are swallowed and the job's raised.
TellCaptureRetrying ==
  /\ pc["capturer"] = "tell_capture_retrying"
  /\ \/ AwaitingPreAuthCapture(mem["capturer"])
          /\ Notify("payment_capture_retrying")
     \/ FirestoreFaults /\ UNCHANGED screen
  /\ Raise("capturer")
  /\ UNCHANGED <<aba, ledger, shop>>

\* give_up_capture, run by a fresh instance of the job.
GiveUp ==
  /\ pc["capturer"] = "give_up"
  /\ Goto("capturer", IF AwaitingPreAuthCapture(pay) THEN "tell_unconfirmed"
                                                     ELSE "unlock")
  /\ UNCHANGED <<aba, ledger, shop, screen>>

TellUnconfirmed ==
  /\ pc["capturer"] = "tell_unconfirmed"
  /\ \/ Notify("payment_capture_unconfirmed")
     \/ FirestoreFaults /\ UNCHANGED screen
  /\ Goto("capturer", "unlock")
  /\ UNCHANGED <<aba, ledger, shop>>

Unlock ==
  /\ pc["capturer"] = "unlock"
  /\ Finish("capturer")
  /\ UNCHANGED <<aba, ledger, shop, screen>>

Capturer ==
  \/ CapturerLoad \/ Capture("capturer") \/ SaveCapture("capturer")
  \/ Record("capturer") \/ Complete("capturer") \/ Report
  \/ TellCaptureRetrying \/ GiveUp \/ TellUnconfirmed \/ Unlock

-----------------------------------------------------------------------------
(* PaymentVoiderJob, and void_transaction! for it and for the admin.       *)

VoiderLoad ==
  /\ pc["voider"] = "queued"
  /\ IF CanVoid(pay) THEN Reload("voider", "void") ELSE Finish("voider")
  /\ UNCHANGED <<aba, ledger, shop, screen>>

\* PaywayV2#void: like the capture, except that protect_from_connection_error
\* leaves the payment failed when the call times out.
Void(w) ==
  /\ pc[w] = "void"
  /\ \/ /\ stored # "none"
        /\ Goto(w, "commit_void") /\ UNCHANGED <<aba, pay>>
     \/ /\ stored = "none" /\ aba = "PRE-AUTH"
        /\ aba' = "CANCELLED"
        /\ Goto(w, "save_void") /\ UNCHANGED pay
     \/ /\ stored = "none" /\ (aba # "PRE-AUTH" \/ GatewayFaults)
        /\ Raise(w) /\ UNCHANGED <<aba, pay>>
     \/ /\ stored = "none" /\ GatewayFaults
        /\ \/ aba' = aba
           \/ aba = "PRE-AUTH" /\ aba' = "CANCELLED"
        /\ pay' = "failed"
        /\ Raise(w)
  /\ UNCHANGED <<stored, events, shop, screen>>

SaveVoid(w) ==
  /\ pc[w] = "save_void"
  /\ stored' = "CANCELLED"
  /\ Goto(w, "commit_void")
  /\ UNCHANGED <<aba, pay, events, shop, screen>>

\* The event runs on the pending payment the worker holds in memory.
CommitVoid(w) ==
  /\ pc[w] = "commit_void"
  /\ pay' = "void"
  /\ Finish(w)
  /\ UNCHANGED <<aba, stored, events, shop, screen>>

Voider ==
  VoiderLoad \/ Void("voider") \/ SaveVoid("voider") \/ CommitVoid("voider")

-----------------------------------------------------------------------------
(* Administrators and ops.                                                 *)

\* An action button is shown when the payment's actions include it.
AdminFire(operation, label) ==
  /\ operation \in AdminOperations
  /\ pc["admin"] = "idle"
  /\ Reload("admin", label)
  /\ UNCHANGED <<aba, ledger, shop, screen>>

AdminCapture == CanCapture(pay, Placed) /\ AdminFire("capture", "capture")
AdminVoid    == CanVoid(pay) /\ AdminFire("void", "void")
AdminSync    == CanSyncCapture(pay, Placed) /\ AdminFire("sync_capture", "sync")

\* Reprocessing resets the payment to checkout before process! runs.
AdminProcess ==
  /\ "process" \in AdminOperations
  /\ pc["admin"] = "idle" /\ CanProcess(pay)
  /\ pay' = IF pay \in FromResetForRetry THEN "checkout" ELSE pay
  /\ Step("admin", "start", pay')
  /\ UNCHANGED <<aba, stored, events, shop, screen>>

\* Ops collect the hold of a complete order in the bank's own portal.
PortalCapture ==
  /\ "portal_capture" \in AdminOperations
  /\ Placed /\ aba = "PRE-AUTH"
  /\ aba' \in {"APPROVED", "PARTIAL"}
  /\ UNCHANGED <<ledger, shop, screen, jobs>>

CapturedInFull_Held == aba \in AuthorizedStatus
CapturedInFull == aba = "APPROVED"

\* sync_capture! reads the bank's status and never captures.
SyncCapture(w) ==
  /\ pc[w] = "sync"
  /\ IF CapturedInFull /\ payouts THEN Goto(w, "record") ELSE Finish(w)
  /\ UNCHANGED <<aba, ledger, shop, screen>>

Admin ==
  \/ AdminCapture \/ AdminVoid \/ AdminSync \/ AdminProcess \/ PortalCapture
  \/ SyncCapture("admin") \/ StartedProcessing("admin") \/ Authorize("admin")
  \/ Capture("admin") \/ SaveCapture("admin") \/ Record("admin")
  \/ Complete("admin") \/ Void("admin") \/ SaveVoid("admin")
  \/ CommitVoid("admin")

-----------------------------------------------------------------------------
(* Processes and locks.                                                    *)

\* A worker is killed: its job goes back to the queue or is lost with its
\* lock taken; an admin request just ends.
Crash(w) ==
  /\ Crashes /\ pc[w] \notin {"idle", "queued", "dead"}
  /\ \/ w = "admin" /\ Finish(w)
     \/ w # "admin" /\ \E label \in {"queued", "dead"} : Step(w, label, "none")
  /\ UNCHANGED <<aba, ledger, shop, screen>>

\* The unique lock's TTL runs out.
LockExpires(w) ==
  /\ pc[w] = "dead"
  /\ Finish(w)
  /\ UNCHANGED <<aba, ledger, shop, screen>>

Next ==
  \/ Environment \/ Processor \/ Capturer \/ Voider \/ Admin
  \/ \E w \in Workers : Crash(w)
  \/ \E w \in Jobs : LockExpires(w)

Spec == Init /\ [][Next]_vars

\* Sidekiq keeps running its jobs and Redis expires its keys; customers,
\* administrators, the stock and the page owe nothing.
Fairness ==
  /\ WF_vars(Processor) /\ WF_vars(Capturer) /\ WF_vars(Voider)
  /\ \A w \in Jobs : WF_vars(LockExpires(w))

FairSpec == Spec /\ Fairness

-----------------------------------------------------------------------------
(* Properties that hold whatever is fired, killed or refused.              *)

\* pre_auth_response never contradicts the bank: the completer and the
\* canceler skip their call on it, so a wrong value would never be repaired.
StoredResponseTruthful ==
  /\ stored = "COMPLETED" => aba = "APPROVED"
  /\ stored = "CANCELLED" => aba = "CANCELLED"

\* No order is completed that the bank never held money for
\* (PaymentProcessor#call! completes the order of a pending payment).
NoFreeOrder == Placed => aba \notin {"PENDING", "DECLINED"}

\* No money is collected for an order that is not complete: can_capture? asks
\* for a complete order when a job starts, and an order stays complete.
ChargedOnlyIfOrdered == aba \in {"APPROVED", "PARTIAL"} => Placed

\* A completed payment has its capture event, though both are written by
\* separate commits that a crash may come between (pre_auth_capture!).
CompletedHasEvent == pay = "completed" => events > 0

-----------------------------------------------------------------------------
(* Properties under repair operations: administrators do not void or       *)
(* reprocess, and an order that failed for stock stays failed.             *)

\* "The capture event is also written only when money actually moved."
EventMeansMoney == events > 0 => aba = "APPROVED"

\* A completed payment stays completed: "a slow failing call can't
\* overwrite a concurrent success" (pre_auth_capture!).
CompletedIsFinal == [][pay = "completed" => pay' = "completed"]_vars

\* The checkout implements PreAuthContract: in particular the hold of a
\* placed order is never released, and the page that the processor and the
\* capturer steer shows success only after the payment was booked.
Contract == INSTANCE PreAuthContract WITH
  money  <- CASE aba = "PENDING"   -> "none"
              [] aba = "DECLINED"  -> "refused"
              [] aba = "PRE-AUTH"  -> "held"
              [] aba = "APPROVED"  -> "collected"
              [] aba = "PARTIAL"   -> "short"
              [] aba = "CANCELLED" -> "released",
  placed <- Placed,
  booked <- (pay = "completed"),
  told   <- (page = "success")

ImplementsContract == Contract!Spec

-----------------------------------------------------------------------------
(* Liveness, under FairSpec without crashes.                               *)

\* Once an order is placed, its payment is completed, or the customer is told
\* that the charge could not be confirmed (give_up_capture).
PlacedOrderSettles ==
  <>Placed => <>(pay = "completed" \/ doc.code = "payment_capture_unconfirmed")

\* The hold of an order that failed is released, unless the voider ran out
\* of retries or a timeout failed the payment under it.
FailedOrderReleased ==
  (pc["processor"] = "tell_order_failed" /\ pay = "pending")
     ~> (pay \in {"void", "failed"} \/ pc["voider"] = "dead")

-----------------------------------------------------------------------------
(* What the code's own comments and tests say, and the interleavings above *)
(* refute.  Each is checked by a run that expects its violation.           *)

\* PaymentProcessor: order_is_completed "must not be overwritten by a later
\* payment_is_capturing".
CompletedReportStays ==
  [][doc.code = "order_is_completed" => doc'.code # "payment_is_capturing"]_vars

\* VpagoPaymentSource: "order failed -> void (release held payment) -> end".
\* A retry of the voider does not end quietly while the bank holds money.
VoiderEndsReleased ==
  [][pc["voider"] = "queued" /\ pc'["voider"] = "idle" => aba # "PRE-AUTH"]_vars

\* PaymentCapturerJob: "a reload racing this can't have its 'verifying'
\* overwritten by 'not confirmed'".
VerifyingNotGivenUp ==
  [][doc.code = "payment_is_capturing"
       => doc'.code # "payment_capture_unconfirmed"]_vars

\* payment_decorator_spec: a capture writes "exactly one capture event".
OneCaptureEvent == events <= 1

=============================================================================
