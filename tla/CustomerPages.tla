--------------------------- MODULE CustomerPages ---------------------------
(***************************************************************************)
(* The customer's browser next to PurchaseCheckout: the checkout page,     *)
(* which polls the transaction until it may leave for the processing page; *)
(* the processing page, which asks the server to process the payment and   *)
(* listens to the order's Firestore document; and the success page.        *)
(*                                                                         *)
(* The listener is the one FirestoreClient describes in detail: it sees    *)
(* the newest version of the document, and may skip older ones.            *)
(***************************************************************************)
EXTENDS PurchaseCheckout, Sequences

CONSTANTS
  MaxPosts,        \* maxRetries of requestProcessPayment
  MaxFlights       \* polls under way at once that are told apart

ASSUME PagesAssumption ==
  /\ MaxPosts \in Nat \ {0} /\ MaxFlights \in Nat \ {0}

VARIABLES
  tab,        \* the page the customer is on
  going,      \* the page the tab is loading, "" for none
  polling,    \* the checkout page's timer, see checkTransactionPeriodically
  flights,    \* polls under way, with their answers
  reported,   \* what the polls have reported
  post,       \* requestProcessPayment
  listening,  \* whether the Firestore listener is attached
  seen,       \* the last snapshot it delivered
  queue,      \* QueueProcessor: callbacks waiting
  delay,      \* QueueProcessor: idle, or the minimum delay of the last callback
  text,       \* what the processing page says
  modal       \* whether the page that embeds us was told of the completion

poller   == <<polling, flights, reported>>
follower == <<listening, seen, queue, delay, text>>
pages    == <<tab, going, poller, post, follower, modal>>
vars     == <<serverVars, pages>>

NoDoc == [code |-> "none", order |-> "payment"]

PagesTypeOK ==
  /\ tab \in {"checkout", "processing", "success", "denied"}
  /\ going \in {"", "processing", "success"}
  /\ polling \in [on : BOOLEAN, late : BOOLEAN]
  /\ flights \in UNION {[1..n -> {"asked", "success", "failed", "pending"}] :
                          n \in 0..MaxFlights}
  /\ reported \subseteq {"success", "failed", "timeout"}
  /\ post \in [at : {"off", "sending", "waiting", "over"}, left : 0..MaxPosts]
  /\ listening \in BOOLEAN
  /\ seen \in [code : MessageCode, order : {"payment", "complete"}]
  /\ queue \in Seq(MessageCode \cup {"leave"})
  /\ delay \in {"idle", "fresh", "elapsed"}
  /\ text \in MessageCode
  /\ modal \in BOOLEAN

TypeOK == ServerTypeOK /\ PagesTypeOK

Init ==
  /\ ServerInit
  /\ tab = "checkout" /\ going = ""
  /\ polling = [on |-> TRUE, late |-> FALSE]
  /\ flights = <<>> /\ reported = {}
  /\ post = [at |-> "off", left |-> MaxPosts]
  /\ listening = FALSE /\ seen = NoDoc /\ queue = <<>> /\ delay = "idle"
  /\ text = "none" /\ modal = FALSE

Without(s, i) == SubSeq(s, 1, i - 1) \o SubSeq(s, i + 1, Len(s))

-----------------------------------------------------------------------------
(* The checkout page: checkTransactionPeriodically.                        *)

\* onSuccess and onFailure both leave for the processing page.
Report(status) ==
  /\ reported' = reported \cup {status}
  /\ going' = "processing"

\* maxDurationMs has passed since the page was loaded.
TimePasses ==
  /\ tab = "checkout" /\ ~ polling.late
  /\ polling' = [polling EXCEPT !.late = TRUE]
  /\ UNCHANGED <<serverVars, tab, going, flights, reported, post, follower,
                 modal>>

\* pollStatus, run by the interval whether or not a poll is under way.
MayPoll_OneAtATime == polling.on /\ flights = <<>>
MayPoll == polling.on

PollTick ==
  /\ tab = "checkout" /\ MayPoll
  /\ \/ /\ polling.late
        /\ polling' = [polling EXCEPT !.on = FALSE]
        /\ Report("timeout") /\ UNCHANGED flights
     \/ /\ ~ polling.late /\ Len(flights) < MaxFlights
        /\ flights' = Append(flights, "asked")
        /\ UNCHANGED <<polling, reported, going>>
  /\ UNCHANGED <<serverVars, tab, post, follower, modal>>

\* The checker's word on the transaction.
CheckerSays_NotFailed == IF bank = "declined" THEN "failed" ELSE "success"
CheckerSays ==
  CASE bank = "paid"     -> "success"
    [] bank = "declined" -> "failed"
    [] OTHER             -> "pending"

\* check_transaction: the payment's own outcome, else the bank's.
CheckTransaction ==
  CASE pay = "completed" -> "success"
    [] pay = "failed"    -> "failed"
    [] OTHER             -> CheckerSays

PollAnswered ==
  /\ tab = "checkout"
  /\ \E i \in DOMAIN flights :
       /\ flights[i] = "asked"
       \* A gateway timeout reads as pending.
       /\ \/ /\ flights' = [flights EXCEPT ![i] = CheckTransaction]
             /\ UNCHANGED faults
          \/ /\ pay \notin {"completed", "failed"} /\ Fault
             /\ flights' = [flights EXCEPT ![i] = "pending"]
  /\ UNCHANGED <<bank, pay, order, inStock, doc, jobs, killed, tab, going, polling,
                 reported, post, follower, modal>>

\* The answer reaches the page, which may have decided meanwhile.
Decides(status) == status \in {"success", "failed"}

PollReturns ==
  /\ tab = "checkout"
  /\ \E i \in DOMAIN flights :
       /\ flights[i] # "asked"
       /\ flights' = Without(flights, i)
       /\ IF Decides(flights[i])
            THEN /\ polling' = [polling EXCEPT !.on = FALSE]
                 /\ Report(flights[i])
            ELSE UNCHANGED <<polling, reported, going>>
  /\ UNCHANGED <<serverVars, tab, post, follower, modal>>

\* The request fails: the rejection is logged.
PollFails ==
  /\ tab = "checkout" /\ Fault
  /\ \E i \in DOMAIN flights : flights' = Without(flights, i)
  /\ UNCHANGED <<bank, pay, order, inStock, doc, jobs, killed, tab, going,
                 polling, reported, post, follower, modal>>

CheckoutPage ==
  TimePasses \/ PollTick \/ PollAnswered \/ PollReturns \/ PollFails

-----------------------------------------------------------------------------
(* Loading a page.                                                         *)

\* A page that goes takes its timers, requests and listener with it.
Unload ==
  /\ polling' = [on |-> FALSE, late |-> FALSE]
  /\ flights' = <<>> /\ reported' = {}
  /\ listening' = FALSE /\ seen' = NoDoc /\ queue' = <<>> /\ delay' = "idle"
  /\ text' = "none"
  /\ going' = ""

\* success: only for a complete order; its script tells the embedding page.
LoadSuccess ==
  /\ tab' = IF Placed THEN "success" ELSE "denied"
  /\ modal' = (modal \/ Placed)
  /\ post' = [at |-> "off", left |-> MaxPosts]

\* processing: straight to success for a complete order.
LoadProcessing ==
  \/ Placed /\ LoadSuccess
  \/ /\ ~ Placed
     /\ tab' = "processing"
     /\ post' = [at |-> "sending", left |-> MaxPosts]
     /\ UNCHANGED modal

Arrive ==
  /\ going # ""
  /\ Unload
  /\ IF going = "success" THEN LoadSuccess ELSE LoadProcessing
  /\ UNCHANGED serverVars

\* The customer comes back from the bank's app, or reloads.
Reload ==
  /\ tab = "processing" /\ going = ""
  /\ Unload /\ LoadProcessing
  /\ UNCHANGED serverVars

-----------------------------------------------------------------------------
(* The processing page: requestProcessPayment.                             *)

PostArrives ==
  /\ tab = "processing" /\ post.at = "sending"
  /\ ProcessPayment
  /\ post' = [post EXCEPT !.at = "over"]
  /\ UNCHANGED <<bank, pay, order, inStock, doc, killed, faults, tab, going, poller,
                 follower, modal>>

\* The request or its answer is lost, or the server could not enqueue.
AttemptsLeft(left) == left > 1

PostFails ==
  /\ tab = "processing" /\ post.at = "sending"
  /\ Fault
  /\ ProcessPayment \/ UNCHANGED jobs
  /\ post' = [at |-> IF AttemptsLeft(post.left) THEN "waiting" ELSE "over",
              left |-> post.left - 1]
  /\ UNCHANGED <<bank, pay, order, inStock, doc, killed, tab, going, poller,
                 follower, modal>>

PostAgain ==
  /\ tab = "processing" /\ post.at = "waiting"
  /\ post' = [post EXCEPT !.at = "sending"]
  /\ UNCHANGED <<serverVars, tab, going, poller, follower, modal>>

-----------------------------------------------------------------------------
(* The processing page: listenToProcessingState and QueueProcessor.        *)

\* setDoc was acknowledged: onSnapshot attaches the listener.
Attach ==
  /\ tab = "processing" /\ ~ listening
  /\ listening' = TRUE
  /\ UNCHANGED <<serverVars, tab, going, poller, post, seen, queue, delay,
                 text, modal>>

\* A callback shows its message, or leaves for the success page.
Call(item) ==
  /\ delay' = "fresh"
  /\ IF item = "leave" THEN going' = "success" /\ UNCHANGED text
                       ELSE text' = item /\ UNCHANGED going

\* queueStateChange starts the queue only when nothing is processing.
QueueFree_Always == TRUE
QueueFree == delay = "idle"

Push_DropWhenBusy(q, item) == IF QueueFree THEN Append(q, item) ELSE q
Push(q, item) == Append(q, item)

QueueStateChange(item) ==
  LET waiting == Push(queue, item)
  IN IF QueueFree
       THEN Call(Head(waiting)) /\ queue' = Tail(waiting)
       ELSE queue' = waiting /\ UNCHANGED <<delay, text, going>>

\* orderState complete leaves whatever the message; a snapshot without a
\* message (only `listening: true` was merged so far) queues nothing.
OrderCompleted_Final(d) ==
  d.code \in {"order_is_completed", "order_process_failed"}
OrderCompleted(d) == d.order = "complete"

Snapshot ==
  /\ tab = "processing" /\ listening /\ seen # doc
  /\ seen' = doc
  /\ modal' = (modal \/ doc.code = "order_is_completed")
  /\ IF OrderCompleted(doc) THEN QueueStateChange("leave")
                            ELSE QueueStateChange(doc.code)
  /\ UNCHANGED <<serverVars, tab, poller, post, listening>>

DelayPasses ==
  /\ tab = "processing" /\ delay = "fresh"
  /\ delay' = "elapsed"
  /\ UNCHANGED <<serverVars, tab, going, poller, post, listening, seen, queue,
                 text, modal>>

\* #processQueue after the delay: the next callback, or processing = false.
NextCallback ==
  /\ tab = "processing" /\ delay = "elapsed"
  /\ IF queue = <<>>
       THEN delay' = "idle" /\ UNCHANGED <<queue, text, going>>
       ELSE Call(Head(queue)) /\ queue' = Tail(queue)
  /\ UNCHANGED <<serverVars, tab, poller, post, listening, seen, modal>>

ProcessingPage ==
  \/ PostArrives \/ PostFails \/ PostAgain
  \/ Attach \/ Snapshot \/ DelayPasses \/ NextCallback

-----------------------------------------------------------------------------

Next ==
  \/ ServerNext /\ UNCHANGED pages
  \/ CheckoutPage \/ Arrive \/ Reload \/ ProcessingPage

Spec == Init /\ [][Next]_vars

\* Sidekiq runs its jobs and Redis expires their locks.  A browser runs its
\* timers, finishes a navigation, and its listener is told of changes.
\* Nobody has to pay, to push back or to reload.
Fairness ==
  /\ WF_vars(Processor /\ UNCHANGED pages)
  /\ WF_vars(Canceler /\ UNCHANGED pages)
  /\ \A j \in Jobs : WF_vars(LockExpires(j) /\ UNCHANGED pages)
  /\ WF_vars(TimePasses) /\ WF_vars(PollTick) /\ WF_vars(Arrive)
  /\ WF_vars(PostArrives) /\ WF_vars(PostAgain)
  /\ WF_vars(Attach) /\ WF_vars(Snapshot)
  /\ WF_vars(DelayPasses) /\ WF_vars(NextCallback)

FairSpec == Spec /\ Fairness

-----------------------------------------------------------------------------
(* Properties.                                                             *)

\* The page that says "success" is never refused: listener and polls send
\* the customer on, and `success` raises AccessDenied for an open order.
SuccessNeverDenied == tab # "denied"

\* A poll that reports success is right about the money, even one asked
\* before the payment failed, or answered after another poll decided.
SuccessReportTrue ==
  "success" \in reported => bank \in {"paid", "refunded"}

\* The embedding page closes its modal on order_is_completed, which the
\* listener forwards before the queue has shown it.
ModalClosesOnCompletion == modal => Placed

\* Each state is shown for its minimum delay (QueueProcessor).
MessagesHaveTheirTime ==
  [][text' # text /\ going' = "" /\ tab' = tab /\ text' # "none"
       => delay # "fresh"]_vars

\* When the queue has come to rest, the page says what the listener saw last.
QuietPageIsCurrent ==
  tab = "processing" /\ going = "" /\ delay = "idle" =>
    /\ queue = <<>>
    /\ text = seen.code /\ seen.order = "payment"

\* The checkout page leaves in the end, whatever becomes of its polls.
CheckoutPageLeaves == tab = "checkout" ~> tab # "checkout"

\* A customer on the processing page of a placed order gets to the success
\* page without doing anything, unless Firestore failed the last message.
PlacedPageLeaves ==
  (tab = "processing" /\ Placed)
     ~> (tab = "success" \/ pc["processor"] = "dead" \/ killed)

\* A customer who paid and keeps coming back to the processing page gets the
\* order, or the money back, unless a job was killed or ran out of retries.
PaidSettles ==
  WF_vars(Reload) =>
    (bank = "paid") ~> (\/ tab = "success" \/ bank = "refunded"
                        \/ killed
                        \/ \E j \in Jobs : pc[j] = "dead")

=============================================================================
