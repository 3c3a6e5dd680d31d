# TLA+ verification of spree_vpago

`spree_vpago` is a Spree extension that lets a Cambodian shop collect payments
through local banks: ABA PayWay (with and without pre-authorization), Acleda,
Wing, TrueMoney, Vattanac. This directory models the part of it that moves
money and orders, checks the models with TLC, and proves the main results with
TLAPS.

Paths below are relative to the repository (`src/`).

## 1. Inventory

| Component | State it keeps | Operations | What makes it correct |
|---|---|---|---|
| **Pre-authorized checkout** `app/services/vpago/payment_processor.rb`, `payment_processable.rb`, `app/jobs/vpago/payment_{processor,capturer,voider}_job.rb`, `app/models/vpago/payment_decorator.rb`, `app/models/spree/gateway/payway_v2.rb`, `lib/vpago/payway_v2/pre_auth_*.rb` | payment state, `pre_auth_response`, capture events, order state, Sidekiq queue and unique locks, the transaction at ABA | authorize, complete order, capture, void, `sync_capture!`, admin reprocess | no order without a hold, no charge without an order, the ledger agrees with the bank, every placed order settles |
| **Informer and processing page** `user_informers/firebase.rb`, `user_informers/firebase.js`, `vpago_payments_controller.rb`, `queue_processor.js` | one Firestore document per order; the page and its queue of state changes | `notify`, snapshot listener, page load, request to process | the page says success only after the money moved, and does not say "verifying" for ever |
| **Auto-captured gateways, refunds** `app/models/spree/gateway/*.rb`, `payment_canceler_job.rb`, `refund_issuer.rb` | payment state, the transaction at the bank | purchase, complete, cancel as refund | a paid order is completed or refunded, once |
| **Order processor** `order_processor.rb`, `order_processor_job.rb` | order state | complete an order with nothing to pay | reported success means a complete order |
| **Order payment rules** `order_decorator.rb`, `payments/find_or_create.rb` | the payments of an order | find or create, process all | the total is covered; one payment per choice |
| **Legacy status marker** `lib/vpago/payment_status_marker.rb`, `*/payment_request_updater.rb`, webhook and admin checker controllers | payment source, payment and order state, payouts | mark as paid, mark as failed | never contradicts the jobs above |
| **Payout generation** `payouts_generator.rb` | payouts of a payment, its amount | allocate the amount to vendors and store | payouts sum to the amount charged |
| **Payout profiles** `payout_profile.rb` | default flag, cache of the default | save, destroy, read default | one default; the cache agrees with it |
| **Configuration, redirects, mini apps, admin views, bundles** | none of their own while a payment is processed | build requests, sign, render | presentation and pure functions: not modelled |

How they interact. The customer pays at the bank. The bank's pushback and the
processing page both post to `process_payment`, which enqueues
`PaymentProcessorJob`. It authorizes the payment, completes the order, and
enqueues `PaymentCapturerJob` (order complete) or `PaymentVoiderJob` /
`PaymentCancelerJob` (order failed). Administrators fire the same operations
synchronously. All of them share the payment row, the order, the bank's
transaction and the order's Firestore document. No row lock is taken anywhere;
a job is unique per argument, but different jobs, and administrators, are not
excluded from each other.

Behaviours that are hard: those interleavings; Sidekiq retries of a step that
already happened; calls to ABA whose answer is lost; crashes between two
commits; locks that outlive their job; a document that several jobs overwrite.

The processing page reaches the document through the Firestore SDK, which the
repository ships compiled into one bundle with the page's own code
(`app/assets/javascripts/vpago/vpago_payments/user_informers/firebase.js`).
That code has its own concurrency: a task queue, two streams that break and
back off, timers, a cache that a broken connection must not leave behind.

## 2. Plan

Order of work, most important first.

| Step | Modules | State |
|---|---|---|
| The pre-authorized checkout, its safety and liveness, the contract it implements | `PaymentStates`, `PreAuthCheckout`, `PreAuthContract` | done |
| Its type correctness, safety invariants and refinement for all constants | `PreAuthCheckoutProofs`, `PreAuthRepairProofs` | done |
| Auto-captured gateways with the canceler's refund | `PurchaseCheckout` | done |
| The customer's pages: polling, request retries, the queue of state changes, composed with the jobs | `CustomerPages` | done |
| The Firestore client under the page's listener, and the contract the pages rely on | `FirestoreStream`, `FirestoreCache`, `FirestoreRemote`, `FirestoreClient`, `DocumentListener` | done |
| Several payments of one order, FindOrCreate under concurrency, the allocation and rounding of payouts | `OrderPayouts`, `OrderPayoutsProofs` | done |
| The safety of the auto-captured checkout and of the customer's pages for all constants | `PurchaseCheckoutProofs`, `CustomerPagesProofs` | done |
| The safety of the Firestore client and its refinement of the listener for all constants | `FirestoreStreamProofs`, `FirestoreWriteProofs`, `FirestoreListenProofs` | done |
| Legacy return callbacks and admin checkers as further writers of the same payment | | open |
| The default payout profile and its cache | | open |

## 3. Modules

### PaymentStates

The payment's states, the source states of the events that Spree defines
(external; only the source sets the actions consult) and the engine's own
predicates: `CanProcess`, `CanCapture`, `CanSyncCapture`, `CanVoid`
(`vpago_payment_source.rb`), `AwaitingPreAuthCapture` and the source states of
`reset_for_retry` (`payment_decorator.rb`).

### PreAuthCheckout

One order, one pre-authorized payment, three jobs and an administrator.

| Variable | Code |
|---|---|
| `aba` | ABA's transaction; `PARTIAL` is APPROVED for less than the hold |
| `pay` | `spree_payments.state` |
| `stored` | `transaction_status` of `pre_auth_response` |
| `events` | number of capture events, up to `EventCap = 2` ("or more") |
| `order` | the order's state, complete or not; stands for `completed_at` too |
| `inStock` | whether `Spree::Checkout::Complete` finds the lines in stock |
| `payouts` | whether the bank's payouts sum to the expected ones (`confirm_payouts`) |
| `doc` | `message_code` and `order_state` of the Firestore document |
| `page` | what the customer's browser shows |
| `pc` | each worker's next step; for a job also idle, queued, or dead with its lock taken |
| `mem` | the payment state of the instance each worker loaded |
| `tries` | Sidekiq retries used |

An action is the code between two accesses to shared state: a committed write,
a call to the bank, a write to Firestore. `Reload` copies `pay` into `mem`, and
decisions the code takes on its in-memory payment read `mem`: that is where the
stale reads come from.

| Actions | Code |
|---|---|
| `ProcessorLoad` … `EnqueueVoid` | `PaymentProcessorJob#perform`, `PaymentProcessor#call!` and its private methods, in their order; `Announce`, `Tell*` are informer calls |
| `ResetFailed`, `StartedProcessing`, `CannotStart`, `Authorize` | `Payment#process!` with Spree's `authorize!` and `PaywayV2#authorize` |
| `CapturerLoad` … `Unlock` | `PaymentCapturerJob`, its callbacks, `pre_auth_capture!`, `PaywayV2#capture`, `PreAuthCompleter` |
| `VoiderLoad` … `CommitVoid` | `PaymentVoiderJob`, Spree's `void_transaction!`, `PaywayV2#void`, `PreAuthCanceler` |
| `Admin*`, `SyncCapture`, and the shared steps with worker `"admin"` | the admin's fire action, `reset_stuck_payment_for_reprocess!`, `sync_capture!` |
| `PortalCapture` | ops capture the hold in ABA's own portal |
| `Crash`, `LockExpires` | a killed process (the job is run again, or lost with its lock held); the TTL of the lock |
| `CustomerPays`, `SwitchMethod`, `StockChanges`, `ProcessPayment`, `PageSnapshot`, `PageLoad` | the world around it |

Abstractions. `Spree::Checkout::Complete` runs in one database transaction and
is one action. `authorize` reads the bank and commits the answer in one action.
Amounts are reduced to "in full or short", reasons and log entries are left
out. An administrator has one request in flight; a button is available when
the payment's `actions` include it, and may then act on a stale page only
within one request. One payment per order: `SwitchMethod` covers only this
payment's invalidation.

### PreAuthContract

What the checkout promises, without jobs, rows or documents: money is held
before the order is placed, collected only for a placed order, released only
for one that is not, booked only once collected in full, success is shown last.
`PreAuthCheckout!Contract` maps `money` from `aba`, `placed` from the order,
`booked` from `pay = "completed"`, `told` from the page.

### PurchaseCheckout

One order and one payment of a gateway that collects at once and can refund
(TrueMoney). It has no specification of its own: `CustomerPages` composes it.

| Variable | Code |
|---|---|
| `bank` | the transaction at the bank: none, declined, paid, refunded |
| `pay`, `order`, `inStock`, `doc`, `pc`, `mem`, `tries` | as in `PreAuthCheckout` |
| `killed` | whether a job was killed |
| `faults` | what is left of `MaxFaults` |

| Actions | Code |
|---|---|
| `ProcessPayment`, `Pushback` | `process_payment`, `true_money_process_payment`: enqueue the processor |
| `ProcessorLoad` … `EnqueueCancel` | `PaymentProcessorJob`, `PaymentProcessor`, `Payment#process!` with `TrueMoney#purchase` |
| `CancelerLoad` … the refund's commit | `PaymentCancelerJob`, Spree's `cancel!`, `TrueMoney#cancel`, `RefundIssuer` |
| `Raise`, a killed job, `LockExpires` | Sidekiq's retries, a killed process, the TTL of a unique lock |

The processor and the canceler run concurrently; each holds the payment state
it loaded.

### CustomerPages

The browser next to `PurchaseCheckout`, page after page.

| Variable | Code |
|---|---|
| `tab`, `going` | the page shown, and the one being loaded |
| `polling`, `flights`, `reported` | `checkTransactionPeriodically`: the interval and its time limit, the requests under way with their answers, what was reported |
| `post` | `requestProcessPayment` with its retries |
| `listening`, `seen` | the `onSnapshot` listener and what it delivered last |
| `queue`, `delay`, `text` | `QueueProcessor`: waiting callbacks, the minimum delay, what is on the screen |
| `modal` | the message to the page that embeds this one |

`PollTick`, `PollAnswered`, `PollReturns`, `PollFails`, `TimePasses` are
`check_transaction_periodically.js` with the server's `check_transaction`;
`PostArrives`, `PostFails`, `PostAgain` are `request_process_payment.js`;
`Attach`, `Snapshot` the listener of `user_informers/firebase.js`; `DelayPasses`
and `NextCallback` are `queue_processor.js`; `Arrive`, `Reload` load the pages.
The answer of a poll is drawn when the server computes it and delivered later,
so polls overtake one another. What the listener may show is taken from
`DocumentListener`: newest versions, possibly with gaps.

### FirestoreStream, FirestoreCache, FirestoreRemote, FirestoreClient

The Firestore client for what the page does: `setDoc({listening: true})`,
wait, then `onSnapshot` on one document. The client is one record; the operators
take it and return it after the call, in the nesting of the bundle's functions
(whose names are minified; `map` in `PROJECT.json` has the lines).

| Module | Code |
|---|---|
| `FirestoreStream` | `AsyncQueue`, `DelayedOperation`, `PersistentStream` and its close counter, the WebChannel bridge |
| `FirestoreCache` | mutation queue, overlay, remote document cache, `View`, `QueryListener`, the sync engine's part of a write, a remote event, a refused target |
| `FirestoreRemote` | `OnlineStateTracker`, watch stream with `WatchChangeAggregator`, write stream with its pipeline, `restartNetwork` |
| `FirestoreClient` | the queue's tasks (`RunTask`), timers, channels, the server and its document, faults |

With memory persistence every store operation completes within its task, so a
task of the queue is one action (`RunTask`). Timers, channels and the page only
append tasks; a task of a stream carries the close count it was created with,
and does nothing when the stream was closed since, as `getCloseGuardedDispatcher` does.

Abstractions of these modules:

- Delays are not measured: a timer that is set may elapse at any time. The
  `setTimeout(0)` of the listener's `AsyncObserver`, and that of a new channel's
  open event, are merged into the step before them.
- A message lost in flight is one that was never sent; a write on a broken
  channel may still reach the server (`stray`). A clean CLOSE of a channel is a
  transient error.
- A snapshot version and a resume token are the number of a commit. A new
  target has no token. The page has one target and one write.
- The server never deletes the document. It may start the target over, refuse it,
  refuse the write, or answer late.
- Not modelled: unlisten, limbo resolution (shown not to start: `NoLimbo`),
  existence filters, target mismatch, change of credentials and token
  invalidation, IndexedDB, garbage collection, the health check timer, and the
  empty write that ends a write stream (the server answers nothing to it).

### DocumentListener

The abstract listener: the shown note is never older than the last shown one
and never newer than the document. `FirestoreClient` implements it
(`Contract`); `CustomerPages` uses it.

### OrderPayouts, MCOrderPayouts

The payments of one order with a gateway that splits what it is paid, and the
payouts `PayoutsGenerator` makes for each.

| Variable | Code |
|---|---|
| `state`, `amount` | the payment's columns; `creating` is a creation that has not committed |
| `replaced` | the payments in checkout that Spree invalidates in that transaction, locked until it commits |
| `asked` | `order_total_after_store_credit` at creation |
| `remaining`, `at`, `sum` | the generator's `remaining_amount`, its place in the two loops, the sum of the payouts in whole cents |
| `made`, `payout`, `seen`, `short` | the payouts: payee, `amount`, `total_confirmed_payouts`, whether `outstanding_amount` is positive |
| `confirmed`, `got` | payouts in state confirmed, and their sums by payee (`confirmed_payouts_for_vendor`) |
| `paid` | the payments whose code the customer paid |

`Create` is `FindOrCreate` when it finds nothing (when it finds a payment it
changes nothing), `VendorPayout` one item of `vendor_payouts` or
`vendor_shipment_payouts`, each of which queries the confirmed sum anew,
`Finish` the end of `call` and the commit, with one of its outcomes:
`SavePayouts`, or `NoPayouts` when all would be the store's or a merchant
differs. `Process` is `process!` up to the bank's answer, `ConfirmPayout` one
payout of `confirm_payouts`, `Reprocess` the administrator's. Line items and
vendor-handled shipments are one list of items, since the two loops differ only
in where they read the share. Shares and totals are constants, in a unit of which
a cent has `Cent`: a share is what is left of a price after a percentage. What a
column stores is whole cents. `spree_payouts` has `decimal(10, 2)` columns, so
`Payout.new` rounds the share it is given to the nearest cent (`InCents`) before
`round_up` (`RoundUp`) sees it and changes nothing; `remaining_amount` loses the
exact share. A share of less than half a cent makes a payout of nothing. The bank
reports the payouts it was told;
a payment that the bank reports without payouts (which completes without
confirming any) is left out.

## 4. Runs

| Run | Configuration | Properties | Shows |
|---|---|---|---|
| `preauth_safety` | all admin operations, stock returns, crashes, bank faults | `TypeOK`, `StoredResponseTruthful`, `NoFreeOrder`, `ChargedOnlyIfOrdered`, `CompletedHasEvent` | what holds whatever happens |
| `preauth_repair` | admin only captures and reconciles, portal captures, crashes, bank and Firestore faults, payout mismatches, one retry | `EventMeansMoney`, `CompletedIsFinal`, `ImplementsContract` | the ledger agrees with the bank and the checkout implements its contract |
| `preauth_liveness` | `FairSpec`, bank faults, two retries, payout mismatches | `PlacedOrderSettles`, `FailedOrderReleased` | no placed order is left without an outcome; the hold of a failed one is released |
| `preauth_late_capturing` | no faults at all | `CompletedReportStays` (violated) | finding 1 |
| `preauth_void_timeout` | bank faults | `VoiderEndsReleased` (violated) | finding 2 |
| `preauth_void_race` | stock returns, no other fault | `EventMeansMoney` (violated) | finding 3 |
| `preauth_double_event` | an administrator captures | `OneCaptureEvent` (violated) | finding 4 |
| `preauth_give_up_race` | bank faults, one retry | `VerifyingNotGivenUp` (violated) | finding 5 |

| `customer_pages` | any two faults (lost calls, killed jobs, lost requests, unasked pushbacks), two retries, two attempts to post, two polls under way | `TypeOK`, `VoidMeansRefunded`, `PlacedMeansPaid`, `ProcessingHasRun`, `SuccessNeverDenied`, `SuccessReportTrue`, `ModalClosesOnCompletion`, `QuietPageIsCurrent`, `MessagesHaveTheirTime`, `CheckoutPageLeaves`, `PlacedPageLeaves`, `PaidSettles` | what the pages say is true, no page waits for ever, and a customer who paid and comes back gets the order or the money |
| `firestore_client` | `FairSpec`, two notes, any one fault (a broken channel, a network change, a refusal, a restart of the target) | `TypeOK`, `NoInternalError`, `TokenCovered`, `ViewIsCache`, `NoLimbo`, `WorkHasItsStream`, `PipelineHoldsQueue`, `OnlineIsTrue`, `ResolvedIsStored`, `Contract`, `WriteSettles`, `LastNoteShown` | no task throws (one that did would silence the queue), no work waits for a stream nobody starts, cache, view and online state agree; the client implements `DocumentListener`, settles the write, and shows the last note |
| `payouts` | three payments, three items owed 1.5, 1.2 and 1.4 cents, totals of 2 and 5 cents | `TypeOK`, `RoundingBounded`, `StoreLast`, `VendorsCovered`, `OverpaidMeansStaleTotal`, `ReplacedWasRounded` | how far rounding moves the amount, who is served first, who is left short, who can be overpaid |
| `payouts_rounded_down` | one payment, two items owed 62.4 cents, a total of 2.50 | `CompletedCoversTotal` (violated) | finding 6 |

Deadlock checking is off: the system may stop when everything settled.

Bounds of the first runs. `MaxRetries` is 0 where crashes already re-run jobs from their start
(a crash puts a job back in its queue without using a retry, so every re-run
of a step is reached without retries), 1 to see a retry after a failed step
together with crashes, 2 to see a retry of a retry. Sidekiq's real limits (5,
25) add no new interleaving: a retry starts from the same state as the first
run. `EventCap = 2` tells one event from several. Firestore faults are left
out of `preauth_safety`: they only repeat steps that no property of that run
reads.

Fairness of the first runs. `WF` on the three jobs: Sidekiq runs what is queued and a running
job goes on. `WF` on `LockExpires`: Redis expires keys. Customers,
administrators, the stock and the page are not fair: none of them has to act.
The liveness run has no crashes, since a job lost with its lock is only
brought back by a customer or the bank, who owe nothing, and no Firestore
faults, since the only sign of an unconfirmed capture is its document.

Bounds of the later runs. `customer_pages`: two faults let a lost answer meet a
killed job or a second lost answer; two retries and two posts have a first, a
middle and a last attempt; with two polls under way one can overtake the
other. `firestore_client`: two notes, so that a note can be skipped or arrive
late, and one fault, since the liveness checks are costly. A second fault, which
can hit the recovery from the first, is left to the proofs, which cover the
safety properties and `Contract` for any number of faults; two notes with two
faults were also checked once without liveness: 11.2 million states, no error.
`payouts`: three payments are one to leave a vendor short, one to top it up and
one that races; the smaller total covers the first vendor and part of the second,
the larger all of them; the shares have parts of a cent of a half and below, what
is left for the last vendor or the store also above, so payouts are rounded both
ways, and amounts end up above and below what was asked.

Fairness of the later runs. `CustomerPages`: jobs and lock expiry as above; a
browser runs its timers, finishes a navigation, sends its requests, and its
listener is told of changes (which `firestore_client` checks of the client).
Paying, pushbacks and reloads are not fair; `PaidSettles` is about a customer
who keeps reloading, and says so in its formula. A killed job, or one out of
retries, is named as an exception where it is one: no code brings it back.
`FirestoreClient`: the browser runs its tasks and timers, and a connection that
does not break carries what is sent; faults are bounded and not fair.

`PlacedMeansPaid` admits a placed order whose payment was refunded: the
canceler and a processor that runs again are not excluded from each other, and
`customer_pages` reaches that state. No document of the repository rules it
out, so it is listed as a hazard, not as a finding. `SuccessReportTrue` admits
`refunded` because a poll may be answered after the refund. Two polls may both
report, and one may report after the timeout: each report loads the processing
page again, and no property forbids it. `ProcessingHasRun` exempts killed jobs:
one killed during the purchase leaves `processing`, which only an administrator's
reprocess takes back.

### Findings

1. **The page can go back to "verifying" after success.** A processor re-run
   (a pushback or reload while the capture is in flight) reads the payment as
   awaiting capture, the capturer completes it and reports, and the re-run then
   writes `payment_is_capturing` over it. The comment at
   `payment_processor.rb:68-69` says this must not happen.
2. **A void that times out is never retried.**
   `protect_from_connection_error` fails the payment, and `can_void?` wants
   `pending`, so the retry of the voider does nothing while ABA holds the money.
   `vpago_payment_source.rb:81` describes the flow as ending in the release.
3. **A released hold can be booked as a capture.** `can_void?` does not look at
   the order (`can_cancel?` does). If stock returns after the failure, a re-run
   completes the order while the voider is queued; the voider cancels the hold,
   and the capturer takes the stored `CANCELLED` response for success:
   capture event, completed payment, no money.
4. **A capture can be recorded twice** when an administrator captures while the
   capturer job runs: the stored `COMPLETED` response makes both succeed and
   each creates a capture event.
5. **"Verifying" is overwritten by "not confirmed"**, or stays for ever. The
   capturer's lock keeps out another capturer, not another processor: a reload
   between the last failed attempt and the exhausted callback writes
   `payment_is_capturing`, its enqueue is refused, and the callback's message
   follows; in the opposite order nothing follows. The comment at
   `payment_capturer_job.rb:40-42` rules the first out.
6. **Payouts are not rounded up, and a paid order may fall short.** The payouts'
   column rounds half-up on assignment, so `round_up` has nothing left to do:
   shares below half a cent are rounded down. Two shares of 0.624 of an order of
   2.50 make payouts of 0.62, 0.62 and 1.25, and the payment is made out for
   2.49. `insufficient_processed_payment?` (`order_decorator.rb:41-43`) then finds
   the order not covered by a payment the customer made in full. The comments at
   `payouts_generator.rb:40-41` and `137-147` and the generator's spec expect the
   amount to go up; the spec's shares, 0.625, are the ones where half-up does so.

## 5. Proofs

`PreAuthCheckoutProofs` proves, from `ConstantsAssumption` alone (any number of
retries, any faults, any set of administrator operations):

- `TypeCorrect`: `Spec => []TypeOK`;
- `SafetyInvariant`, and from it `StoredResponseIsTruthful`, `NoOrderIsFree`,
  `NoChargeWithoutOrder`, `CompletedPaymentHasEvent`.

The four properties are not inductive. `SafetyInv` adds what a worker in the
middle of its steps knows: a worker about to store an answer saw the bank give
it and the bank has not moved since (`AnswerKept`); `pending` and `completed`
are only reached through an answer that names a hold (`HeldWhenAuthorized`);
a worker past the check of `can_capture?` works for a placed order, which stays
placed (`CapturesPlaced`); a worker at `complete!` committed its event
(`CompletesRecorded`).

`PreAuthRepairProofs` assumes `RepairOnly`: administrators do not void or
reprocess, and an order that failed for stock stays failed. Finding 3 shows the
second is needed. It proves

- `RepairInvariant`, relative to `SafetyInv`: the voider only works on a
  `Doomed` order (out of stock and not placed), so voider and capturer never
  meet; the payment of a placed order stays authorized; whoever is about to
  record a capture is right about the money; what the page shows, or is about
  to be told, is true;
- `EventsMeanMoney`, `CheckoutImplementsContract` (every step is a step of
  `PreAuthContract` or a stutter) and, from the latter,
  `CompletedStaysCompleted`.

`OrderPayoutsProofs` proves, from `PayoutsAssumption` alone (any number of
payments and items, any shares to any part of a cent, any totals in whole cents),
every property of the `payouts` run:

- `TypeCorrect`; in particular `remaining_amount` never goes below zero;
- `StoreTakesLast`, from `NothingLeft`: a vendor is left short only by a payout
  that takes all that remains;
- `RoundingIsBounded`, from `Rounding`: what is built and what is left are what
  was asked for, up to half a cent a payout;
- `CompletedCoversVendors`, from `Coverage`: what each payout promised from the
  sum it saw, less than a cent below the share, and that confirmed sums only grow;
- `OverpaidOnlyBlindly`, from `WholeCents` and `Overpayment`. The property
  itself is not inductive. The strengthening is that, as long as no two
  confirmed payouts of an item that gave it anything (`Gave`) saw the same sum,
  any other such payout either saw the present sum or shares its sum with a
  confirmed one; a confirmation that keeps the sums apart is then of a payout
  that saw everything;
- `ReplacedOnlyRounded`, from `Replacement`: what a creation replaces is
  settled when it starts, and a visible payment's amount never changes.

All of them rest on `Drafts`: nobody but its generator touches a payment that
has not committed. What rounding does is stated once, for any `Cent`:
`InCentsFacts` (whole cents, within half a cent), `InCentsMonotone`, `InCentsAdds`,
and `RoundUpIdle`, that `round_up` returns what the column gave it.

`PurchaseCheckoutProofs` and `CustomerPagesProofs` prove, from
`PurchaseAssumption` and `PagesAssumption` alone (any number of retries, faults,
polls and posts), every safety property of the `customer_pages` run:

- `VoidCorrect`, `PlacedCorrect` and `ProcessingCorrect`, about the server. The
  pages reach it through `process_payment` only (`ServerCases`), so a step of
  the whole is a step of the server's own or such a request. The first two are
  not inductive: `Money` adds that a completed payment was taken by the bank,
  and that the canceler saves its void after the refund.
- `TypeCorrect`: the retries left of a post need that only one that may still
  fail is under way (`PostMayFail`).
- `ReportCorrect`, from `Answers`: a good answer of a poll under way is the
  bank's, in whatever order the polls return.
- `SuccessCorrect` and `ModalCorrect`, from `News`: whoever speaks of a
  completed order, from the job about to write the message over the document,
  the snapshot and the page's queue to the navigation under way, does so after
  the order was placed.
- `QuietCorrect`, from `InOrder`: the last callback of the page's queue is what
  the last snapshot asked for; an idle queue is empty.
- `DelayCorrect`, an action property: no step of any page replaces a message
  whose minimum delay runs (`TextStep`).

`FirestoreStreamProofs`, `FirestoreWriteProofs` and `FirestoreListenProofs`
prove, from `ClientAssumption` alone (any number of notes and faults), every
safety property of the `firestore_client` run and the refinement of
`DocumentListener`. The client is one record and a task is a nest of operators
on it, so the first module says of each operator what it changes and what it
leaves alone (`ListenStep`, `WriteStep`, `OnlineStep`, `StreamStep`, `WatchStep`:
frames that compose), and of the queue that a task at most cancels timers in it
(`Quieter`). The proofs of a handler then follow its calls.

- `ConnectionInvariant`. `StreamInv` says, of each stream, which callbacks of
  the present channel may wait in which state: none when it does not run, only
  the channel's opening while it starts, anything else once open; the backoff's
  timer in the backoff only. `Exchange` has one request of the write stream
  out, or its answer, or its refusal, and never two of them; `PipelineInv` ties
  the pipeline to the mutation queue; `ListenOnce`, `WriteOnce` say that the
  page writes, then listens, each once. `ConnInv` adds that the server has
  what the client takes for stored. It implies `OnlineIsTrue`,
  `WorkHasItsStream`, `PipelineHoldsQueue` and `ResolvedIsStored`.
- `ListenInvariant`, on top of it. `Asked`: one request for the target at a
  time; the acknowledgement is the first message after it, a refusal the last.
  `Chain`: page, cache, aggregator, queued messages and the server hold states
  of the document in this order. `Looking`, `Cached`: the target has its view,
  and the view shows the cache. `Resume` carries the argument about tokens: the
  target's token, every token under way and the place from which the server goes
  on are covered (`Cov`, `Covers`), which means that everything up to them is in
  the cache or gathered (`Have`), or in a message that comes before and is not
  undone by a later reset. `TokenCovered` alone is not inductive: what makes the
  next token safe is in the queue.
- From it `NoInternalErrorAlways` (the assertions of the bundle never fire),
  `TokenCoveredAlways`, `ViewIsCacheAlways`, `NoLimboAlways`, `TypeCorrect` and
  `ClientImplementsListener`: every step of the client and the server is a
  `Write` or a `Show` of `DocumentListener` or a stutter. `CustomerPages` takes
  its listener from there.

The inductive invariants were checked with TLC on the run configurations before
they were proved. Every safety property of the passing runs, and both
refinements (`Contract`, `ImplementsContract`), are proved. Only model-checked
are the liveness properties, since fairness and `ENABLED` are outside the
prover's reach: `PlacedOrderSettles`, `FailedOrderReleased`,
`CheckoutPageLeaves`, `PlacedPageLeaves`, `PaidSettles`, `WriteSettles` and
`LastNoteShown`; and, of course, the properties that the code violates.

## 6. Not modelled

- The legacy status marker and its return callbacks and admin checkers, the
  order processor, payout profiles: listed in `PROJECT.json` with the hazards
  known of them.
- Of the auto-captured gateways, only the one that can refund is modelled; the
  others' requests differ, not their control.
- Shares of vendors (commission, taxes, adjustments), store credits, payment
  method configuration, redirects and URLs, cryptography, mini-app session
  exchange, admin views: pure functions, input and output, or presentation.
- Amounts summed as binary fractions by `payout_total_from_response`: the model
  has whole numbers of a small unit, and lets the comparison fail.
- The rest of the bundles. Of the repository's 18,000 lines of JavaScript,
  17,600 are two compiled bundles of third-party code (the Firestore SDK with
  its WebChannel, component and app registries, query and index machinery,
  IndexedDB persistence; the bridge of the Wing mini app), and most of the
  SDK's are never run by a page that writes one field and follows one document.
  What such a page runs above the transport is modelled; the rest cannot be
  held against anything this repository says or relies on.
