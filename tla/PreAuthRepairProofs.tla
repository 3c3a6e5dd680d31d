------------------------- MODULE PreAuthRepairProofs -------------------------
(***************************************************************************)
(* What holds of PreAuthCheckout when administrators only repair (capture, *)
(* reconcile, or collect in the bank's portal) and an order that failed    *)
(* for stock stays failed: the shop's ledger then agrees with the bank,    *)
(* and the checkout implements PreAuthContract.                            *)
(*                                                                         *)
(* Both assumptions are needed: PreAuthCheckout_void_race.cfg shows        *)
(* EventMeansMoney violated when stock returns.  The heart of the          *)
(* argument is `Doomed`: the voider is only ever started for an order that *)
(* can no longer be completed, so the voider and the capturer never work   *)
(* on the same hold.                                                       *)
(***************************************************************************)
EXTENDS PreAuthCheckoutProofs

\* The operations considered here.
RepairOnly ==
  /\ AdminOperations \subseteq {"capture", "sync_capture", "portal_capture"}
  /\ StockReturns = FALSE

-----------------------------------------------------------------------------
(* The inductive invariant, relative to SafetyInv.                         *)

\* The order can no longer be completed.
Doomed == ~ inStock /\ ~ Placed

\* Only the hold of a doomed order is released, or about to be.
ReleasesDoomed ==
  /\ aba = "CANCELLED" => Doomed
  /\ pc["voider"] # "idle" => Doomed
  /\ /\ pc["processor"] \in {"tell_order_failed", "enqueue_void"}
     /\ mem["processor"] = "pending"
     => Doomed
  /\ pc["processor"] = "tell_failed" => mem["processor"] # "pending"

\* Administrators neither void nor reprocess.
OnlyVoiderVoids ==
  pc["admin"] \notin {"start", "authorize", "void", "save_void", "commit_void"}

\* The payment of a placed order stays authorized, as does one whose order
\* the processor is about to complete.
OrderKeepsHold ==
  /\ Placed => pay \in {"pending", "completed"}
  /\ /\ pc["processor"] \in {"tell_order", "complete_order"}
     /\ mem["processor"] = "pending" /\ ~ Doomed
     => pay \in {"pending", "completed"}

\* The processor authorizes, and reports failures, of open orders only.
AuthorizesOpenOrder ==
  pc["processor"] \in {"announce", "start", "authorize", "tell_retrying",
                       "tell_failed", "tell_order_failed"} => ~ Placed

\* A worker capturing a hold loaded an authorized payment.
CapturesPending ==
  \A w \in Workers : pc[w] \in CaptureLabel => mem[w] = "pending"

\* A worker about to record a capture is right about the money.
RecordsCaptured ==
  \A w \in Workers : pc[w] \in {"record", "complete"} => aba = "APPROVED"

\* What the page shows, or is about to be told, about a complete order.
PageTruthful ==
  /\ pc["processor"] \in {"tell_order", "tell_completed"} /\ Placed
     => pay = "completed"
  /\ pc["capturer"] = "report" => pay = "completed"
  /\ ShowsSuccess(doc) => pay = "completed"
  /\ page = "success" => pay = "completed"

RepairInv ==
  /\ EventMeansMoney /\ RecordsCaptured
  /\ ReleasesDoomed /\ OnlyVoiderVoids
  /\ OrderKeepsHold /\ AuthorizesOpenOrder /\ CapturesPending
  /\ PageTruthful

\* Every action keeps RepairInv.
LEMMA RepairStep ==
  ASSUME RepairOnly, SafetyInv, SafetyInv', RepairInv, Next
  PROVE  RepairInv'
<1> USE ConstantsAssumption
       DEF RepairOnly, RepairInv, EventMeansMoney, RecordsCaptured, Doomed,
           ReleasesDoomed, OnlyVoiderVoids, OrderKeepsHold,
           AuthorizesOpenOrder, CapturesPending, PageTruthful, ShowsSuccess,
           CapturePendingCodes, SafetyInv, StoredResponseTruthful, AnswerKept,
           NoFreeOrder, HeldWhenAuthorized, ChargedOnlyIfOrdered,
           CapturesPlaced, CaptureLabel, CompletedHasEvent, CompletesRecorded,
           Placed, TypeOK, PaymentState, AbaStatus, MessageCode, Label,
           EventCap, Workers, Jobs, ledger, shop, screen, jobs, Step, Goto,
           Reload, Finish, Proceed, Raise, RetriesLeft, Exhausted
<1>1. CASE Environment
  <2>1. CASE CustomerPays
    BY <2>1 DEF CustomerPays
  <2>2. CASE SwitchMethod
    BY <2>2 DEF SwitchMethod, FromInvalidate
  <2>3. CASE StockChanges
    BY <2>3 DEF StockChanges
  <2>4. CASE ProcessPayment
    BY <2>4 DEF ProcessPayment
  <2>5. CASE PageSnapshot
    BY <2>5 DEF PageSnapshot
  <2>6. CASE PageLoad
    BY <2>6 DEF PageLoad, AwaitingPreAuthCapture
  <2>7. QED
    BY <2>1, <2>2, <2>3, <2>4, <2>5, <2>6, <1>1 DEF Environment
<1>2. CASE Processor
  <2>1. CASE ProcessorLoad
    BY <2>1 DEF ProcessorLoad, CanProcess, InvalidStates
  <2>2. CASE Announce
    BY <2>2 DEF Announce, Tell, Notify
  <2>3. CASE ResetFailed("processor")
    BY <2>3 DEF ResetFailed
  <2>4. CASE StartedProcessing("processor")
    BY <2>4 DEF StartedProcessing
  <2>5. CASE CannotStart
    BY <2>5 DEF CannotStart
  <2>6. CASE Authorize("processor")
    BY <2>6 DEF Authorize, AuthorizedStatus
  <2>7. CASE TellRetrying
    BY <2>7 DEF TellRetrying, Notify
  <2>8. CASE TellFailed
    BY <2>8 DEF TellFailed, Tell, Notify
  <2>9. CASE CheckOrder
    BY <2>9 DEF CheckOrder, AwaitingPreAuthCapture
  <2>10. CASE TellOrder
    BY <2>10 DEF TellOrder, Tell, Notify
  <2>11. CASE CompleteOrder
    BY <2>11 DEF CompleteOrder, Covered, AuthorizedStatus
  <2>12. CASE CheckCapture
    BY <2>12 DEF CheckCapture, AwaitingPreAuthCapture
  <2>13. CASE TellCapturing
    BY <2>13 DEF TellCapturing, Tell, Notify
  <2>14. CASE TellCompleted
    BY <2>14 DEF TellCompleted, Tell, Notify
  <2>15. CASE EnqueueCapture
    BY <2>15 DEF EnqueueCapture, FinishAndEnqueue
  <2>16. CASE TellOrderFailed
    BY <2>16 DEF TellOrderFailed, Tell, Notify
  <2>17. CASE EnqueueVoid
    BY <2>17 DEF EnqueueVoid, FinishAndEnqueue, CanVoid
  <2>18. QED
    BY <2>1, <2>2, <2>3, <2>4, <2>5, <2>6, <2>7, <2>8, <2>9, <2>10, <2>11,
       <2>12, <2>13, <2>14, <2>15, <2>16, <2>17, <1>2 DEF Processor
<1>3. CASE Capturer
  <2>1. CASE CapturerLoad
    BY <2>1 DEF CapturerLoad, CanCapture
  <2>2. CASE Capture("capturer")
    BY <2>2 DEF Capture, CaptureConfirmed, CaptureFails,
                AfterCapture, AfterFailedCapture, SaveStep
  <2>3. CASE SaveCapture("capturer")
    BY <2>3 DEF SaveCapture, CaptureConfirmed, CaptureFails,
                AfterCapture, AfterFailedCapture
  <2>4. CASE Record("capturer")
    BY <2>4 DEF Record
  <2>5. CASE Complete("capturer")
    BY <2>5 DEF Complete, FromComplete
  <2>6. CASE Report
    BY <2>6 DEF Report, Notify
  <2>7. CASE TellCaptureRetrying
    BY <2>7 DEF TellCaptureRetrying, Notify
  <2>8. CASE GiveUp
    BY <2>8 DEF GiveUp
  <2>9. CASE TellUnconfirmed
    BY <2>9 DEF TellUnconfirmed, Notify
  <2>10. CASE Unlock
    BY <2>10 DEF Unlock
  <2>11. QED
    BY <2>1, <2>2, <2>3, <2>4, <2>5, <2>6, <2>7, <2>8, <2>9, <2>10, <1>3 DEF
       Capturer
<1>4. CASE Voider
  <2>1. CASE VoiderLoad
    BY <2>1 DEF VoiderLoad
  <2>2. CASE Void("voider")
    BY <2>2 DEF Void
  <2>3. CASE SaveVoid("voider")
    BY <2>3 DEF SaveVoid
  <2>4. CASE CommitVoid("voider")
    BY <2>4 DEF CommitVoid
  <2>5. QED
    BY <2>1, <2>2, <2>3, <2>4, <1>4 DEF Voider
<1>5. CASE Admin
  <2>1. CASE AdminCapture
    BY <2>1 DEF AdminCapture, AdminFire, CanCapture
  <2>2. CASE AdminVoid
    BY <2>2 DEF AdminVoid, AdminFire
  <2>3. CASE AdminSync
    BY <2>3 DEF AdminSync, AdminFire, CanSyncCapture
  <2>4. CASE AdminProcess
    BY <2>4 DEF AdminProcess
  <2>5. CASE PortalCapture
    BY <2>5 DEF PortalCapture
  <2>6. CASE SyncCapture("admin")
    BY <2>6 DEF SyncCapture, CapturedInFull
  <2>7. CASE StartedProcessing("admin")
    BY <2>7 DEF StartedProcessing
  <2>8. CASE Authorize("admin")
    BY <2>8 DEF Authorize, AuthorizedStatus
  <2>9. CASE Capture("admin")
    BY <2>9 DEF Capture, CaptureConfirmed, CaptureFails,
                AfterCapture, AfterFailedCapture, SaveStep
  <2>10. CASE SaveCapture("admin")
    BY <2>10 DEF SaveCapture, CaptureConfirmed, CaptureFails,
                AfterCapture, AfterFailedCapture
  <2>11. CASE Record("admin")
    BY <2>11 DEF Record
  <2>12. CASE Complete("admin")
    BY <2>12 DEF Complete, FromComplete
  <2>13. CASE Void("admin")
    BY <2>13 DEF Void
  <2>14. CASE SaveVoid("admin")
    BY <2>14 DEF SaveVoid
  <2>15. CASE CommitVoid("admin")
    BY <2>15 DEF CommitVoid
  <2>16. QED
    BY <2>1, <2>2, <2>3, <2>4, <2>5, <2>6, <2>7, <2>8, <2>9, <2>10, <2>11,
       <2>12, <2>13, <2>14, <2>15, <1>5 DEF Admin
<1>6. CASE \E w \in Workers : Crash(w)
  BY <1>6 DEF Crash
<1>7. CASE \E w \in Jobs : LockExpires(w)
  BY <1>7 DEF LockExpires
<1>8. QED
  BY <1>1, <1>2, <1>3, <1>4, <1>5, <1>6, <1>7 DEF Next

\* RepairInv is an invariant under repair operations.
THEOREM RepairInvariant ==
  ASSUME RepairOnly
  PROVE  Spec => []RepairInv
<1>1. Init => RepairInv
  BY DEF Init, RepairInv, EventMeansMoney, RecordsCaptured, Doomed,
         ReleasesDoomed, OnlyVoiderVoids, OrderKeepsHold,
         AuthorizesOpenOrder, CapturesPending, PageTruthful, ShowsSuccess,
         CapturePendingCodes, CaptureLabel, Placed, Workers, Jobs
<1>2. SafetyInv /\ SafetyInv' /\ RepairInv /\ [Next]_vars => RepairInv'
  <2>1. ASSUME SafetyInv, SafetyInv', RepairInv, Next PROVE RepairInv'
    BY <2>1, RepairStep
  <2>2. ASSUME RepairInv, UNCHANGED vars PROVE RepairInv'
    BY <2>2
       DEF RepairInv, EventMeansMoney, RecordsCaptured, Doomed,
           ReleasesDoomed, OnlyVoiderVoids, OrderKeepsHold,
           AuthorizesOpenOrder, CapturesPending, PageTruthful, ShowsSuccess,
           Placed, vars, ledger, shop, screen, jobs
  <2>3. QED
    BY <2>1, <2>2
<1>3. QED
  BY <1>1, <1>2, SafetyInvariant, PTL DEF Spec

\* "The capture event is also written only when money actually moved": the
\* voider cannot have released the hold under the capturer.
THEOREM EventsMeanMoney ==
  ASSUME RepairOnly
  PROVE  Spec => []EventMeansMoney
<1>1. RepairInv => EventMeansMoney
  BY DEF RepairInv
<1>2. QED
  BY <1>1, RepairInvariant, PTL

-----------------------------------------------------------------------------
(* Implementing PreAuthContract.                                           *)

\* Every action is a step of the contract, or leaves its variables alone.
LEMMA ContractStep ==
  ASSUME RepairOnly, SafetyInv, RepairInv, Next
  PROVE  [Contract!Next]_(Contract!vars)
<1> USE ConstantsAssumption
       DEF Contract!Next, Contract!vars, Contract!Answer, Contract!Place,
           Contract!Collect, Contract!Release, Contract!Book, Contract!Tell,
           RepairOnly, RepairInv, EventMeansMoney, RecordsCaptured, Doomed,
           ReleasesDoomed, OnlyVoiderVoids, OrderKeepsHold,
           AuthorizesOpenOrder, CapturesPending, PageTruthful, SafetyInv,
           StoredResponseTruthful, AnswerKept, NoFreeOrder,
           HeldWhenAuthorized, ChargedOnlyIfOrdered, CapturesPlaced,
           CaptureLabel, CompletedHasEvent, CompletesRecorded, Placed,
           TypeOK, PaymentState, AbaStatus, Label, Workers, Jobs,
           ledger, shop, screen, jobs, Step, Goto, Reload, Finish, Proceed,
           Raise
<1>1. CASE Environment
  <2>1. CASE CustomerPays
    BY <2>1 DEF CustomerPays
  <2>2. CASE SwitchMethod
    BY <2>2 DEF SwitchMethod, FromInvalidate
  <2>3. CASE StockChanges
    BY <2>3 DEF StockChanges
  <2>4. CASE ProcessPayment
    BY <2>4 DEF ProcessPayment
  <2>5. CASE PageSnapshot
    BY <2>5 DEF PageSnapshot
  <2>6. CASE PageLoad
    BY <2>6 DEF PageLoad, AwaitingPreAuthCapture
  <2>7. QED
    BY <2>1, <2>2, <2>3, <2>4, <2>5, <2>6, <1>1 DEF Environment
<1>2. CASE Processor
  <2>1. CASE ProcessorLoad
    BY <2>1 DEF ProcessorLoad, CanProcess, InvalidStates
  <2>2. CASE Announce
    BY <2>2 DEF Announce, Tell, Notify
  <2>3. CASE ResetFailed("processor")
    BY <2>3 DEF ResetFailed
  <2>4. CASE StartedProcessing("processor")
    BY <2>4 DEF StartedProcessing
  <2>5. CASE CannotStart
    BY <2>5 DEF CannotStart
  <2>6. CASE Authorize("processor")
    BY <2>6 DEF Authorize, AuthorizedStatus
  <2>7. CASE TellRetrying
    BY <2>7 DEF TellRetrying, Notify
  <2>8. CASE TellFailed
    BY <2>8 DEF TellFailed, Tell, Notify
  <2>9. CASE CheckOrder
    BY <2>9 DEF CheckOrder, AwaitingPreAuthCapture
  <2>10. CASE TellOrder
    BY <2>10 DEF TellOrder, Tell, Notify
  <2>11. CASE CompleteOrder
    BY <2>11 DEF CompleteOrder, Covered, AuthorizedStatus
  <2>12. CASE CheckCapture
    BY <2>12 DEF CheckCapture, AwaitingPreAuthCapture
  <2>13. CASE TellCapturing
    BY <2>13 DEF TellCapturing, Tell, Notify
  <2>14. CASE TellCompleted
    BY <2>14 DEF TellCompleted, Tell, Notify
  <2>15. CASE EnqueueCapture
    BY <2>15 DEF EnqueueCapture, FinishAndEnqueue
  <2>16. CASE TellOrderFailed
    BY <2>16 DEF TellOrderFailed, Tell, Notify
  <2>17. CASE EnqueueVoid
    BY <2>17 DEF EnqueueVoid, FinishAndEnqueue, CanVoid
  <2>18. QED
    BY <2>1, <2>2, <2>3, <2>4, <2>5, <2>6, <2>7, <2>8, <2>9, <2>10, <2>11,
       <2>12, <2>13, <2>14, <2>15, <2>16, <2>17, <1>2 DEF Processor
<1>3. CASE Capturer
  <2>1. CASE CapturerLoad
    BY <2>1 DEF CapturerLoad, CanCapture
  <2>2. CASE Capture("capturer")
    BY <2>2 DEF Capture, CaptureConfirmed, CaptureFails,
                AfterCapture, AfterFailedCapture, SaveStep
  <2>3. CASE SaveCapture("capturer")
    BY <2>3 DEF SaveCapture, CaptureConfirmed, CaptureFails,
                AfterCapture, AfterFailedCapture
  <2>4. CASE Record("capturer")
    BY <2>4 DEF Record
  <2>5. CASE Complete("capturer")
    BY <2>5 DEF Complete, FromComplete
  <2>6. CASE Report
    BY <2>6 DEF Report, Notify
  <2>7. CASE TellCaptureRetrying
    BY <2>7 DEF TellCaptureRetrying, Notify
  <2>8. CASE GiveUp
    BY <2>8 DEF GiveUp
  <2>9. CASE TellUnconfirmed
    BY <2>9 DEF TellUnconfirmed, Notify
  <2>10. CASE Unlock
    BY <2>10 DEF Unlock
  <2>11. QED
    BY <2>1, <2>2, <2>3, <2>4, <2>5, <2>6, <2>7, <2>8, <2>9, <2>10, <1>3 DEF
       Capturer
<1>4. CASE Voider
  <2>1. CASE VoiderLoad
    BY <2>1 DEF VoiderLoad
  <2>2. CASE Void("voider")
    BY <2>2 DEF Void
  <2>3. CASE SaveVoid("voider")
    BY <2>3 DEF SaveVoid
  <2>4. CASE CommitVoid("voider")
    BY <2>4 DEF CommitVoid
  <2>5. QED
    BY <2>1, <2>2, <2>3, <2>4, <1>4 DEF Voider
<1>5. CASE Admin
  <2>1. CASE AdminCapture
    BY <2>1 DEF AdminCapture, AdminFire, CanCapture
  <2>2. CASE AdminVoid
    BY <2>2 DEF AdminVoid, AdminFire
  <2>3. CASE AdminSync
    BY <2>3 DEF AdminSync, AdminFire, CanSyncCapture
  <2>4. CASE AdminProcess
    BY <2>4 DEF AdminProcess
  <2>5. CASE PortalCapture
    BY <2>5 DEF PortalCapture
  <2>6. CASE SyncCapture("admin")
    BY <2>6 DEF SyncCapture, CapturedInFull
  <2>7. CASE StartedProcessing("admin")
    BY <2>7 DEF StartedProcessing
  <2>8. CASE Authorize("admin")
    BY <2>8 DEF Authorize, AuthorizedStatus
  <2>9. CASE Capture("admin")
    BY <2>9 DEF Capture, CaptureConfirmed, CaptureFails,
                AfterCapture, AfterFailedCapture, SaveStep
  <2>10. CASE SaveCapture("admin")
    BY <2>10 DEF SaveCapture, CaptureConfirmed, CaptureFails,
                AfterCapture, AfterFailedCapture
  <2>11. CASE Record("admin")
    BY <2>11 DEF Record
  <2>12. CASE Complete("admin")
    BY <2>12 DEF Complete, FromComplete
  <2>13. CASE Void("admin")
    BY <2>13 DEF Void
  <2>14. CASE SaveVoid("admin")
    BY <2>14 DEF SaveVoid
  <2>15. CASE CommitVoid("admin")
    BY <2>15 DEF CommitVoid
  <2>16. QED
    BY <2>1, <2>2, <2>3, <2>4, <2>5, <2>6, <2>7, <2>8, <2>9, <2>10, <2>11,
       <2>12, <2>13, <2>14, <2>15, <1>5 DEF Admin
<1>6. CASE \E w \in Workers : Crash(w)
  BY <1>6 DEF Crash
<1>7. CASE \E w \in Jobs : LockExpires(w)
  BY <1>7 DEF LockExpires
<1>8. QED
  BY <1>1, <1>2, <1>3, <1>4, <1>5, <1>6, <1>7 DEF Next

\* Stuttering leaves the variables of the contract alone.
LEMMA ContractStutters ==
  ASSUME UNCHANGED vars
  PROVE  UNCHANGED Contract!vars
BY DEF Contract!vars, vars, ledger, shop, screen, jobs, Placed

\* The checkout implements its contract: money is collected only for a placed
\* order, released only for one that is not, booked only once collected in
\* full, and the customer's page reports success only after that.
THEOREM CheckoutImplementsContract ==
  ASSUME RepairOnly
  PROVE  Spec => ImplementsContract
<1>1. Init => Contract!Init
  BY DEF Init, Contract!Init, Placed
<1>2. SafetyInv /\ RepairInv /\ [Next]_vars => [Contract!Next]_(Contract!vars)
  BY ContractStep, ContractStutters
<1>3. QED
  BY <1>1, <1>2, SafetyInvariant, RepairInvariant, PTL
     DEF Spec, ImplementsContract, Contract!Spec

\* A completed payment stays completed: "a slow failing call can't overwrite
\* a concurrent success".
THEOREM CompletedStaysCompleted ==
  ASSUME RepairOnly
  PROVE  Spec => CompletedIsFinal
<1>1. [Contract!Next]_(Contract!vars)
        => (pay = "completed" => pay' = "completed")
  BY DEF Contract!Next, Contract!vars, Contract!Answer, Contract!Place,
         Contract!Collect, Contract!Release, Contract!Book, Contract!Tell
<1>2. SafetyInv /\ RepairInv /\ [Next]_vars
        => [pay = "completed" => pay' = "completed"]_vars
  BY <1>1, ContractStep, ContractStutters
<1>3. QED
  BY <1>2, SafetyInvariant, RepairInvariant, PTL DEF Spec, CompletedIsFinal

=============================================================================
