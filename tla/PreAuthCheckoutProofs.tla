------------------------ MODULE PreAuthCheckoutProofs ------------------------
(***************************************************************************)
(* What holds of PreAuthCheckout whatever administrators fire, jobs crash, *)
(* the bank refuses or the stock does: proofs for every value of the       *)
(* constants.                                                              *)
(*                                                                         *)
(* The argument rests on three facts about a payment.  It only reaches     *)
(* `pending` through an answer of the bank that names a hold; a worker     *)
(* only comes to a capture step by a check that the order is complete, and *)
(* an order never stops being complete; and complete! is only reached past *)
(* the commit of a capture event.  None of them depends on what the other  *)
(* workers do in between, which is why they survive every interleaving.    *)
(***************************************************************************)
EXTENDS PreAuthCheckout, TLAPS

-----------------------------------------------------------------------------
(* Type correctness.                                                       *)

\* Every action keeps every variable in its type.
LEMMA TypeStep ==
  ASSUME TypeOK, Next
  PROVE  TypeOK'
<1> USE ConstantsAssumption
       DEF TypeOK, PaymentState, AbaStatus, MessageCode, Label, EventCap,
           Workers, Jobs, ledger, shop, screen, jobs, Step, Goto, Reload,
           Finish, Proceed, Raise, RetriesLeft, Exhausted
<1>1. CASE Environment
  <2>1. CASE CustomerPays
    BY <2>1 DEF CustomerPays
  <2>2. CASE SwitchMethod
    BY <2>2 DEF SwitchMethod
  <2>3. CASE StockChanges
    BY <2>3 DEF StockChanges
  <2>4. CASE ProcessPayment
    BY <2>4 DEF ProcessPayment
  <2>5. CASE PageSnapshot
    BY <2>5 DEF PageSnapshot
  <2>6. CASE PageLoad
    BY <2>6 DEF PageLoad
  <2>7. QED
    BY <2>1, <2>2, <2>3, <2>4, <2>5, <2>6, <1>1 DEF Environment
<1>2. CASE Processor
  <2>1. CASE ProcessorLoad
    BY <2>1 DEF ProcessorLoad
  <2>2. CASE Announce
    BY <2>2 DEF Announce, Tell, Notify
  <2>3. CASE ResetFailed("processor")
    BY <2>3 DEF ResetFailed
  <2>4. CASE StartedProcessing("processor")
    BY <2>4 DEF StartedProcessing
  <2>5. CASE CannotStart
    BY <2>5 DEF CannotStart
  <2>6. CASE Authorize("processor")
    BY <2>6 DEF Authorize, AuthorizedStatus
  <2>7. CASE TellRetrying
    BY <2>7 DEF TellRetrying, Notify
  <2>8. CASE TellFailed
    BY <2>8 DEF TellFailed, Tell, Notify
  <2>9. CASE CheckOrder
    BY <2>9 DEF CheckOrder
  <2>10. CASE TellOrder
    BY <2>10 DEF TellOrder, Tell, Notify
  <2>11. CASE CompleteOrder
    BY <2>11 DEF CompleteOrder, Covered, Placed
  <2>12. CASE CheckCapture
    BY <2>12 DEF CheckCapture
  <2>13. CASE TellCapturing
    BY <2>13 DEF TellCapturing, Tell, Notify
  <2>14. CASE TellCompleted
    BY <2>14 DEF TellCompleted, Tell, Notify
  <2>15. CASE EnqueueCapture
    BY <2>15 DEF EnqueueCapture, FinishAndEnqueue
  <2>16. CASE TellOrderFailed
    BY <2>16 DEF TellOrderFailed, Tell, Notify
  <2>17. CASE EnqueueVoid
    BY <2>17 DEF EnqueueVoid, FinishAndEnqueue
  <2>18. QED
    BY <2>1, <2>2, <2>3, <2>4, <2>5, <2>6, <2>7, <2>8, <2>9, <2>10, <2>11,
       <2>12, <2>13, <2>14, <2>15, <2>16, <2>17, <1>2 DEF Processor
<1>3. CASE Capturer
  <2>1. CASE CapturerLoad
    BY <2>1 DEF CapturerLoad, CanCapture
  <2>2. CASE Capture("capturer")
    BY <2>2 DEF Capture, CaptureConfirmed, CaptureFails, AfterCapture,
       AfterFailedCapture, SaveStep
  <2>3. CASE SaveCapture("capturer")
    BY <2>3 DEF SaveCapture, CaptureConfirmed, CaptureFails, AfterCapture,
       AfterFailedCapture
  <2>4. CASE Record("capturer")
    BY <2>4 DEF Record
  <2>5. CASE Complete("capturer")
    BY <2>5 DEF Complete, FromComplete
  <2>6. CASE Report
    BY <2>6 DEF Report, Notify
  <2>7. CASE TellCaptureRetrying
    BY <2>7 DEF TellCaptureRetrying, Notify
  <2>8. CASE GiveUp
    BY <2>8 DEF GiveUp
  <2>9. CASE TellUnconfirmed
    BY <2>9 DEF TellUnconfirmed, Notify
  <2>10. CASE Unlock
    BY <2>10 DEF Unlock
  <2>11. QED
    BY <2>1, <2>2, <2>3, <2>4, <2>5, <2>6, <2>7, <2>8, <2>9, <2>10, <1>3 DEF
       Capturer
<1>4. CASE Voider
  <2>1. CASE VoiderLoad
    BY <2>1 DEF VoiderLoad
  <2>2. CASE Void("voider")
    BY <2>2 DEF Void
  <2>3. CASE SaveVoid("voider")
    BY <2>3 DEF SaveVoid
  <2>4. CASE CommitVoid("voider")
    BY <2>4 DEF CommitVoid
  <2>5. QED
    BY <2>1, <2>2, <2>3, <2>4, <1>4 DEF Voider
<1>5. CASE Admin
  <2>1. CASE AdminCapture
    BY <2>1 DEF AdminCapture, AdminFire, CanCapture
  <2>2. CASE AdminVoid
    BY <2>2 DEF AdminVoid, AdminFire
  <2>3. CASE AdminSync
    BY <2>3 DEF AdminSync, AdminFire, CanSyncCapture
  <2>4. CASE AdminProcess
    BY <2>4 DEF AdminProcess
  <2>5. CASE PortalCapture
    BY <2>5 DEF PortalCapture
  <2>6. CASE SyncCapture("admin")
    BY <2>6 DEF SyncCapture, CapturedInFull
  <2>7. CASE StartedProcessing("admin")
    BY <2>7 DEF StartedProcessing
  <2>8. CASE Authorize("admin")
    BY <2>8 DEF Authorize, AuthorizedStatus
  <2>9. CASE Capture("admin")
    BY <2>9 DEF Capture, CaptureConfirmed, CaptureFails, AfterCapture,
       AfterFailedCapture, SaveStep
  <2>10. CASE SaveCapture("admin")
    BY <2>10 DEF SaveCapture, CaptureConfirmed, CaptureFails, AfterCapture,
       AfterFailedCapture
  <2>11. CASE Record("admin")
    BY <2>11 DEF Record
  <2>12. CASE Complete("admin")
    BY <2>12 DEF Complete, FromComplete
  <2>13. CASE Void("admin")
    BY <2>13 DEF Void
  <2>14. CASE SaveVoid("admin")
    BY <2>14 DEF SaveVoid
  <2>15. CASE CommitVoid("admin")
    BY <2>15 DEF CommitVoid
  <2>16. QED
    BY <2>1, <2>2, <2>3, <2>4, <2>5, <2>6, <2>7, <2>8, <2>9, <2>10, <2>11,
       <2>12, <2>13, <2>14, <2>15, <1>5 DEF Admin
<1>6. CASE \E w \in Workers : Crash(w)
  BY <1>6 DEF Crash
<1>7. CASE \E w \in Jobs : LockExpires(w)
  BY <1>7 DEF LockExpires
<1>8. QED
  BY <1>1, <1>2, <1>3, <1>4, <1>5, <1>6, <1>7 DEF Next

\* The variables keep their types: no handler leaves a worker at a label the
\* code does not have, or a retry counter above Sidekiq's limit.
THEOREM TypeCorrect == Spec => []TypeOK
<1>1. Init => TypeOK
  BY ConstantsAssumption
     DEF Init, TypeOK, PaymentState, AbaStatus, MessageCode, Label, EventCap,
         Workers, Jobs
<1>2. TypeOK /\ [Next]_vars => TypeOK'
  <2>1. ASSUME TypeOK, Next PROVE TypeOK'
    BY <2>1, TypeStep
  <2>2. ASSUME TypeOK, UNCHANGED vars PROVE TypeOK'
    BY <2>2 DEF TypeOK, vars, ledger, shop, screen, jobs
  <2>3. QED
    BY <2>1, <2>2
<1>3. QED
  BY <1>1, <1>2, PTL DEF Spec

-----------------------------------------------------------------------------
(* The inductive invariant behind the unconditional safety properties.     *)

\* The labels between the check that the order is complete and complete!.
CaptureLabel == {"capture", "save_capture", "sync", "record", "complete"}

\* A worker about to store the bank's answer: the bank has not moved since.
AnswerKept ==
  \A w \in Workers :
    /\ pc[w] = "save_capture" => aba = "APPROVED"
    /\ pc[w] = "save_void" => aba = "CANCELLED"

\* A payment is authorized only on an answer of the bank that named a hold.
HeldWhenAuthorized ==
  pay \in {"pending", "completed"} => aba \notin {"PENDING", "DECLINED"}

\* The check that the order is complete is not stale when the bank is called.
CapturesPlaced == \A w \in Workers : pc[w] \in CaptureLabel => Placed

\* complete! is called with a capture event committed.
CompletesRecorded == \A w \in Workers : pc[w] = "complete" => events > 0

SafetyInv ==
  /\ TypeOK
  /\ StoredResponseTruthful /\ AnswerKept
  /\ NoFreeOrder /\ HeldWhenAuthorized
  /\ ChargedOnlyIfOrdered /\ CapturesPlaced
  /\ CompletedHasEvent /\ CompletesRecorded

\* Every action keeps the inductive invariant.
LEMMA SafetyStep ==
  ASSUME SafetyInv, TypeOK', Next
  PROVE  SafetyInv'
<1> USE ConstantsAssumption
       DEF SafetyInv, StoredResponseTruthful, NoFreeOrder, ChargedOnlyIfOrdered,
           CompletedHasEvent, AnswerKept, HeldWhenAuthorized, CapturesPlaced,
           CompletesRecorded, CaptureLabel, Placed,
           TypeOK, PaymentState, AbaStatus, Label, EventCap, Workers, Jobs,
           ledger, shop, screen, jobs, Step, Goto, Reload, Finish, Proceed,
           Raise, RetriesLeft, Exhausted
<1>1. CASE Environment
  <2>1. CASE CustomerPays
    BY <2>1 DEF CustomerPays
  <2>2. CASE SwitchMethod
    BY <2>2 DEF SwitchMethod
  <2>3. CASE StockChanges
    BY <2>3 DEF StockChanges
  <2>4. CASE ProcessPayment
    BY <2>4 DEF ProcessPayment
  <2>5. CASE PageSnapshot
    BY <2>5 DEF PageSnapshot
  <2>6. CASE PageLoad
    BY <2>6 DEF PageLoad
  <2>7. QED
    BY <2>1, <2>2, <2>3, <2>4, <2>5, <2>6, <1>1 DEF Environment
<1>2. CASE Processor
  <2>1. CASE ProcessorLoad
    BY <2>1 DEF ProcessorLoad
  <2>2. CASE Announce
    BY <2>2 DEF Announce, Tell, Notify
  <2>3. CASE ResetFailed("processor")
    BY <2>3 DEF ResetFailed
  <2>4. CASE StartedProcessing("processor")
    BY <2>4 DEF StartedProcessing
  <2>5. CASE CannotStart
    BY <2>5 DEF CannotStart
  <2>6. CASE Authorize("processor")
    BY <2>6 DEF Authorize, AuthorizedStatus
  <2>7. CASE TellRetrying
    BY <2>7 DEF TellRetrying, Notify
  <2>8. CASE TellFailed
    BY <2>8 DEF TellFailed, Tell, Notify
  <2>9. CASE CheckOrder
    BY <2>9 DEF CheckOrder
  <2>10. CASE TellOrder
    BY <2>10 DEF TellOrder, Tell, Notify
  <2>11. CASE CompleteOrder
    BY <2>11 DEF CompleteOrder, Covered, AuthorizedStatus
  <2>12. CASE CheckCapture
    BY <2>12 DEF CheckCapture
  <2>13. CASE TellCapturing
    BY <2>13 DEF TellCapturing, Tell, Notify
  <2>14. CASE TellCompleted
    BY <2>14 DEF TellCompleted, Tell, Notify
  <2>15. CASE EnqueueCapture
    BY <2>15 DEF EnqueueCapture, FinishAndEnqueue
  <2>16. CASE TellOrderFailed
    BY <2>16 DEF TellOrderFailed, Tell, Notify
  <2>17. CASE EnqueueVoid
    BY <2>17 DEF EnqueueVoid, FinishAndEnqueue
  <2>18. QED
    BY <2>1, <2>2, <2>3, <2>4, <2>5, <2>6, <2>7, <2>8, <2>9, <2>10, <2>11,
       <2>12, <2>13, <2>14, <2>15, <2>16, <2>17, <1>2 DEF Processor
<1>3. CASE Capturer
  <2>1. CASE CapturerLoad
    BY <2>1 DEF CapturerLoad, CanCapture
  <2>2. CASE Capture("capturer")
    BY <2>2 DEF Capture, CaptureConfirmed, CaptureFails, AfterCapture,
       AfterFailedCapture, SaveStep
  <2>3. CASE SaveCapture("capturer")
    BY <2>3 DEF SaveCapture, CaptureConfirmed, CaptureFails, AfterCapture,
       AfterFailedCapture
  <2>4. CASE Record("capturer")
    BY <2>4 DEF Record
  <2>5. CASE Complete("capturer")
    BY <2>5 DEF Complete, FromComplete
  <2>6. CASE Report
    BY <2>6 DEF Report, Notify
  <2>7. CASE TellCaptureRetrying
    BY <2>7 DEF TellCaptureRetrying, Notify
  <2>8. CASE GiveUp
    BY <2>8 DEF GiveUp
  <2>9. CASE TellUnconfirmed
    BY <2>9 DEF TellUnconfirmed, Notify
  <2>10. CASE Unlock
    BY <2>10 DEF Unlock
  <2>11. QED
    BY <2>1, <2>2, <2>3, <2>4, <2>5, <2>6, <2>7, <2>8, <2>9, <2>10, <1>3 DEF
       Capturer
<1>4. CASE Voider
  <2>1. CASE VoiderLoad
    BY <2>1 DEF VoiderLoad
  <2>2. CASE Void("voider")
    BY <2>2 DEF Void
  <2>3. CASE SaveVoid("voider")
    BY <2>3 DEF SaveVoid
  <2>4. CASE CommitVoid("voider")
    BY <2>4 DEF CommitVoid
  <2>5. QED
    BY <2>1, <2>2, <2>3, <2>4, <1>4 DEF Voider
<1>5. CASE Admin
  <2>1. CASE AdminCapture
    BY <2>1 DEF AdminCapture, AdminFire, CanCapture
  <2>2. CASE AdminVoid
    BY <2>2 DEF AdminVoid, AdminFire
  <2>3. CASE AdminSync
    BY <2>3 DEF AdminSync, AdminFire, CanSyncCapture
  <2>4. CASE AdminProcess
    BY <2>4 DEF AdminProcess
  <2>5. CASE PortalCapture
    BY <2>5 DEF PortalCapture
  <2>6. CASE SyncCapture("admin")
    BY <2>6 DEF SyncCapture, CapturedInFull
  <2>7. CASE StartedProcessing("admin")
    BY <2>7 DEF StartedProcessing
  <2>8. CASE Authorize("admin")
    BY <2>8 DEF Authorize, AuthorizedStatus
  <2>9. CASE Capture("admin")
    BY <2>9 DEF Capture, CaptureConfirmed, CaptureFails, AfterCapture,
       AfterFailedCapture, SaveStep
  <2>10. CASE SaveCapture("admin")
    BY <2>10 DEF SaveCapture, CaptureConfirmed, CaptureFails, AfterCapture,
       AfterFailedCapture
  <2>11. CASE Record("admin")
    BY <2>11 DEF Record
  <2>12. CASE Complete("admin")
    BY <2>12 DEF Complete, FromComplete
  <2>13. CASE Void("admin")
    BY <2>13 DEF Void
  <2>14. CASE SaveVoid("admin")
    BY <2>14 DEF SaveVoid
  <2>15. CASE CommitVoid("admin")
    BY <2>15 DEF CommitVoid
  <2>16. QED
    BY <2>1, <2>2, <2>3, <2>4, <2>5, <2>6, <2>7, <2>8, <2>9, <2>10, <2>11,
       <2>12, <2>13, <2>14, <2>15, <1>5 DEF Admin
<1>6. CASE \E w \in Workers : Crash(w)
  BY <1>6 DEF Crash
<1>7. CASE \E w \in Jobs : LockExpires(w)
  BY <1>7 DEF LockExpires
<1>8. QED
  BY <1>1, <1>2, <1>3, <1>4, <1>5, <1>6, <1>7 DEF Next

\* SafetyInv is an invariant of every behaviour.
THEOREM SafetyInvariant == Spec => []SafetyInv
<1>1. Init => SafetyInv
  <2>1. Init => TypeOK
    BY ConstantsAssumption
       DEF Init, TypeOK, PaymentState, AbaStatus, MessageCode, Label, EventCap,
           Workers, Jobs
  <2>2. QED
    BY <2>1
       DEF Init, SafetyInv, StoredResponseTruthful, AnswerKept, NoFreeOrder,
           HeldWhenAuthorized, ChargedOnlyIfOrdered, CapturesPlaced,
           CaptureLabel, CompletedHasEvent, CompletesRecorded, Placed
<1>2. SafetyInv /\ [Next]_vars => SafetyInv'
  <2>1. ASSUME SafetyInv, Next PROVE SafetyInv'
    <3>1. TypeOK'
      BY <2>1, TypeStep DEF SafetyInv
    <3>2. QED
      BY <2>1, <3>1, SafetyStep
  <2>2. ASSUME SafetyInv, UNCHANGED vars PROVE SafetyInv'
    BY <2>2
       DEF SafetyInv, TypeOK, StoredResponseTruthful, AnswerKept, NoFreeOrder,
           HeldWhenAuthorized, ChargedOnlyIfOrdered, CapturesPlaced,
           CompletedHasEvent, CompletesRecorded, Placed, vars, ledger, shop,
           screen, jobs
  <2>3. QED
    BY <2>1, <2>2
<1>3. QED
  BY <1>1, <1>2, PTL DEF Spec

\* The answer stored with a payment never contradicts the bank: the completer
\* and the canceler skip their call on the strength of it.
THEOREM StoredResponseIsTruthful == Spec => []StoredResponseTruthful
BY SafetyInvariant, PTL DEF SafetyInv

\* PaymentProcessor completes no order that the bank never held money for.
THEOREM NoOrderIsFree == Spec => []NoFreeOrder
BY SafetyInvariant, PTL DEF SafetyInv

\* No worker collects money for an order that is not complete, although
\* can_capture? is read long before the bank is called.
THEOREM NoChargeWithoutOrder == Spec => []ChargedOnlyIfOrdered
BY SafetyInvariant, PTL DEF SafetyInv

\* A completed payment has a capture event, whatever was killed between the
\* two commits of pre_auth_capture!.
THEOREM CompletedPaymentHasEvent == Spec => []CompletedHasEvent
BY SafetyInvariant, PTL DEF SafetyInv

=============================================================================
