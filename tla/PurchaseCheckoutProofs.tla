---------------------- MODULE PurchaseCheckoutProofs ----------------------
(***************************************************************************)
(* What holds of the money of an auto-captured payment for any number of   *)
(* retries and faults, whatever the customer's pages ask for meanwhile.    *)
(*                                                                         *)
(* The pages touch the server through one request only, process_payment,   *)
(* so a step of the whole system is for the server a step of its own or    *)
(* such a request (ServerCases).  Money says what the bank has done by the *)
(* time the payment, the order or a job relies on it; it is what makes     *)
(* VoidMeansRefunded and PlacedMeansPaid inductive.                        *)
(***************************************************************************)
EXTENDS CustomerPages, TLAPS

\* The customer's money has left the account, and may be back on it.
Taken == bank \in {"paid", "refunded"}

\* Whoever relies on the bank's word has it.
Money ==
  /\ pay = "completed" => Taken
  /\ PlacedMeansPaid
  /\ pc["canceler"] = "save_void" => bank = "refunded"
  /\ VoidMeansRefunded

\* What a request of the customer's pages does to the server.
Request ==
  /\ UNCHANGED <<bank, pay, order, inStock, doc, killed>>
  /\ UNCHANGED jobs \/ Enqueue("processor")
  /\ UNCHANGED faults \/ Fault

\* A step of the server, of its own or for a page.
ServerStep == ServerNext \/ Request

JobsTypeOK ==
  /\ pc \in [Jobs -> Label]
  /\ mem \in [Jobs -> PaymentState \cup {"none"}]
  /\ tries \in [Jobs -> 0..MaxRetries]

-----------------------------------------------------------------------------
(* Steps.                                                                  *)

\* The pages reach the server through process_payment only.
LEMMA ServerCases ==
  ASSUME [Next]_vars
  PROVE  ServerStep
<1>1. ASSUME ServerNext PROVE ServerStep
  BY <1>1 DEF ServerStep
<1>2. ASSUME UNCHANGED serverVars PROVE Request
  BY <1>2 DEF Request, serverVars, jobs
<1>3. ASSUME CheckoutPage PROVE Request
  <2>1. ASSUME TimePasses \/ PollTick \/ PollReturns PROVE UNCHANGED serverVars
    BY <2>1 DEF TimePasses, PollTick, PollReturns
  <2>2. ASSUME PollAnswered \/ PollFails PROVE Request
    BY <2>2 DEF PollAnswered, PollFails, Request
  <2> QED BY <1>2, <1>3, <2>1, <2>2 DEF CheckoutPage
<1>4. ASSUME Arrive \/ Reload PROVE Request
  BY <1>2, <1>4 DEF Arrive, Reload
<1>5. ASSUME ProcessingPage PROVE Request
  <2>1. ASSUME PostArrives \/ PostFails PROVE Request
    BY <2>1 DEF PostArrives, PostFails, ProcessPayment, Request
  <2>2. ASSUME PostAgain \/ Attach \/ Snapshot \/ DelayPasses \/ NextCallback
        PROVE  UNCHANGED serverVars
    BY <2>2 DEF PostAgain, Attach, Snapshot, DelayPasses, NextCallback
  <2> QED BY <1>2, <1>5, <2>1, <2>2 DEF ProcessingPage
<1>6. ASSUME UNCHANGED vars PROVE Request
  BY <1>2, <1>6 DEF vars
<1> QED BY <1>1, <1>3, <1>4, <1>5, <1>6 DEF Next, ServerStep

\* Moving a job on keeps the jobs well typed.
LEMMA JobMoves ==
  ASSUME JobsTypeOK, NEW j \in Jobs
  PROVE  /\ \A label \in Label, state \in PaymentState \cup {"none"} :
              Step(j, label, state) => JobsTypeOK'
         /\ Finish(j) => JobsTypeOK'
         /\ Raise(j) => JobsTypeOK'
         /\ Enqueue(j) => JobsTypeOK'
<1>1. ASSUME NEW label \in Label, NEW state \in PaymentState \cup {"none"},
             Step(j, label, state)
      PROVE  JobsTypeOK'
  BY <1>1 DEF JobsTypeOK, Step
<1>2. ASSUME Finish(j) PROVE JobsTypeOK'
  BY <1>2, PurchaseAssumption DEF JobsTypeOK, Finish, Label
<1>3. ASSUME Raise(j) PROVE JobsTypeOK'
  BY <1>3, PurchaseAssumption DEF JobsTypeOK, Raise, RetriesLeft, Label
<1>4. ASSUME Enqueue(j) PROVE JobsTypeOK'
  BY <1>4 DEF JobsTypeOK, Enqueue, Label
<1> QED BY <1>1, <1>2, <1>3, <1>4

\* A fault that happens is one of those left.
LEMMA FaultType ==
  ASSUME faults \in 0..MaxFaults, Fault
  PROVE  faults' \in 0..MaxFaults
BY PurchaseAssumption DEF Fault

\* The server starts well typed.
LEMMA ServerTypeInit ==
  ASSUME ServerInit PROVE ServerTypeOK
<1>1. JobsTypeOK
  BY PurchaseAssumption DEF ServerInit, JobsTypeOK, Label
<1>2. inStock \in BOOLEAN /\ killed \in BOOLEAN
  BY DEF ServerInit
<1>3. doc \in [code : MessageCode, order : {"payment", "complete"}]
  BY DEF ServerInit, MessageCode
<1>4. faults \in 0..MaxFaults
  BY PurchaseAssumption DEF ServerInit
<1> QED
  BY <1>1, <1>2, <1>3, <1>4 DEF ServerInit, ServerTypeOK, JobsTypeOK, PaymentState

\* Every step of the server, or for a page, keeps it well typed.
LEMMA ServerTypeStep ==
  ASSUME ServerTypeOK, ServerStep PROVE ServerTypeOK'
<1> USE DEF ServerTypeOK
<1>j. JobsTypeOK /\ "processor" \in Jobs /\ "canceler" \in Jobs
  BY DEF JobsTypeOK, Jobs
<1>1. ASSUME Request PROVE ServerTypeOK'
  BY <1>1, <1>j, JobMoves, FaultType DEF Request, JobsTypeOK, jobs
<1>2. ASSUME CustomerPays \/ StockChanges PROVE ServerTypeOK'
  BY <1>2 DEF CustomerPays, StockChanges, jobs
<1>3. ASSUME Pushback PROVE Request
  BY <1>3 DEF Pushback, Request, ProcessPayment
<1>4. ASSUME NEW at, NEW code \in MessageCode, NEW next \in Label, Tell(at, code, next)
      PROVE  ServerTypeOK'
  BY <1>4, <1>j, JobMoves, FaultType
  DEF Tell, Notify, Goto, JobsTypeOK
<1>5. ASSUME Announce \/ TellFailed \/ TellOrder \/ TellCompleted \/ TellOrderFailed
      PROVE  ServerTypeOK'
  BY <1>4, <1>5 DEF Announce, TellFailed, TellOrder, TellCompleted,
                    TellOrderFailed, MessageCode, Label
<1>6. ASSUME ProcessorLoad PROVE ServerTypeOK'
  BY <1>6, <1>j, JobMoves DEF ProcessorLoad, JobsTypeOK, Label
<1>7. ASSUME Start PROVE ServerTypeOK'
  BY <1>7, <1>j, JobMoves DEF Start, JobsTypeOK, Label, PaymentState
<1>8. ASSUME Purchase PROVE ServerTypeOK'
  BY <1>8, <1>j, JobMoves, FaultType
  DEF Purchase, AfterLostAnswer, JobsTypeOK, Label, PaymentState
<1>9. ASSUME TellRetrying PROVE ServerTypeOK'
  BY <1>9, <1>j, JobMoves, FaultType
  DEF TellRetrying, Notify, JobsTypeOK, MessageCode
<1>10. ASSUME CompleteOrder PROVE ServerTypeOK'
  BY <1>10, <1>j, JobMoves DEF CompleteOrder, AfterCompleter, Goto, JobsTypeOK, Label
<1>11. ASSUME EnqueueCancel PROVE ServerTypeOK'
  BY <1>11, PurchaseAssumption DEF EnqueueCancel, Jobs, Label
<1>12. ASSUME CancelerLoad PROVE ServerTypeOK'
  BY <1>12, <1>j, JobMoves DEF CancelerLoad, JobsTypeOK, Label
<1>13. ASSUME Refund PROVE ServerTypeOK'
  BY <1>13, <1>j, JobMoves, FaultType DEF Refund, AfterRefund, Goto, JobsTypeOK, Label
<1>14. ASSUME SaveVoid PROVE ServerTypeOK'
  BY <1>14, <1>j, JobMoves DEF SaveVoid, JobsTypeOK, PaymentState
<1>15. ASSUME NEW j \in Jobs, Crash(j) PROVE ServerTypeOK'
  <2>1. PICK label \in {"queued", "dead"} : Step(j, label, "none")
    BY <1>15 DEF Crash
  <2>2. label \in Label
    BY DEF Label
  <2>3. JobsTypeOK'
    BY <1>j, <2>1, <2>2, JobMoves
  <2> QED BY <1>15, <2>3, FaultType DEF Crash, JobsTypeOK
<1>16. ASSUME NEW j \in Jobs, LockExpires(j) PROVE ServerTypeOK'
  BY <1>16, <1>j, JobMoves DEF LockExpires, JobsTypeOK
<1> QED
  BY <1>1, <1>2, <1>3, <1>5, <1>6, <1>7, <1>8, <1>9, <1>10, <1>11, <1>12, <1>13,
     <1>14, <1>15, <1>16
  DEF ServerStep, ServerNext, Processor, Canceler

-----------------------------------------------------------------------------
(* The money.                                                              *)

\* Money is kept: nobody relies on the bank before its answer.
LEMMA MoneyStep ==
  ASSUME ServerTypeOK, Money, ServerStep PROVE Money'
<1> USE DEF ServerTypeOK, Money, PlacedMeansPaid, VoidMeansRefunded, Taken, Placed
<1>j. "processor" \in Jobs /\ "canceler" \in Jobs
  BY DEF Jobs
\* The steps that leave bank, payment and order alone, and do not take the
\* canceler to save_void.
<1>1. ASSUME UNCHANGED <<bank, pay, order>>,
             pc'["canceler"] = "save_void" => pc["canceler"] = "save_void"
      PROVE  Money'
  BY <1>1
<1>2. ASSUME Request \/ Pushback PROVE Money'
  BY <1>1, <1>2, <1>j DEF Request, Pushback, ProcessPayment, Enqueue, jobs
<1>3. ASSUME CustomerPays \/ StockChanges PROVE Money'
  BY <1>3 DEF CustomerPays, StockChanges, jobs
<1>4. ASSUME NEW at, NEW code, NEW next, Tell(at, code, next) PROVE Money'
  BY <1>1, <1>4, <1>j DEF Tell, Goto, Step, Raise
<1>5. ASSUME Announce \/ TellFailed \/ TellOrder \/ TellCompleted \/ TellOrderFailed
      PROVE  Money'
  BY <1>4, <1>5 DEF Announce, TellFailed, TellOrder, TellCompleted, TellOrderFailed
<1>6. ASSUME ProcessorLoad \/ TellRetrying PROVE Money'
  BY <1>1, <1>6, <1>j DEF ProcessorLoad, TellRetrying, Step, Finish, Raise
<1>7. ASSUME Start PROVE Money'
  BY <1>7, <1>j DEF Start, Step, Finish
<1>8. ASSUME Purchase PROVE Money'
  BY <1>8, <1>j DEF Purchase, Purchased, AfterLostAnswer, Step
<1>9. ASSUME CompleteOrder PROVE Money'
  BY <1>9, <1>j DEF CompleteOrder, Goto, Step
<1>10. ASSUME EnqueueCancel PROVE Money'
  BY <1>1, <1>10, <1>j DEF EnqueueCancel
<1>11. ASSUME CancelerLoad PROVE Money'
  BY <1>1, <1>11, <1>j DEF CancelerLoad, Step, Finish
<1>12. ASSUME Refund PROVE Money'
  BY <1>12, <1>j DEF Refund, AfterRefund, Goto, Step, Raise
<1>13. ASSUME SaveVoid PROVE Money'
  BY <1>13, <1>j DEF SaveVoid, Finish
<1>14. ASSUME NEW j \in Jobs, Crash(j) \/ LockExpires(j) PROVE Money'
  BY <1>1, <1>14, <1>j DEF Crash, LockExpires, Step, Finish
<1> QED
  BY <1>2, <1>3, <1>5, <1>6, <1>7, <1>8, <1>9, <1>10, <1>11, <1>12, <1>13, <1>14
  DEF ServerStep, ServerNext, Processor, Canceler

\* What a run in `processing` needs of its job.
LEMMA ProcessingStep ==
  ASSUME ServerTypeOK, ProcessingHasRun, ServerStep PROVE ProcessingHasRun'
<1> USE DEF ServerTypeOK, ProcessingHasRun
<1>j. "processor" \in Jobs /\ "canceler" \in Jobs /\ "processor" # "canceler"
  BY DEF Jobs
\* The steps that leave the payment alone, and a purchase where it is.
<1>1. ASSUME UNCHANGED <<pay, killed>>,
             pc["processor"] = "purchase" => pc'["processor"] = "purchase"
      PROVE  ProcessingHasRun'
  BY <1>1
<1>2. ASSUME Request \/ Pushback PROVE ProcessingHasRun'
  BY <1>1, <1>2, <1>j DEF Request, Pushback, ProcessPayment, Enqueue, jobs
<1>3. ASSUME CustomerPays \/ StockChanges PROVE ProcessingHasRun'
  BY <1>1, <1>3 DEF CustomerPays, StockChanges, jobs
<1>4. ASSUME NEW at, NEW code, NEW next, at # "purchase", Tell(at, code, next)
      PROVE  ProcessingHasRun'
  BY <1>1, <1>4, <1>j DEF Tell, Goto, Step, Raise
<1>5. ASSUME Announce \/ TellFailed \/ TellOrder \/ TellCompleted \/ TellOrderFailed
      PROVE  ProcessingHasRun'
  BY <1>4, <1>5 DEF Announce, TellFailed, TellOrder, TellCompleted, TellOrderFailed
<1>6. ASSUME ProcessorLoad \/ TellRetrying PROVE ProcessingHasRun'
  BY <1>1, <1>6, <1>j DEF ProcessorLoad, TellRetrying, Step, Finish, Raise
<1>7. ASSUME Start PROVE ProcessingHasRun'
  BY <1>7, <1>j DEF Start, Step, Finish
<1>8. ASSUME Purchase PROVE ProcessingHasRun'
  BY <1>8, <1>j DEF Purchase, AfterLostAnswer, Step
<1>9. ASSUME CompleteOrder \/ EnqueueCancel PROVE ProcessingHasRun'
  BY <1>1, <1>9, <1>j DEF CompleteOrder, EnqueueCancel, Goto, Step
<1>10. ASSUME CancelerLoad \/ Refund PROVE ProcessingHasRun'
  BY <1>1, <1>10, <1>j DEF CancelerLoad, Refund, Goto, Step, Finish, Raise
<1>11. ASSUME SaveVoid PROVE ProcessingHasRun'
  BY <1>11, <1>j DEF SaveVoid, Finish
<1>12. ASSUME NEW j \in Jobs, Crash(j) PROVE ProcessingHasRun'
  BY <1>12 DEF Crash
<1>13. ASSUME NEW j \in Jobs, LockExpires(j) PROVE ProcessingHasRun'
  BY <1>1, <1>13, <1>j DEF LockExpires, Finish
<1> QED
  BY <1>2, <1>3, <1>5, <1>6, <1>7, <1>8, <1>9, <1>10, <1>11, <1>12, <1>13
  DEF ServerStep, ServerNext, Processor, Canceler

-----------------------------------------------------------------------------
(* Theorems.                                                               *)

\* The server's part of the state is well typed.
THEOREM ServerTypeCorrect == Spec => []ServerTypeOK
<1>1. Init => ServerTypeOK
  BY ServerTypeInit DEF Init
<1>2. ServerTypeOK /\ [Next]_vars => ServerTypeOK'
  BY ServerCases, ServerTypeStep
<1> QED BY <1>1, <1>2, PTL DEF Spec

\* Nobody relies on money the bank has not taken, or not given back.
THEOREM MoneyCorrect == Spec => []Money
<1>1. Init => Money
  BY DEF Init, ServerInit, Money, PlacedMeansPaid, VoidMeansRefunded, Placed, Jobs
<1>2. ServerTypeOK /\ Money /\ [Next]_vars => Money'
  BY ServerCases, MoneyStep
<1> QED BY <1>1, <1>2, ServerTypeCorrect, PTL DEF Spec

\* PaymentCancelerJob voids a payment only when the money went back.
THEOREM VoidCorrect == Spec => []VoidMeansRefunded
<1>1. Money => VoidMeansRefunded
  BY DEF Money
<1> QED BY <1>1, MoneyCorrect, PTL

\* No order is given away: a placed one was paid for.
THEOREM PlacedCorrect == Spec => []PlacedMeansPaid
<1>1. Money => PlacedMeansPaid
  BY DEF Money
<1> QED BY <1>1, MoneyCorrect, PTL

\* A payment is left in `processing` by a killed job only.
THEOREM ProcessingCorrect == Spec => []ProcessingHasRun
<1>1. Init => ProcessingHasRun
  BY DEF Init, ServerInit, ProcessingHasRun
<1>2. ServerTypeOK /\ ProcessingHasRun /\ [Next]_vars => ProcessingHasRun'
  BY ServerCases, ProcessingStep
<1> QED BY <1>1, <1>2, ServerTypeCorrect, PTL DEF Spec
=============================================================================
