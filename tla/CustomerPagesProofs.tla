------------------------ MODULE CustomerPagesProofs ------------------------
(***************************************************************************)
(* What holds of the customer's pages for any number of polls, posts,      *)
(* retries and faults, on top of what PurchaseCheckoutProofs says of the   *)
(* server.                                                                 *)
(*                                                                         *)
(* Three invariants carry the properties.  Answers: a poll that holds      *)
(* "success" was answered when the bank had the money.  News: whoever      *)
(* speaks of a completed order, from the job that is about to write the    *)
(* message to the callback that waits in the page's queue, does so after   *)
(* the order was placed.  InOrder: the last callback of the queue, or the  *)
(* page's text once the queue is empty, is what the last snapshot asked    *)
(* for.                                                                    *)
(***************************************************************************)
EXTENDS PurchaseCheckoutProofs, SequenceTheorems

Poll == {"asked", "success", "failed", "pending"}

\* A poll's good answer is the bank's.
Answers ==
  /\ \A i \in DOMAIN flights : flights[i] = "success" => Taken
  /\ SuccessReportTrue

TellsOfOrder(d) == OrderCompleted(d) \/ d.code = "order_is_completed"

\* Nobody says the order is complete before it is.
News ==
  /\ pc["processor"] = "tell_completed" => Placed
  /\ TellsOfOrder(doc) => Placed
  /\ TellsOfOrder(seen) => Placed
  /\ \A i \in DOMAIN queue : queue[i] = "leave" => Placed
  /\ going = "success" => Placed
  /\ SuccessNeverDenied
  /\ ModalClosesOnCompletion

\* What a snapshot asks of the page.
Wanted(d) == IF OrderCompleted(d) THEN "leave" ELSE d.code

\* The page is on its way to what the last snapshot asked for.
InOrder ==
  tab = "processing" =>
    /\ delay = "idle" => queue = <<>>
    /\ queue # <<>> => queue[Len(queue)] = Wanted(seen)
    /\ queue = <<>> /\ going = "" => text = Wanted(seen)

\* requestProcessPayment only sends what it may still lose.
PostMayFail == post.at \in {"sending", "waiting"} => post.left > 0

-----------------------------------------------------------------------------
(* Sequences.                                                              *)

\* Nothing waits in an empty sequence.
LEMMA EmptyDomain == DOMAIN <<>> = {}
OBVIOUS

\* Polls under way are a sequence of bounded length.
LEMMA FlightsSeq ==
  ASSUME NEW s
  PROVE  s \in UNION {[1..n -> Poll] : n \in 0..MaxFlights}
            <=> s \in Seq(Poll) /\ Len(s) <= MaxFlights
<1>m. MaxFlights \in Nat
  BY PagesAssumption
<1>1. ASSUME NEW n \in 0..MaxFlights, s \in [1..n -> Poll]
      PROVE  s \in Seq(Poll) /\ Len(s) <= MaxFlights
  BY <1>m, <1>1, SeqDef
<1>2. ASSUME s \in Seq(Poll), Len(s) <= MaxFlights
      PROVE  s \in [1..Len(s) -> Poll] /\ Len(s) \in 0..MaxFlights
  BY <1>m, <1>2, LenProperties
<1> QED BY <1>1, <1>2

\* What is left without one element.
LEMMA WithoutFacts ==
  ASSUME NEW S, NEW s \in Seq(S), NEW i \in DOMAIN s
  PROVE  /\ Without(s, i) \in Seq(S)
         /\ Len(Without(s, i)) = Len(s) - 1
         /\ \A k \in DOMAIN Without(s, i) :
              \E m \in DOMAIN s : Without(s, i)[k] = s[m]
<1> DEFINE a == SubSeq(s, 1, i - 1)
           b == SubSeq(s, i + 1, Len(s))
<1>1. Len(s) \in Nat /\ DOMAIN s = 1..Len(s) /\ \A k \in 1..Len(s) : s[k] \in S
  BY LenProperties, ElementOfSeq
<1>2. i \in 1..Len(s)
  BY <1>1
<1>3. a \in Seq(S) /\ Len(a) = i - 1 /\ \A k \in 1..Len(a) : a[k] = s[k]
  <2>1. \A k \in 1..(i - 1) : s[k] \in S
    BY <1>1, <1>2
  <2> QED BY <1>1, <1>2, <2>1, SubSeqProperties
<1>4. /\ b \in Seq(S) /\ Len(b) = Len(s) - i
      /\ \A k \in 1..Len(b) : b[k] = s[i + k]
  <2>1. \A k \in (i + 1)..Len(s) : s[k] \in S
    BY <1>1, <1>2
  <2> QED BY <1>1, <1>2, <2>1, SubSeqProperties
<1>5. Without(s, i) = a \o b
  BY DEF Without
<1> HIDE DEF a, b
<1>6. /\ a \o b \in Seq(S) /\ Len(a \o b) = Len(a) + Len(b)
      /\ \A k \in 1..(Len(a) + Len(b)) :
           (a \o b)[k] = IF k <= Len(a) THEN a[k] ELSE b[k - Len(a)]
  BY <1>3, <1>4, ConcatProperties
<1>7. Len(a \o b) = Len(s) - 1
  BY <1>1, <1>2, <1>3, <1>4, <1>6
<1>8. DOMAIN (a \o b) = 1..(Len(s) - 1)
  BY <1>6, <1>7, LenProperties
<1>9. ASSUME NEW k \in 1..(Len(s) - 1)
      PROVE  \E m \in DOMAIN s : (a \o b)[k] = s[m]
  <2>1. CASE k <= Len(a)
    BY <1>1, <1>2, <1>3, <1>4, <1>6, <2>1
  <2>2. CASE ~(k <= Len(a))
    <3>1. k - Len(a) \in 1..Len(b) /\ i + (k - Len(a)) \in 1..Len(s)
      BY <1>1, <1>2, <1>3, <1>4, <2>2
    <3>2. (a \o b)[k] = s[i + (k - Len(a))]
      BY <1>1, <1>2, <1>3, <1>4, <1>6, <2>2, <3>1, SMTT(30)
    <3> QED BY <1>1, <3>1, <3>2
  <2> QED BY <2>1, <2>2
<1> QED BY <1>5, <1>6, <1>7, <1>8, <1>9

\* The last element of a queue, as callbacks join it and leave it.
LEMMA QueueFacts ==
  ASSUME NEW S, NEW q \in Seq(S)
  PROVE  /\ \A e \in S : /\ Append(q, e) \in Seq(S) /\ Append(q, e) # <<>>
                         /\ Append(q, e)[Len(Append(q, e))] = e
                         /\ \A k \in DOMAIN Append(q, e) :
                              \/ Append(q, e)[k] = e
                              \/ k \in DOMAIN q /\ Append(q, e)[k] = q[k]
                         /\ q = <<>> => /\ Head(Append(q, e)) = e
                                        /\ Tail(Append(q, e)) = <<>>
         /\ q # <<>> => /\ Head(q) \in S /\ Tail(q) \in Seq(S)
                        /\ 1 \in DOMAIN q /\ Head(q) = q[1]
                        /\ \A k \in DOMAIN Tail(q) :
                             k + 1 \in DOMAIN q /\ Tail(q)[k] = q[k + 1]
                        /\ IF Tail(q) = <<>> THEN Head(q) = q[Len(q)]
                           ELSE Tail(q)[Len(Tail(q))] = q[Len(q)]
<1>1. ASSUME NEW e \in S
      PROVE  /\ Append(q, e) \in Seq(S) /\ Append(q, e) # <<>>
             /\ Append(q, e)[Len(Append(q, e))] = e
             /\ \A k \in DOMAIN Append(q, e) :
                  \/ Append(q, e)[k] = e
                  \/ k \in DOMAIN q /\ Append(q, e)[k] = q[k]
             /\ q = <<>> => /\ Head(Append(q, e)) = e
                            /\ Tail(Append(q, e)) = <<>>
  <2>1. /\ Append(q, e) \in Seq(S) /\ Append(q, e) # <<>>
        /\ Len(Append(q, e)) = Len(q) + 1
        /\ \A k \in 1..Len(q) : Append(q, e)[k] = q[k]
        /\ Append(q, e)[Len(q) + 1] = e
    BY AppendProperties
  <2>2. /\ Len(q) \in Nat /\ DOMAIN q = 1..Len(q)
        /\ DOMAIN Append(q, e) = 1..(Len(q) + 1)
    BY <2>1, LenProperties
  <2>3. q = <<>> => Head(Append(q, e)) = e /\ Tail(Append(q, e)) = <<>>
    BY HeadTailAppend
  <2> QED BY <2>1, <2>2, <2>3
<1>2. ASSUME q # <<>>
      PROVE  /\ Head(q) \in S /\ Tail(q) \in Seq(S)
             /\ 1 \in DOMAIN q /\ Head(q) = q[1]
             /\ \A k \in DOMAIN Tail(q) :
                  k + 1 \in DOMAIN q /\ Tail(q)[k] = q[k + 1]
             /\ IF Tail(q) = <<>> THEN Head(q) = q[Len(q)]
                ELSE Tail(q)[Len(Tail(q))] = q[Len(q)]
  <2>1. /\ Head(q) \in S /\ Tail(q) \in Seq(S) /\ Len(Tail(q)) = Len(q) - 1
        /\ \A k \in 1..Len(Tail(q)) : Tail(q)[k] = q[k + 1]
    BY <1>2, HeadTailProperties
  <2>2. /\ Len(q) \in Nat \ {0} /\ DOMAIN q = 1..Len(q)
        /\ DOMAIN Tail(q) = 1..Len(Tail(q))
    BY <1>2, <2>1, LenProperties, EmptySeq
  <2>3. Head(q) = q[1]
    BY <2>2, HeadTailOfSubSeq, SubSeqFull
  <2>4. CASE Tail(q) = <<>>
    BY <2>1, <2>2, <2>3, <2>4
  <2>5. CASE Tail(q) # <<>>
    <3>1. Len(Tail(q)) \in Nat \ {0}
      BY <2>1, <2>5, EmptySeq
    <3> QED BY <2>1, <2>2, <2>3, <2>5, <3>1
  <2> QED BY <2>1, <2>2, <2>3, <2>4, <2>5
<1> QED BY <1>1, <1>2

-----------------------------------------------------------------------------
(* Type correctness.                                                       *)

\* Where loading a page leads.
LEMMA LoadCases ==
  ASSUME Arrive \/ Reload
  PROVE  /\ Unload /\ UNCHANGED serverVars
         /\ \/ LoadSuccess /\ (Placed \/ going = "success")
            \/ /\ tab' = "processing" /\ modal' = modal
               /\ post' = [at |-> "sending", left |-> MaxPosts]
BY DEF Arrive, Reload, LoadProcessing

\* A page that was just loaded is well typed.
LEMMA LoadTypes ==
  ASSUME PagesTypeOK, Arrive \/ Reload
  PROVE  PagesTypeOK'
<1>1. /\ <<>> \in Seq(Poll) /\ Len(<<>>) <= MaxFlights
      /\ <<>> \in Seq(MessageCode \cup {"leave"})
  BY EmptySeq, PagesAssumption
<1>2. /\ polling' \in [on : BOOLEAN, late : BOOLEAN]
      /\ flights' \in Seq(Poll) /\ Len(flights') <= MaxFlights
      /\ reported' \subseteq {"success", "failed", "timeout"}
      /\ listening' \in BOOLEAN
      /\ seen' \in [code : MessageCode, order : {"payment", "complete"}]
      /\ queue' \in Seq(MessageCode \cup {"leave"})
      /\ delay' \in {"idle", "fresh", "elapsed"}
      /\ text' \in MessageCode
      /\ going' \in {"", "processing", "success"}
  <2>1. Unload
    BY LoadCases
  <2> QED BY <1>1, <2>1 DEF Unload, NoDoc, MessageCode
<1>3. /\ tab' \in {"checkout", "processing", "success", "denied"}
      /\ post' \in [at : {"off", "sending", "waiting", "over"}, left : 0..MaxPosts]
      /\ modal' \in BOOLEAN
  <2>1. MaxPosts \in 0..MaxPosts
    BY PagesAssumption
  <2>2. CASE LoadSuccess
    BY <2>1, <2>2 DEF LoadSuccess, Placed, PagesTypeOK
  <2>3. CASE ~ LoadSuccess
    <3>1. /\ tab' = "processing" /\ modal' = modal
          /\ post' = [at |-> "sending", left |-> MaxPosts]
      BY <2>3, LoadCases
    <3>2. modal' \in BOOLEAN
      BY <3>1, Zenon DEF PagesTypeOK
    <3> QED BY <2>1, <3>1, <3>2
  <2> QED BY <2>2, <2>3
<1> QED BY <1>2, <1>3, FlightsSeq DEF PagesTypeOK, Poll

\* A callback keeps the page well typed.
LEMMA CallTypes ==
  ASSUME PagesTypeOK, NEW item \in MessageCode \cup {"leave"}, Call(item)
  PROVE  /\ delay' = "fresh"
         /\ going' \in {"", "processing", "success"}
         /\ text' \in MessageCode
BY DEF Call, PagesTypeOK

\* The queue of callbacks stays a sequence of codes when one is pushed or taken.
LEMMA QueueTypes ==
  ASSUME PagesTypeOK, NEW item \in MessageCode \cup {"leave"}, QueueStateChange(item)
  PROVE  /\ queue' \in Seq(MessageCode \cup {"leave"})
         /\ delay' \in {"idle", "fresh", "elapsed"}
         /\ going' \in {"", "processing", "success"}
         /\ text' \in MessageCode
<1> DEFINE waiting == Append(queue, item)
<1>1. queue \in Seq(MessageCode \cup {"leave"})
  BY DEF PagesTypeOK
<1>2. waiting \in Seq(MessageCode \cup {"leave"}) /\ waiting # <<>>
  BY <1>1, QueueFacts
<1>3. /\ Head(waiting) \in MessageCode \cup {"leave"}
      /\ Tail(waiting) \in Seq(MessageCode \cup {"leave"})
  BY <1>2, HeadTailProperties
<1>4. IF QueueFree
        THEN Call(Head(waiting)) /\ queue' = Tail(waiting)
        ELSE queue' = waiting /\ UNCHANGED <<delay, text, going>>
  BY DEF QueueStateChange, Push
<1> HIDE DEF waiting
<1> QED BY <1>2, <1>3, <1>4, CallTypes DEF PagesTypeOK

\* Every step keeps the types of the pages.
LEMMA PagesTypeStep ==
  ASSUME TypeOK, PostMayFail, [Next]_vars PROVE PagesTypeOK'
<1> USE DEF TypeOK
<1> DEFINE Codes == MessageCode \cup {"leave"}
<1>1. ASSUME UNCHANGED pages PROVE PagesTypeOK'
  BY <1>1, ZenonT(30) DEF pages, poller, follower, PagesTypeOK
<1>2. ASSUME TimePasses PROVE PagesTypeOK'
  BY <1>2 DEF TimePasses, follower, PagesTypeOK
<1>3. ASSUME PollTick PROVE PagesTypeOK'
  <2>1. CASE polling.late
    BY <1>3, <2>1 DEF PollTick, Report, follower, PagesTypeOK
  <2>2. CASE ~ polling.late
    <3>1. /\ Len(flights) < MaxFlights /\ flights' = Append(flights, "asked")
          /\ UNCHANGED <<tab, post, follower, modal, polling, reported, going>>
      BY <1>3, <2>2 DEF PollTick
    <3>2. flights \in Seq(Poll) /\ "asked" \in Poll
      BY FlightsSeq DEF PagesTypeOK, Poll
    <3>3. flights' \in Seq(Poll) /\ Len(flights') = Len(flights) + 1
      BY <3>1, <3>2, AppendProperties
    <3>4. flights' \in Seq(Poll) /\ Len(flights') <= MaxFlights
      BY <3>1, <3>2, <3>3, LenProperties, PagesAssumption
    <3> QED BY <3>1, <3>4, FlightsSeq, ZenonT(30) DEF follower, PagesTypeOK, Poll
  <2> QED BY <2>1, <2>2
<1>4. ASSUME PollAnswered PROVE PagesTypeOK'
  <2>1. PICK i \in DOMAIN flights, a \in Poll :
          flights' = [flights EXCEPT ![i] = a]
    BY <1>4 DEF PollAnswered, CheckTransaction, CheckerSays, Poll
  <2>2. flights \in Seq(Poll) /\ Len(flights) <= MaxFlights
    BY FlightsSeq DEF PagesTypeOK, Poll
  <2>3. flights' \in Seq(Poll) /\ Len(flights') <= MaxFlights
    BY <2>1, <2>2, LenProperties, ExceptSeq
  <2> QED BY <1>4, <2>3, FlightsSeq DEF PollAnswered, follower, PagesTypeOK, Poll
<1>5. ASSUME PollReturns \/ PollFails PROVE PagesTypeOK'
  <2>1. PICK i \in DOMAIN flights : flights' = Without(flights, i)
    BY <1>5 DEF PollReturns, PollFails
  <2>2. flights \in Seq(Poll) /\ Len(flights) <= MaxFlights
    BY FlightsSeq DEF PagesTypeOK, Poll
  <2>3. flights' \in Seq(Poll) /\ Len(flights') = Len(flights) - 1
    BY <2>1, <2>2, WithoutFacts
  <2>4. Len(flights') <= MaxFlights
    BY <2>2, <2>3, LenProperties, PagesAssumption
  <2>5. /\ polling' \in [on : BOOLEAN, late : BOOLEAN]
        /\ reported' \subseteq {"success", "failed", "timeout"}
        /\ going' \in {"", "processing", "success"}
        /\ UNCHANGED <<tab, post, follower, modal>>
    BY <1>5 DEF PollReturns, PollFails, Report, Decides, PagesTypeOK
  <2> QED BY <2>3, <2>4, <2>5, FlightsSeq DEF follower, PagesTypeOK, Poll
<1>6. ASSUME Arrive \/ Reload PROVE PagesTypeOK'
  BY <1>6, LoadTypes
<1>7. ASSUME PostArrives \/ PostFails \/ PostAgain PROVE PagesTypeOK'
  <2>1. /\ post' \in [at : {"off", "sending", "waiting", "over"}, left : 0..MaxPosts]
        /\ UNCHANGED <<tab, going, poller, follower, modal>>
    <3>1. CASE PostArrives \/ PostAgain
      BY <3>1 DEF PostArrives, PostAgain, PagesTypeOK
    <3>2. CASE PostFails
      <4>1. post.left \in 0..MaxPosts
        BY DEF PagesTypeOK
      <4>2. /\ post'.at \in {"waiting", "over"} /\ post'.left = post.left - 1
            /\ post' = [at |-> post'.at, left |-> post'.left]
            /\ UNCHANGED <<tab, going, poller, follower, modal>>
        BY <3>2 DEF PostFails
      <4>3. post.left > 0
        BY <3>2 DEF PostFails, PostMayFail
      <4> QED BY <4>1, <4>2, <4>3, PagesAssumption
    <3> QED BY <1>7, <3>1, <3>2
  <2> QED BY <2>1 DEF poller, follower, PagesTypeOK
<1>8. ASSUME Attach PROVE PagesTypeOK'
  BY <1>8 DEF Attach, poller, PagesTypeOK
<1>9. ASSUME Snapshot PROVE PagesTypeOK'
  <2>1. doc \in [code : MessageCode, order : {"payment", "complete"}]
    BY DEF ServerTypeOK
  <2>2. PICK item \in Codes : QueueStateChange(item)
    BY <1>9, <2>1 DEF Snapshot
  <2>3. /\ queue' \in Seq(Codes)
        /\ delay' \in {"idle", "fresh", "elapsed"}
        /\ going' \in {"", "processing", "success"}
        /\ text' \in MessageCode
    BY <2>2, QueueTypes
  <2>4. seen' \in [code : MessageCode, order : {"payment", "complete"}]
        /\ modal' \in BOOLEAN
        /\ UNCHANGED <<tab, poller, post, listening>>
    BY <1>9, <2>1 DEF Snapshot, PagesTypeOK
  <2> QED BY <2>3, <2>4 DEF poller, PagesTypeOK
<1>10. ASSUME DelayPasses PROVE PagesTypeOK'
  BY <1>10 DEF DelayPasses, poller, PagesTypeOK
<1>11. ASSUME NextCallback PROVE PagesTypeOK'
  <2>1. queue \in Seq(Codes)
    BY DEF PagesTypeOK
  <2>2. CASE queue = <<>>
    BY <1>11, <2>2 DEF NextCallback, poller, PagesTypeOK
  <2>3. CASE queue # <<>>
    <3>1. Head(queue) \in Codes /\ Tail(queue) \in Seq(Codes)
      BY <2>1, <2>3, HeadTailProperties
    <3>2. /\ Call(Head(queue)) /\ queue' = Tail(queue)
          /\ UNCHANGED <<tab, poller, post, listening, seen, modal>>
      BY <1>11, <2>3 DEF NextCallback
    <3>3. /\ delay' = "fresh"
          /\ going' \in {"", "processing", "success"}
          /\ text' \in MessageCode
      BY <3>1, <3>2, CallTypes
    <3> QED BY <3>1, <3>2, <3>3 DEF poller, PagesTypeOK
  <2> QED BY <2>2, <2>3
<1> QED
  BY <1>1, <1>2, <1>3, <1>4, <1>5, <1>6, <1>7, <1>8, <1>9, <1>10, <1>11
  DEF Next, CheckoutPage, ProcessingPage, vars

\* A post that may still fail has an attempt left for it.
LEMMA PostStep ==
  ASSUME TypeOK, PostMayFail, [Next]_vars PROVE PostMayFail'
<1> USE DEF PostMayFail
<1>1. ASSUME UNCHANGED post PROVE PostMayFail'
  BY <1>1
<1>2. ASSUME (ServerNext /\ UNCHANGED pages) \/ UNCHANGED vars PROVE UNCHANGED post
  BY <1>2 DEF pages, vars
<1>3. ASSUME CheckoutPage PROVE UNCHANGED post
  BY <1>3 DEF CheckoutPage, TimePasses, PollTick, PollAnswered, PollReturns, PollFails
<1>4. ASSUME Arrive \/ Reload PROVE PostMayFail'
  <2>1. MaxPosts > 0
    BY PagesAssumption
  <2> QED BY <1>4, <2>1, LoadCases DEF LoadSuccess
<1>5. ASSUME PostArrives \/ PostAgain PROVE PostMayFail'
  BY <1>5 DEF PostArrives, PostAgain, TypeOK, PagesTypeOK
<1>6. ASSUME PostFails PROVE PostMayFail'
  <2>1. post.left \in Nat
    <3>1. post.left \in 0..MaxPosts
      BY DEF TypeOK, PagesTypeOK
    <3> QED BY <3>1, PagesAssumption
  <2> QED BY <1>6, <2>1 DEF PostFails, AttemptsLeft
<1>7. ASSUME Attach \/ Snapshot \/ DelayPasses \/ NextCallback PROVE UNCHANGED post
  BY <1>7 DEF Attach, Snapshot, DelayPasses, NextCallback
<1> QED
  BY <1>1, <1>2, <1>3, <1>4, <1>5, <1>6, <1>7 DEF Next, ProcessingPage

\* The whole system is well typed.
THEOREM TypeCorrect == Spec => []TypeOK
<1>1. Init => TypeOK /\ PostMayFail
  <2>1. ASSUME Init PROVE PagesTypeOK
    <3>1. /\ <<>> \in Seq(Poll) /\ Len(<<>>) <= MaxFlights /\ MaxPosts \in 0..MaxPosts
          /\ <<>> \in Seq(MessageCode \cup {"leave"})
      BY EmptySeq, PagesAssumption
    <3>2. flights \in UNION {[1..n -> Poll] : n \in 0..MaxFlights}
      BY <2>1, <3>1, FlightsSeq DEF Init
    <3> QED BY <2>1, <3>1, <3>2 DEF Init, NoDoc, MessageCode, PagesTypeOK, Poll
  <2>2. Init => PostMayFail
    <3>1. Init => post = [at |-> "off", left |-> MaxPosts]
      BY DEF Init
    <3> QED BY <3>1 DEF PostMayFail
  <2> QED BY <2>1, <2>2, ServerTypeInit DEF TypeOK, Init
<1>2. TypeOK /\ PostMayFail /\ [Next]_vars => TypeOK' /\ PostMayFail'
  <2>1. TypeOK /\ PostMayFail /\ [Next]_vars => TypeOK'
    BY ServerCases, ServerTypeStep, PagesTypeStep DEF TypeOK
  <2> QED BY <2>1, PostStep
<1> QED BY <1>1, <1>2, PTL DEF Spec

-----------------------------------------------------------------------------
(* The polls.                                                              *)

\* Money that was taken stays taken, if only to be given back; a payment
\* that completed, and a bank that says so, have it.
LEMMA TakenStays ==
  ASSUME ServerTypeOK, Money, ServerStep, Taken PROVE Taken'
<1> USE DEF Taken
<1>1. ASSUME UNCHANGED bank PROVE Taken'
  BY <1>1
<1>2. ASSUME Request \/ StockChanges \/ Pushback PROVE UNCHANGED bank
  BY <1>2 DEF Request, StockChanges, Pushback
<1>3. ASSUME CustomerPays PROVE FALSE
  BY <1>3 DEF CustomerPays
<1>4. ASSUME Processor PROVE UNCHANGED bank
  BY <1>4 DEF Processor, ProcessorLoad, Announce, Start, Purchase, TellRetrying,
              TellFailed, TellOrder, CompleteOrder, TellCompleted, TellOrderFailed,
              EnqueueCancel, Tell
<1>5. ASSUME Canceler PROVE Taken'
  BY <1>5 DEF Canceler, CancelerLoad, Refund, SaveVoid
<1>6. ASSUME NEW j \in Jobs, Crash(j) \/ LockExpires(j) PROVE UNCHANGED bank
  BY <1>6 DEF Crash, LockExpires
<1> QED
  BY <1>1, <1>2, <1>3, <1>4, <1>5, <1>6 DEF ServerStep, ServerNext

\* Answers is kept: a poll is answered by the bank, and delivered as answered.
LEMMA AnswersStep ==
  ASSUME TypeOK, Money, Answers, [Next]_vars PROVE Answers'
<1> USE DEF Answers, SuccessReportTrue
<1>0. Taken => Taken'
  BY ServerCases, TakenStays DEF TypeOK
<1>1. ASSUME UNCHANGED <<flights, reported>> PROVE Answers'
  BY <1>0, <1>1 DEF Taken
<1>2. ASSUME (ServerNext /\ UNCHANGED pages) \/ UNCHANGED vars \/ TimePasses
      PROVE  Answers'
  BY <1>1, <1>2 DEF pages, poller, vars, TimePasses
<1>3. ASSUME PollTick PROVE Answers'
  <2>1. CASE UNCHANGED flights
    BY <1>0, <1>3, <2>1 DEF PollTick, Report, Taken
  <2>2. CASE flights' = Append(flights, "asked") /\ UNCHANGED reported
    <3>1. flights \in Seq(Poll) /\ "asked" \in Poll
      BY FlightsSeq DEF TypeOK, PagesTypeOK, Poll
    <3>2. \A i \in DOMAIN flights' :
            flights'[i] = "asked" \/ (i \in DOMAIN flights /\ flights'[i] = flights[i])
      BY <2>2, <3>1, QueueFacts
    <3> QED BY <1>0, <2>2, <3>2 DEF Taken
  <2> QED BY <1>3, <2>1, <2>2 DEF PollTick
<1>4. ASSUME PollAnswered PROVE Answers'
  <2>1. PICK i \in DOMAIN flights, a \in Poll :
          flights' = [flights EXCEPT ![i] = a] /\ (a = "success" => Taken)
    BY <1>4 DEF PollAnswered, CheckTransaction, CheckerSays, Poll, Money, Taken
  <2>2. DOMAIN flights' = DOMAIN flights
        /\ \A k \in DOMAIN flights : flights'[k] = a \/ flights'[k] = flights[k]
    BY <2>1
  <2>3. UNCHANGED reported
    BY <1>4 DEF PollAnswered
  <2> QED BY <1>0, <2>1, <2>2, <2>3 DEF Taken
<1>5. ASSUME PollReturns \/ PollFails PROVE Answers'
  <2>1. PICK i \in DOMAIN flights :
          /\ flights' = Without(flights, i)
          /\ reported' \subseteq reported \cup {flights[i]}
    BY <1>5 DEF PollReturns, PollFails, Report
  <2>2. flights \in Seq(Poll)
    BY FlightsSeq DEF TypeOK, PagesTypeOK, Poll
  <2>3. \A k \in DOMAIN flights' : \E m \in DOMAIN flights : flights'[k] = flights[m]
    BY <2>1, <2>2, WithoutFacts
  <2> QED BY <1>0, <2>1, <2>3 DEF Taken
<1>6. ASSUME Arrive \/ Reload PROVE Answers'
  <2>1. flights' = <<>> /\ reported' = {}
    BY <1>6, LoadCases DEF Unload
  <2>2. DOMAIN flights' = {}
    BY <2>1
  <2> QED BY <2>1, <2>2
<1>7. ASSUME ProcessingPage PROVE UNCHANGED <<flights, reported>>
  BY <1>7 DEF ProcessingPage, PostArrives, PostFails, PostAgain, Attach, Snapshot,
              DelayPasses, NextCallback, poller
<1> QED
  BY <1>1, <1>2, <1>3, <1>4, <1>5, <1>6, <1>7 DEF Next, CheckoutPage

-----------------------------------------------------------------------------
(* The news of the order.                                                  *)

\* A placed order stays placed, and the server only speaks of it then.
LEMMA PlacedStays ==
  ASSUME ServerTypeOK, ServerStep
  PROVE  /\ Placed => Placed'
         /\ (pc["processor"] = "tell_completed" => Placed) /\ (TellsOfOrder(doc) => Placed)
              => /\ pc'["processor"] = "tell_completed" => Placed'
                 /\ TellsOfOrder(doc)' => Placed'
<1> USE DEF Placed, TellsOfOrder, OrderCompleted
<1> DEFINE Told ==
      /\ pc["processor"] = "tell_completed" => Placed
      /\ TellsOfOrder(doc) => Placed
<1>j. pc \in [Jobs -> Label] /\ "processor" \in Jobs /\ "canceler" \in Jobs
      /\ "processor" # "canceler"
  BY DEF ServerTypeOK, Jobs
<1>1. ASSUME UNCHANGED <<order, doc>>,
             pc'["processor"] = "tell_completed" => pc["processor"] = "tell_completed"
      PROVE  (Placed => Placed') /\ (Told => Told')
  BY <1>1
<1>2. ASSUME Request \/ Pushback PROVE (Placed => Placed') /\ (Told => Told')
  BY <1>1, <1>2, <1>j DEF Request, Pushback, ProcessPayment, Enqueue, jobs
<1>3. ASSUME CustomerPays \/ StockChanges PROVE (Placed => Placed') /\ (Told => Told')
  BY <1>1, <1>3 DEF CustomerPays, StockChanges, jobs
<1>4. ASSUME NEW at, NEW code, NEW next, next # "tell_completed", Tell(at, code, next),
             code = "order_is_completed" => at = "tell_completed"
      PROVE  (Placed => Placed') /\ (Told => Told')
  BY <1>4, <1>j DEF Tell, Notify, Goto, Step, Raise
<1>5. ASSUME Announce \/ TellFailed \/ TellOrder \/ TellCompleted \/ TellOrderFailed
      PROVE  (Placed => Placed') /\ (Told => Told')
  BY <1>4, <1>5 DEF Announce, TellFailed, TellOrder, TellCompleted, TellOrderFailed
<1>6. ASSUME TellRetrying PROVE (Placed => Placed') /\ (Told => Told')
  BY <1>6, <1>j DEF TellRetrying, Notify, Raise
<1>7. ASSUME ProcessorLoad \/ Start \/ Purchase \/ EnqueueCancel
      PROVE  (Placed => Placed') /\ (Told => Told')
  BY <1>1, <1>7, <1>j DEF ProcessorLoad, Start, Purchase, EnqueueCancel, Step, Finish
<1>8. ASSUME CompleteOrder PROVE (Placed => Placed') /\ (Told => Told')
  BY <1>8, <1>j DEF CompleteOrder, AfterCompleter, Goto, Step
<1>9. ASSUME Canceler PROVE (Placed => Placed') /\ (Told => Told')
  BY <1>1, <1>9, <1>j DEF Canceler, CancelerLoad, Refund, SaveVoid, Goto, Step, Finish, Raise
<1>10. ASSUME NEW j \in Jobs, Crash(j) \/ LockExpires(j)
       PROVE  (Placed => Placed') /\ (Told => Told')
  BY <1>1, <1>10, <1>j DEF Crash, LockExpires, Step, Finish
<1>11. (Placed => Placed') /\ (Told => Told')
  BY <1>2, <1>3, <1>5, <1>6, <1>7, <1>8, <1>9, <1>10
  DEF ServerStep, ServerNext, Processor
<1> QED BY <1>11

\* The part of News that is the page's.
PageNews ==
  /\ TellsOfOrder(seen) => Placed
  /\ \A i \in DOMAIN queue : queue[i] = "leave" => Placed
  /\ going = "success" => Placed
  /\ SuccessNeverDenied
  /\ ModalClosesOnCompletion

\* A callback for a placed order only sends the customer to its page.
LEMMA CallNews ==
  ASSUME PageNews, Placed => Placed', NEW item, item = "leave" => Placed, Call(item)
  PROVE  going' = "success" => Placed'
BY DEF Call, PageNews

\* The page's part of News is kept by the steps of the pages.
LEMMA PageNewsStep ==
  ASSUME TypeOK, TellsOfOrder(doc) => Placed, PageNews, Placed => Placed', [Next]_vars
  PROVE  PageNews'
<1> USE DEF PageNews, SuccessNeverDenied, ModalClosesOnCompletion
<1> DEFINE Codes == MessageCode \cup {"leave"}
<1>q. queue \in Seq(Codes)
  BY DEF TypeOK, PagesTypeOK
<1>1. ASSUME UNCHANGED <<tab, seen, queue, modal>>, going' = "success" => going = "success"
      PROVE  PageNews'
  BY <1>1 DEF TellsOfOrder, OrderCompleted
<1>2. ASSUME (ServerNext /\ UNCHANGED pages) \/ UNCHANGED vars \/ CheckoutPage
      PROVE  PageNews'
  BY <1>1, <1>2 DEF pages, follower, vars, CheckoutPage, TimePasses, PollTick,
                    PollAnswered, PollReturns, PollFails, Report
<1>3. ASSUME Arrive \/ Reload PROVE PageNews'
  <2>1. seen' = NoDoc /\ queue' = <<>> /\ going' = "" /\ UNCHANGED order
    BY <1>3, LoadCases DEF Unload, serverVars
  <2>2. DOMAIN queue' = {}
    BY <2>1, EmptyDomain
  <2>4. ~ TellsOfOrder(seen')
    BY <2>1 DEF NoDoc, TellsOfOrder, OrderCompleted
  <2>3. tab' # "denied" /\ (modal' => modal \/ Placed)
    BY <1>3, LoadCases DEF LoadSuccess
  <2> QED BY <2>1, <2>2, <2>3, <2>4 DEF Placed
<1>4. ASSUME PostArrives \/ PostFails \/ PostAgain \/ Attach \/ DelayPasses
      PROVE  PageNews'
  BY <1>1, <1>4 DEF PostArrives, PostFails, PostAgain, Attach, DelayPasses, follower
<1>5. ASSUME Snapshot PROVE PageNews'
  <2>1. PICK item \in Codes :
          QueueStateChange(item) /\ (item = "leave" => OrderCompleted(doc))
    BY <1>5 DEF Snapshot, TypeOK, ServerTypeOK, MessageCode
  <2>2. item = "leave" => Placed
    BY <2>1 DEF TellsOfOrder
  <2>3. /\ \A k \in DOMAIN Append(queue, item) : Append(queue, item)[k] = "leave" => Placed
        /\ Append(queue, item) \in Seq(Codes) /\ Append(queue, item) # <<>>
    <3>1. /\ Append(queue, item) \in Seq(Codes) /\ Append(queue, item) # <<>>
          /\ \A k \in DOMAIN Append(queue, item) :
               \/ Append(queue, item)[k] = item
               \/ k \in DOMAIN queue /\ Append(queue, item)[k] = queue[k]
      BY <1>q, QueueFacts
    <3> QED BY <2>2, <3>1
  <2>4. /\ IF QueueFree THEN Call(Head(Append(queue, item)))
                              /\ queue' = Tail(Append(queue, item))
                        ELSE queue' = Append(queue, item) /\ UNCHANGED going
    BY <2>1 DEF QueueStateChange, Push
  <2>5. /\ \A k \in DOMAIN queue' : queue'[k] = "leave" => Placed
        /\ going' = "success" => Placed'
    <3>1. CASE QueueFree
      <4>1. /\ Head(Append(queue, item)) = "leave" => Placed
            /\ \A k \in DOMAIN Tail(Append(queue, item)) :
                 Tail(Append(queue, item))[k] = "leave" => Placed
        BY <2>3, QueueFacts
      <4> QED BY <2>4, <3>1, <4>1, CallNews
    <3>2. CASE ~ QueueFree
      BY <2>3, <2>4, <3>2
    <3> QED BY <3>1, <3>2
  <2>6. /\ TellsOfOrder(seen)' => Placed
        /\ modal' => modal \/ TellsOfOrder(doc)
        /\ UNCHANGED tab
    BY <1>5 DEF Snapshot, TellsOfOrder, OrderCompleted
  <2> QED BY <2>5, <2>6
<1>6. ASSUME NextCallback PROVE PageNews'
  <2>1. UNCHANGED <<tab, seen, modal>>
    BY <1>6 DEF NextCallback
  <2>2. CASE queue = <<>>
    BY <1>1, <1>6, <2>2 DEF NextCallback
  <2>3. CASE queue # <<>>
    <3>1. Call(Head(queue)) /\ queue' = Tail(queue)
      BY <1>6, <2>3 DEF NextCallback
    <3>2. /\ Head(queue) = "leave" => Placed
          /\ \A k \in DOMAIN queue' : queue'[k] = "leave" => Placed
      BY <1>q, <2>3, <3>1, QueueFacts
    <3>3. going' = "success" => Placed'
      BY <3>1, <3>2, CallNews
    <3> QED BY <2>1, <3>2, <3>3 DEF TellsOfOrder, OrderCompleted
  <2> QED BY <2>2, <2>3
<1> QED
  BY <1>2, <1>3, <1>4, <1>5, <1>6 DEF Next, ProcessingPage

\* News is kept, by the jobs that write the document and the page that reads it.
LEMMA NewsStep ==
  ASSUME TypeOK, News, [Next]_vars PROVE News'
<1>1. /\ Placed => Placed'
      /\ pc'["processor"] = "tell_completed" => Placed'
      /\ TellsOfOrder(doc)' => Placed'
  BY ServerCases, PlacedStays DEF TypeOK, News
<1>2. PageNews /\ (TellsOfOrder(doc) => Placed)
  BY DEF News, PageNews
<1>3. PageNews'
  BY <1>1, <1>2, PageNewsStep
<1> QED BY <1>1, <1>3 DEF News, PageNews

-----------------------------------------------------------------------------
(* The processing page.                                                    *)

\* A snapshot puts what it asks for last.
LEMMA SnapshotInOrder ==
  ASSUME TypeOK, InOrder, Snapshot PROVE InOrder'
<1> DEFINE Codes == MessageCode \cup {"leave"}
           item  == Wanted(doc)
           next  == Append(queue, item)
<1>1. queue \in Seq(Codes)
  BY DEF TypeOK, PagesTypeOK
<1>2. item \in Codes
  BY DEF TypeOK, ServerTypeOK, Wanted
<1>3. /\ tab = "processing" /\ tab' = tab /\ seen' = doc
      /\ QueueStateChange(item)
  BY DEF Snapshot, Wanted
<1>4. Wanted(seen)' = item
  BY <1>3 DEF Wanted, OrderCompleted
<1>5. /\ next # <<>> /\ next[Len(next)] = item
      /\ queue = <<>> => Head(next) = item /\ Tail(next) = <<>>
  BY <1>1, <1>2, QueueFacts
<1>6. IF delay = "idle" THEN Call(Head(next)) /\ queue' = Tail(next)
                        ELSE queue' = next /\ UNCHANGED delay
  BY <1>3 DEF QueueStateChange, Push, QueueFree
<1> HIDE DEF item, next
<1>7. CASE delay = "idle"
  <2>1. queue = <<>>
    BY <1>3, <1>7 DEF InOrder
  <2>2. Call(item) /\ queue' = <<>>
    BY <1>5, <1>6, <1>7, <2>1
  <2>3. delay' = "fresh" /\ (going' = "" => text' = item)
    BY <2>2 DEF Call
  <2> QED BY <1>4, <2>2, <2>3 DEF InOrder
<1>8. CASE delay # "idle"
  BY <1>4, <1>5, <1>6, <1>8 DEF InOrder
<1> QED BY <1>7, <1>8

\* A callback that leaves the queue leaves the last one there, or is it.
LEMMA CallbackInOrder ==
  ASSUME TypeOK, InOrder, NextCallback PROVE InOrder'
<1>1. queue \in Seq(MessageCode \cup {"leave"})
  BY DEF TypeOK, PagesTypeOK
<1>2. tab = "processing" /\ UNCHANGED <<tab, seen>> /\ delay = "elapsed"
  BY DEF NextCallback
<1>3. Wanted(seen)' = Wanted(seen)
  BY <1>2 DEF Wanted, OrderCompleted
<1>4. CASE queue = <<>>
  BY <1>2, <1>3, <1>4 DEF NextCallback, InOrder
<1>5. CASE queue # <<>>
  <2>1. Call(Head(queue)) /\ queue' = Tail(queue)
    BY <1>5 DEF NextCallback
  <2>2. IF Tail(queue) = <<>> THEN Head(queue) = queue[Len(queue)]
        ELSE Tail(queue)[Len(Tail(queue))] = queue[Len(queue)]
    BY <1>1, <1>5, QueueFacts
  <2>3. queue[Len(queue)] = Wanted(seen)
    BY <1>2, <1>5 DEF InOrder
  <2>4. /\ delay' = "fresh"
        /\ going' = "" => text' = Head(queue)
    BY <2>1 DEF Call
  <2> QED BY <1>3, <2>1, <2>2, <2>3, <2>4 DEF InOrder
<1> QED BY <1>4, <1>5

\* InOrder is kept: a snapshot's callback goes to the end of the queue.
LEMMA InOrderStep ==
  ASSUME TypeOK, InOrder, [Next]_vars PROVE InOrder'
<1>1. ASSUME UNCHANGED <<tab, going, seen, queue, delay, text>> PROVE InOrder'
  BY <1>1 DEF InOrder, Wanted, OrderCompleted
<1>2. ASSUME (ServerNext /\ UNCHANGED pages) \/ UNCHANGED vars \/ PostArrives
             \/ PostFails \/ PostAgain \/ Attach
      PROVE  UNCHANGED <<tab, going, seen, queue, delay, text>>
  BY <1>2 DEF pages, follower, vars, PostArrives, PostFails, PostAgain, Attach
<1>3. ASSUME CheckoutPage PROVE InOrder'
  BY <1>3 DEF CheckoutPage, TimePasses, PollTick, PollAnswered, PollReturns, PollFails,
              InOrder
<1>4. ASSUME Arrive \/ Reload PROVE InOrder'
  <2>1. seen' = NoDoc /\ queue' = <<>> /\ text' = "none"
    BY <1>4, LoadCases DEF Unload
  <2>2. Wanted(seen') = "none"
    BY <2>1 DEF NoDoc, Wanted, OrderCompleted
  <2> QED BY <2>1, <2>2 DEF InOrder
<1>5. ASSUME DelayPasses PROVE InOrder'
  BY <1>5 DEF DelayPasses, InOrder, Wanted, OrderCompleted
<1> QED
  BY <1>1, <1>2, <1>3, <1>4, <1>5, SnapshotInOrder, CallbackInOrder
  DEF Next, ProcessingPage

\* The text only changes on a page that stays, when its delay has passed.
LEMMA TextStep ==
  ASSUME [Next]_vars, text' # text, text' # "none" PROVE delay # "fresh"
<1>1. ASSUME (ServerNext /\ UNCHANGED pages) \/ UNCHANGED vars \/ CheckoutPage
             \/ PostArrives \/ PostFails \/ PostAgain \/ Attach \/ DelayPasses
      PROVE  text' = text
  BY <1>1 DEF pages, follower, vars, CheckoutPage, TimePasses, PollTick, PollAnswered,
              PollReturns, PollFails, PostArrives, PostFails, PostAgain, Attach,
              DelayPasses
<1>2. ASSUME Arrive \/ Reload PROVE text' = "none"
  BY <1>2, LoadCases DEF Unload
<1>3. ASSUME Snapshot PROVE delay = "idle" \/ text' = text
  BY <1>3 DEF Snapshot, QueueStateChange, QueueFree
<1>4. ASSUME NextCallback PROVE delay = "elapsed"
  BY <1>4 DEF NextCallback
<1> QED BY <1>1, <1>2, <1>3, <1>4 DEF Next, ProcessingPage

-----------------------------------------------------------------------------
(* Theorems.                                                               *)

\* A poll's good answer is the bank's, whenever it was asked.
THEOREM AnswersCorrect == Spec => []Answers
<1>1. Init => Answers
  <2>1. Init => flights = <<>> /\ reported = {}
    BY DEF Init
  <2> QED BY <2>1 DEF Answers, SuccessReportTrue
<1>2. TypeOK /\ Money /\ Answers /\ [Next]_vars => Answers'
  BY AnswersStep
<1> QED BY <1>1, <1>2, TypeCorrect, MoneyCorrect, PTL DEF Spec

\* The checkout page never reports a success that the bank does not know of.
THEOREM ReportCorrect == Spec => []SuccessReportTrue
<1>1. Answers => SuccessReportTrue
  BY DEF Answers
<1> QED BY <1>1, AnswersCorrect, PTL

\* Whoever speaks of a completed order does so after it was placed.
THEOREM NewsCorrect == Spec => []News
<1>1. Init => News
  <2>1. ASSUME Init PROVE pc["processor"] = "idle"
    BY <2>1 DEF Init, ServerInit, Jobs
  <2>2. ASSUME Init PROVE /\ doc = NoDoc /\ seen = NoDoc /\ going = ""
                          /\ tab = "checkout" /\ queue = <<>>
    BY <2>2 DEF Init, ServerInit, NoDoc
  <2>3. ASSUME Init PROVE ~ modal
    BY <2>3 DEF Init
  <2>4. ~ TellsOfOrder(NoDoc)
    BY DEF NoDoc, TellsOfOrder, OrderCompleted
  <2> QED BY <2>1, <2>2, <2>3, <2>4, EmptyDomain
          DEF News, SuccessNeverDenied, ModalClosesOnCompletion
<1>2. TypeOK /\ News /\ [Next]_vars => News'
  BY NewsStep
<1> QED BY <1>1, <1>2, TypeCorrect, PTL DEF Spec

\* The success page is never refused to a customer the other pages sent on.
THEOREM SuccessCorrect == Spec => []SuccessNeverDenied
<1>1. News => SuccessNeverDenied
  BY DEF News
<1> QED BY <1>1, NewsCorrect, PTL

\* The embedding page closes its modal for placed orders only.
THEOREM ModalCorrect == Spec => []ModalClosesOnCompletion
<1>1. News => ModalClosesOnCompletion
  BY DEF News
<1> QED BY <1>1, NewsCorrect, PTL

\* The processing page is on its way to what the last snapshot asked for.
THEOREM InOrderCorrect == Spec => []InOrder
<1>1. Init => InOrder
  BY DEF Init, InOrder
<1>2. TypeOK /\ InOrder /\ [Next]_vars => InOrder'
  BY InOrderStep
<1> QED BY <1>1, <1>2, TypeCorrect, PTL DEF Spec

\* A queue at rest shows what the listener saw last.
THEOREM QuietCorrect == Spec => []QuietPageIsCurrent
<1>1. TypeOK /\ InOrder => QuietPageIsCurrent
  <2> SUFFICES ASSUME TypeOK, InOrder, tab = "processing", going = "", delay = "idle"
               PROVE  queue = <<>> /\ text = seen.code /\ seen.order = "payment"
    BY DEF QuietPageIsCurrent
  <2>1. queue = <<>> /\ text = Wanted(seen)
    BY DEF InOrder
  <2>2. /\ text \in MessageCode
        /\ seen \in [code : MessageCode, order : {"payment", "complete"}]
    BY DEF TypeOK, PagesTypeOK
  <2>3. "leave" \notin MessageCode
    BY DEF MessageCode
  <2> QED BY <2>1, <2>2, <2>3 DEF Wanted, OrderCompleted
<1> QED BY <1>1, TypeCorrect, InOrderCorrect, PTL

\* Each message stays for its minimum delay, whatever arrives meanwhile.
THEOREM DelayCorrect == Spec => MessagesHaveTheirTime
<1>1. [Next]_vars =>
        [text' # text /\ going' = "" /\ tab' = tab /\ text' # "none"
           => delay # "fresh"]_vars
  BY TextStep
<1> QED BY <1>1, PTL DEF Spec, MessagesHaveTheirTime
=============================================================================
