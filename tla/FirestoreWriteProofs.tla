------------------------ MODULE FirestoreWriteProofs ------------------------
(***************************************************************************)
(* Proofs about the Firestore client's write side: every answer has its    *)
(* request, in the pipeline and in the mutation queue, so that no task of  *)
(* the write stream throws and no acknowledged write is lost.              *)
(***************************************************************************)
EXTENDS FirestoreStreamProofs

-----------------------------------------------------------------------------
(* Invariants of the write side.                                           *)

\* The answers and refusals that will be heard.
Answers(c)  == {i \in Live(c, "write") : c.queue[i].kind = "message"}
Refusals(c) ==
  {i \in Live(c, "write") : c.queue[i].kind = "close" /\ c.queue[i].arg = "permanent"}
Due(c) == Answers(c) \cup Refusals(c)

\* One request at a time is out or answered: the handshake first, then the
\* write at the head of the pipeline.
Exchange(c) ==
  LET out  == c.chan["write"].out
      seen == c.stream["write"].seen
  IN
  /\ out = <<>> \/ (Len(out) = 1 /\ Due(c) = {})
  /\ \A i, j \in Due(c) : i = j
  /\ out # <<>> => out[1].kind = IF seen THEN "write" ELSE "hello"
  /\ \A i \in Answers(c) : c.queue[i].arg.kind = IF seen THEN "result" ELSE "token"
  /\ ~seen => Refusals(c) = {}
  /\ seen /\ (out # <<>> \/ Due(c) # {}) => c.pipeline # <<>>
  /\ c.stream["write"].state \in {"starting", "backoff"} => ~seen

WriteCore(c) == StreamInv(c, "write") /\ Exchange(c)

\* Between two tasks the pipeline holds the mutation queue, and its stream
\* is on its way.
PipelineInv(c) ==
  /\ c.pipeline = c.batches
  /\ c.batches # <<>> => c.wrote = "pending" /\ IsStarted(c, "write")

\* The page writes once.
SetDocs(c) == {i \in 1..Len(c.queue) : c.queue[i].kind = "setDoc"}

WriteOnce(c) ==
  /\ SetDocs(c) # {} => c.batches = <<>> /\ c.wrote = "pending"
  /\ \A i, j \in SetDocs(c) : i = j

WriteInv(c) == WriteCore(c) /\ PipelineInv(c) /\ WriteOnce(c)

\* A step of the write side that leaves the cached document alone.
PipeStep(c, d) == WriteStep(c, d) /\ d.doc = c.doc /\ d.failed = c.failed

\* Steps of the write pipeline compose.
LEMMA PipeStepTrans ==
  ASSUME NEW c \in Client, NEW d, NEW e, PipeStep(c, d), PipeStep(d, e)
  PROVE  PipeStep(c, e)
BY WriteStepTrans DEF PipeStep

\* A change of the write stream is a step of the pipeline.
LEMMA StreamIsPipeStep ==
  ASSUME NEW c \in Client, NEW d, StreamStep(c, d, "write")
  PROVE  PipeStep(c, d)
BY StreamStepIs DEF PipeStep, StreamStep

\* What will be heard of a quieter queue was there before.
LEMMA DueShrinks ==
  ASSUME NEW c \in Client, NEW d \in Client, Quieter(c.queue, d.queue),
         d.stream["write"].closes = c.stream["write"].closes
  PROVE  /\ Answers(d) \subseteq Answers(c) /\ Refusals(d) \subseteq Refusals(c)
         /\ SetDocs(d) \subseteq SetDocs(c)
         /\ \A i \in Live(d, "write") : i \in Live(c, "write") /\ d.queue[i] = c.queue[i]
<1>1. Len(c.queue) \in Nat /\ Len(d.queue) \in Nat
  BY DEF Client
<1>2. \A i \in 1..Len(d.queue) : i \in 1..Len(c.queue) /\
        (d.queue[i] = c.queue[i] \/ (d.queue[i].kind = "cancelled" /\ d.queue[i].on = "page"))
  <2>1. ASSUME NEW i \in 1..Len(d.queue), d.queue[i].kind = "cancelled"
        PROVE  d.queue[i].on = "page"
    <3>1. d.queue[i] \in TaskSet
      BY DEF Client
    <3> QED BY <2>1, <3>1 DEF TaskSet, PageTask, StreamTask, TimerTask
  <2> QED BY <1>1, <2>1 DEF Quieter
<1>3. \A i \in Live(d, "write") : i \in Live(c, "write") /\ d.queue[i] = c.queue[i]
  BY <1>2 DEF Live
<1>4. SetDocs(d) \subseteq SetDocs(c)
  BY <1>2 DEF SetDocs
<1> QED BY <1>3, <1>4 DEF Answers, Refusals

\* A step that keeps stream, channel and pipeline keeps the exchange.
LEMMA ExchangeKept ==
  ASSUME NEW c \in Client, NEW d \in Client, Quieter(c.queue, d.queue), Exchange(c),
         d.stream["write"] = c.stream["write"], d.chan["write"] = c.chan["write"],
         c.pipeline # <<>> => d.pipeline # <<>>
  PROVE  Exchange(d)
<1>1. /\ Answers(d) \subseteq Answers(c) /\ Refusals(d) \subseteq Refusals(c)
      /\ \A i \in Live(d, "write") : d.queue[i] = c.queue[i]
  BY DueShrinks
<1>2. Due(d) \subseteq Due(c) /\ Answers(d) \subseteq Live(d, "write")
  BY <1>1 DEF Due, Answers
<1> QED BY <1>1, <1>2 DEF Exchange

\* Nothing is under way of a closed stream.
LEMMA ClosedCore ==
  ASSUME NEW c \in Client, Closed(c, "write")
  PROVE  WriteCore(c)
<1>1. Live(c, "write") = {} /\ c.chan["write"].out = <<>>
  BY ChannelTypes DEF Closed, StreamInv
<1>2. Due(c) = {} /\ Answers(c) = {} /\ Refusals(c) = {}
  BY <1>1 DEF Due, Answers, Refusals
<1> QED BY <1>1, <1>2 DEF WriteCore, Exchange, Closed

-----------------------------------------------------------------------------
(* The pipeline.                                                           *)

\* Sequences of no write or one.
LEMMA FewCases ==
  /\ <<>> \in Few /\ <<1>> \in Few /\ <<1>> # <<>> /\ Len(<<>>) = 0 /\ Len(<<1>>) = 1
  /\ Head(<<1>>) = 1 /\ Tail(<<1>>) = <<>>
  /\ <<>> \o <<>> = <<>> /\ <<1>> \o <<>> = <<1>> /\ <<>> \o <<1>> = <<1>>
  /\ Append(<<>>, 1) = <<1>>
BY DEF Few

WriteRequest == [kind |-> "write", version |-> 0]
Requests(batches) == IF batches = <<>> THEN <<>> ELSE <<WriteRequest>>

\* The requests of the write stream have their type.
LEMMA RequestsAre ==
  ASSUME NEW batches \in Few
  PROVE  /\ [i \in DOMAIN batches |-> [kind |-> "write", version |-> 0]] = Requests(batches)
         /\ Requests(batches) \in Seq(Request)
<1>1. WriteRequest \in Request
  BY DEF WriteRequest, Request
<1>2. CASE batches = <<>>
  BY <1>2, EmptySeq DEF Requests
<1>3. CASE batches = <<1>>
  <2>1. DOMAIN batches = 1..1 /\ DOMAIN <<WriteRequest>> = 1..1
    BY <1>3
  <2>2. [i \in 1..1 |-> [kind |-> "write", version |-> 0]] = <<WriteRequest>>
    BY DEF WriteRequest
  <2>3. Requests(batches) = <<WriteRequest>>
    BY <1>3, FewCases DEF Requests
  <2> QED BY <1>1, <2>1, <2>2, <2>3
<1> QED BY <1>2, <1>3 DEF Few

\* The batches that are not in the pipeline yet.
LEMMA NextBatchesAre ==
  ASSUME NEW c \in Client, c.pipeline \in {<<>>, c.batches}
  PROVE  /\ NextBatches(c) = IF c.pipeline = <<>> THEN c.batches ELSE <<>>
         /\ c.pipeline \o NextBatches(c) = c.batches
<1> DEFINE last == IF c.pipeline = <<>> THEN 0 ELSE c.pipeline[Len(c.pipeline)]
           P(i) == \A j \in DOMAIN c.batches : j < i <=> c.batches[j] <= last
           first == CHOOSE i \in 1..(Len(c.batches) + 1) : P(i)
<1>1. c.batches \in Few /\ c.pipeline \in Few
  BY DEF Client
<1>2. NextBatches(c) = SubSeq(c.batches, first, Len(c.batches))
  BY DEF NextBatches
<1>3. CASE c.batches = <<>>
  <2>1. DOMAIN c.batches = {} /\ Len(c.batches) = 0
    BY <1>3
  <2>2. first \in 1..1
    <3>1. P(1) /\ 1 \in 1..(Len(c.batches) + 1)
      BY <2>1
    <3>2. first \in 1..(Len(c.batches) + 1)
      BY <3>1
    <3> QED BY <2>1, <3>2
  <2>3. NextBatches(c) = <<>>
    BY <1>2, <1>3, <2>1, <2>2
  <2> QED BY <1>3, <2>3, FewCases
<1>4. CASE c.batches = <<1>>
  <2>1. DOMAIN c.batches = {1} /\ Len(c.batches) = 1 /\ c.batches[1] = 1
    BY <1>4
  <2>2. CASE c.pipeline = <<>>
    <3>1. last = 0
      BY <2>2
    <3>2. P(1) /\ ~P(2) /\ 1..(Len(c.batches) + 1) = {1, 2}
      BY <2>1, <3>1
    <3>3. first = 1
      BY <3>2
    <3>4. NextBatches(c) = SubSeq(<<1>>, 1, 1)
      BY <1>2, <1>4, <2>1, <3>3
    <3>5. NextBatches(c) = <<1>>
      <4>1. <<1>> \in Seq({1}) /\ Len(<<1>>) = 1
        OBVIOUS
      <4> QED BY <3>4, <4>1, SubSeqFull
    <3> QED BY <1>4, <2>2, <3>5, FewCases
  <2>3. CASE c.pipeline = <<1>>
    <3>1. last = 1
      BY <2>3, FewCases
    <3>2. ~P(1) /\ P(2) /\ 1..(Len(c.batches) + 1) = {1, 2}
      BY <2>1, <3>1
    <3>3. first = 2
      BY <3>2
    <3>4. NextBatches(c) = SubSeq(c.batches, 2, 1)
      BY <1>2, <2>1, <3>3
    <3>5. NextBatches(c) = <<>>
      <4>1. 2 \in Int /\ 1 \in Int /\ 2 > 1
        OBVIOUS
      <4> QED BY <3>4, <4>1, SubSeqEmpty
    <3> QED BY <1>4, <2>3, <3>5, FewCases
  <2> QED BY <1>1, <2>2, <2>3 DEF Few
<1> QED BY <1>1, <1>3, <1>4 DEF Few

\* Writes sent after the handshake, for a pipeline that holds them.
LEMMA SendWritesIs ==
  ASSUME NEW c \in Client, WriteCore(c), IsOpen(c, "write"), c.stream["write"].seen,
         NEW batches \in Few, batches # <<>> => c.pipeline # <<>>,
         batches # <<>> => c.chan["write"].out = <<>> /\ Due(c) = {}
  PROVE  LET d == SendWrites(c, batches) IN
         /\ StreamStep(c, d, "write") /\ WriteCore(d) /\ d.stream = c.stream
         /\ d.chan["write"].gen = c.chan["write"].gen
<1> DEFINE d == SendAll(c, "write", Requests(batches))
<1>1. "write" \in Streams /\ Requests(batches) \in Seq(Request)
  BY RequestsAre DEF Streams
<1>2. /\ StreamStep(c, d, "write") /\ StreamInv(d, "write") /\ d.stream = c.stream
      /\ d.chan["write"].gen = c.chan["write"].gen
      /\ d.chan["write"].out =
           IF c.chan["write"].gen = 0 THEN c.chan["write"].out
           ELSE c.chan["write"].out \o Requests(batches)
  BY <1>1, SendAllIs DEF WriteCore
<1>3. SendWrites(c, batches) = d
  BY RequestsAre DEF SendWrites
<1> HIDE DEF d
<1>4. d \in Client /\ Quieter(c.queue, d.queue) /\ d.pipeline = c.pipeline
  BY <1>2 DEF StreamStep
<1>5. /\ Answers(d) \subseteq Answers(c) /\ Refusals(d) \subseteq Refusals(c)
      /\ \A i \in Live(d, "write") : d.queue[i] = c.queue[i]
  BY <1>2, <1>4, DueShrinks
<1>6. Due(d) \subseteq Due(c) /\ Answers(d) \subseteq Live(d, "write")
  BY <1>5 DEF Due, Answers
<1>7. c.chan["write"].out \in Seq(Request)
  BY <1>1 DEF Client, ChannelSet
<1>8. \/ d.chan["write"].out = c.chan["write"].out
      \/ batches # <<>> /\ d.chan["write"].out = <<WriteRequest>>
  <2>1. CASE batches = <<>> \/ c.chan["write"].gen = 0
    BY <1>2, <1>7, <2>1, ConcatEmptySeq DEF Requests
  <2>2. CASE batches # <<>> /\ c.chan["write"].gen # 0
    <3>1. <<>> \o <<WriteRequest>> = <<WriteRequest>>
      OBVIOUS
    <3> QED BY <1>2, <2>2, <3>1 DEF Requests
  <2> QED BY <2>1, <2>2
<1>9. CASE d.chan["write"].out = c.chan["write"].out
  BY <1>2, <1>3, <1>4, <1>5, <1>6, <1>9 DEF WriteCore, Exchange
<1>10. CASE batches # <<>> /\ d.chan["write"].out = <<WriteRequest>>
  <2>1. Len(d.chan["write"].out) = 1 /\ d.chan["write"].out[1].kind = "write"
        /\ d.chan["write"].out # <<>>
    BY <1>10 DEF WriteRequest
  <2>2. Exchange(d)
    BY <1>2, <1>4, <1>5, <1>6, <1>10, <2>1 DEF WriteCore, Exchange
  <2> QED BY <1>2, <1>3, <2>2 DEF WriteCore
<1> QED BY <1>8, <1>9, <1>10

\* startWriteStream.
LEMMA StartWriteIs ==
  ASSUME NEW c \in Client, StreamInv(c, "write"), ~IsStarted(c, "write")
  PROVE  LET d == Start(c, "write") IN
         /\ StreamStep(c, d, "write") /\ WriteCore(d) /\ IsStarted(d, "write")
<1> DEFINE d == Start(c, "write")
<1>1. "write" \in Streams
  BY DEF Streams
<1>2. /\ StreamStep(c, d, "write") /\ StreamInv(d, "write")
      /\ d.stream["write"].state \in {"starting", "backoff"}
      /\ d.stream["write"].seen = FALSE /\ d.chan = c.chan
  BY <1>1, StartIs
<1> HIDE DEF d
<1>3. c.chan["write"].out = <<>>
  BY <1>1 DEF StreamInv, IsStarted, IsOpen
<1>4. \A i \in Live(d, "write") : d.queue[i].kind = "open"
  BY <1>2 DEF StreamInv
<1>5. Due(d) = {} /\ Answers(d) = {} /\ Refusals(d) = {}
  BY <1>4 DEF Due, Answers, Refusals
<1>6. Exchange(d)
  BY <1>2, <1>3, <1>5 DEF Exchange
<1> QED BY <1>2, <1>6 DEF WriteCore, IsStarted, d

\* The pipeline takes what the mutation queue holds, and its stream starts.
LEMMA FillPipelineIs ==
  ASSUME NEW c \in Client, WriteCore(c), ~c.blocked, c.pipeline \in {<<>>, c.batches}
  PROVE  LET d == FillPipeline(c) IN
         /\ PipeStep(c, d) /\ WriteCore(d)
         /\ d.pipeline = c.batches /\ d.batches = c.batches /\ d.wrote = c.wrote
         /\ c.batches # <<>> => IsStarted(d, "write")
<1> DEFINE more == NextBatches(c)
           full == [c EXCEPT !.pipeline = @ \o more]
           sent == IF IsOpen(c, "write") /\ c.stream["write"].seen
                     THEN SendWrites(full, more) ELSE full
           idle == IF full.pipeline = <<>> THEN MarkIdle(sent) ELSE sent
           d == FillPipeline(c)
<1>1. /\ more = (IF c.pipeline = <<>> THEN c.batches ELSE <<>>)
      /\ c.pipeline \o more = c.batches
  BY NextBatchesAre
<1>2. c.batches \in Few /\ more \in Few /\ "write" \in Streams
  BY <1>1, FewCases DEF Client, Streams
<1>3. full = [c EXCEPT !.pipeline = c.batches]
  BY <1>1
<1>4. d = IF ShouldStartWrite(idle) THEN Start(idle, "write") ELSE idle
  BY DEF FillPipeline
<1> HIDE DEF more, full, d
<1>5. /\ full \in Client /\ full.pipeline = c.batches /\ full.batches = c.batches
      /\ full.queue = c.queue /\ full.stream = c.stream /\ full.chan = c.chan
      /\ full.timers = c.timers /\ full.wrote = c.wrote /\ full.blocked = c.blocked
  BY <1>2, <1>3 DEF Client
<1>6. PipeStep(c, full)
  BY <1>3, <1>5, QuieterSame DEF PipeStep, WriteStep, ListenFields, Client
<1>7. StreamInv(full, "write")
  BY <1>5 DEF WriteCore, StreamInv, Live, Ticks
<1>8. Exchange(full)
  BY <1>5, QuieterSame, ExchangeKept DEF WriteCore, Client
<1>9. Due(full) = Due(c)
  BY <1>5 DEF Due, Answers, Refusals, Live
<1>10. /\ StreamStep(full, sent, "write") /\ WriteCore(sent)
  <2>1. CASE IsOpen(c, "write") /\ c.stream["write"].seen
    <3>1. more # <<>> => c.batches # <<>> /\ c.chan["write"].out = <<>> /\ Due(c) = {}
      BY <1>1, <2>1 DEF WriteCore, Exchange
    <3>2. IsOpen(full, "write") /\ full.stream["write"].seen
      BY <1>5, <2>1 DEF IsOpen
    <3>3. StreamStep(full, SendWrites(full, more), "write") /\ WriteCore(SendWrites(full, more))
      BY <1>2, <1>5, <1>7, <1>8, <1>9, <3>1, <3>2, SendWritesIs DEF WriteCore
    <3> QED BY <2>1, <3>3
  <2>2. CASE ~(IsOpen(c, "write") /\ c.stream["write"].seen)
    <3>1. StreamStep(full, full, "write")
      BY <1>5, QuieterSame DEF StreamStep, Client
    <3> QED BY <1>7, <1>8, <2>2, <3>1 DEF WriteCore
  <2> QED BY <2>1, <2>2
<1> HIDE DEF sent
<1>11. sent \in Client /\ sent.pipeline = c.batches /\ sent.batches = c.batches
       /\ sent.wrote = c.wrote /\ sent.blocked = c.blocked
  BY <1>5, <1>10 DEF StreamStep
<1>12. StreamStep(sent, idle, "write") /\ WriteCore(idle)
  <2>1. StreamStep(sent, sent, "write")
    BY <1>11, QuieterSame DEF StreamStep, Client
  <2>2. StreamStep(sent, MarkIdle(sent), "write") /\ StreamInv(MarkIdle(sent), "write")
        /\ MarkIdle(sent).stream = sent.stream /\ MarkIdle(sent).chan = sent.chan
    BY <1>10, <1>11, MarkIdleIs DEF WriteCore
  <2>3. Exchange(MarkIdle(sent))
    BY <1>10, <1>11, <2>2, ExchangeKept DEF WriteCore, StreamStep
  <2> QED BY <1>10, <2>1, <2>2, <2>3 DEF WriteCore
<1> HIDE DEF idle
<1>13. idle \in Client /\ idle.pipeline = c.batches /\ idle.batches = c.batches
       /\ idle.wrote = c.wrote /\ idle.blocked = c.blocked
  BY <1>11, <1>12 DEF StreamStep
<1>14. PipeStep(c, idle)
  <2>1. PipeStep(c, sent)
    BY <1>5, <1>6, <1>10, StreamIsPipeStep, PipeStepTrans
  <2> QED BY <1>11, <1>12, <2>1, StreamIsPipeStep, PipeStepTrans
<1>15. CASE ShouldStartWrite(idle)
  <2>1. ~IsStarted(idle, "write")
    BY <1>15 DEF ShouldStartWrite
  <2>2. StreamStep(idle, d, "write") /\ WriteCore(d) /\ IsStarted(d, "write")
    BY <1>4, <1>12, <1>13, <1>15, <2>1, StartWriteIs DEF WriteCore
  <2>3. PipeStep(c, d)
    BY <1>13, <1>14, <2>2, StreamIsPipeStep, PipeStepTrans
  <2> QED BY <1>13, <2>2, <2>3 DEF StreamStep, d
<1>16. CASE ~ShouldStartWrite(idle)
  BY <1>4, <1>12, <1>13, <1>14, <1>16 DEF ShouldStartWrite, d
<1> QED BY <1>15, <1>16

\* The stream opens, and greets the server.
LEMMA OpenWriteIs ==
  ASSUME NEW c \in Client, WriteCore(c), c.stream["write"].state = "starting",
         Live(c, "write") = {}
  PROVE  LET d == OnOpen(c, "write") IN
         /\ StreamStep(c, d, "write") /\ WriteCore(d) /\ IsOpen(d, "write")
<1> DEFINE b == [c EXCEPT !.stream["write"].state = "open"]
           hello == [kind |-> "hello", version |-> 0]
           d == SendAll(b, "write", <<hello>>)
<1>1. "write" \in Streams /\ <<hello>> \in Seq(Request)
  BY DEF Streams, Request
<1>2. /\ b \in Client /\ b.stream["write"].state = "open"
      /\ b.stream["write"].closes = c.stream["write"].closes
      /\ b.stream["write"].seen = c.stream["write"].seen
      /\ b.chan = c.chan /\ b.timers = c.timers /\ b.queue = c.queue
  BY <1>1, ChannelTypes, ZenonT(30) DEF Client, StreamSet
<1>3. StreamStep(c, b, "write") /\ IsOpen(b, "write")
  BY <1>1, <1>2, QuieterSame DEF StreamStep, Client, IsOpen
<1>4. Live(b, "write") = {} /\ Ticks(b, "write") = Ticks(c, "write")
  BY <1>2 DEF Live, Ticks
<1>5. StreamInv(b, "write") /\ c.chan["write"].out = <<>> /\ ~c.stream["write"].seen
  BY <1>2, <1>4 DEF StreamInv, WriteCore, Exchange
<1>6. OnOpen(c, "write") = d
  BY DEF OnOpen, OnWriteOpen, Send
<1> HIDE DEF b
<1>7. /\ StreamStep(b, d, "write") /\ StreamInv(d, "write") /\ d.stream = b.stream
      /\ d.chan["write"].out = IF b.chan["write"].gen = 0 THEN b.chan["write"].out
                               ELSE b.chan["write"].out \o <<hello>>
  BY <1>1, <1>2, <1>3, <1>5, SendAllIs
<1> HIDE DEF d
<1>8. d.chan["write"].out \in {<<>>, <<hello>>}
  <2>1. <<>> \o <<hello>> = <<hello>>
    OBVIOUS
  <2> HIDE DEF hello
  <2> QED BY <1>2, <1>5, <1>7, <2>1
<1>9. d \in Client /\ Quieter(b.queue, d.queue)
  BY <1>7 DEF StreamStep
<1>10. Due(d) = {} /\ Answers(d) = {} /\ Refusals(d) = {}
  <2>1. Answers(d) \subseteq Answers(b) /\ Refusals(d) \subseteq Refusals(b)
    BY <1>2, <1>7, <1>9, DueShrinks
  <2> QED BY <1>4, <2>1 DEF Due, Answers, Refusals
<1>11. Exchange(d)
  <2>1. Len(<<hello>>) = 1 /\ <<hello>>[1].kind = "hello"
    OBVIOUS
  <2>2. d.stream["write"].state = "open" /\ ~d.stream["write"].seen
    BY <1>2, <1>5, <1>7
  <2> HIDE DEF hello
  <2> QED BY <1>8, <1>10, <2>1, <2>2 DEF Exchange
<1>12. StreamStep(c, d, "write")
  BY <1>1, <1>2, <1>3, <1>7, StreamStepTrans
<1> QED BY <1>2, <1>6, <1>7, <1>11, <1>12 DEF WriteCore, IsOpen

\* What is known once an answer was taken from the queue.
Answered(c) == WriteCore(c) /\ IsOpen(c, "write") /\ c.chan["write"].out = <<>> /\ Due(c) = {}

\* Noting the first answer of a stream changes nothing else.
LEMMA SeenIs ==
  ASSUME NEW c \in Client, Answered(c)
  PROVE  LET d == [c EXCEPT !.stream["write"].seen = TRUE] IN
         /\ StreamStep(c, d, "write") /\ Answered(d) /\ d.stream["write"].seen
         /\ d.pipeline = c.pipeline
<1> DEFINE d == [c EXCEPT !.stream["write"].seen = TRUE]
<1>1. "write" \in Streams
  BY DEF Streams
<1>2. /\ d \in Client /\ d.stream["write"].state = "open" /\ d.stream["write"].seen
      /\ d.stream["write"].closes = c.stream["write"].closes
      /\ d.chan = c.chan /\ d.timers = c.timers /\ d.queue = c.queue
      /\ d.pipeline = c.pipeline
  BY <1>1, ZenonT(30) DEF Client, StreamSet, Answered, IsOpen
<1>3. StreamStep(c, d, "write")
  BY <1>1, <1>2, QuieterSame DEF StreamStep, Client
<1>4. Live(d, "write") = Live(c, "write") /\ Ticks(d, "write") = Ticks(c, "write")
  BY <1>2 DEF Live, Ticks
<1>5. StreamInv(d, "write")
  <2>1. c.stream["write"].state = "open"
    BY DEF Answered, IsOpen
  <2> HIDE DEF d
  <2> QED BY <1>2, <1>4, <2>1 DEF StreamInv, Answered, WriteCore
<1>6. Due(d) = {} /\ Answers(d) = {} /\ Refusals(d) = {}
  BY <1>2, <1>4 DEF Due, Answers, Refusals, Answered
<1> HIDE DEF d
<1>7. Exchange(d) /\ d.chan["write"].out = <<>>
  BY <1>2, <1>6 DEF Exchange, Answered
<1> QED BY <1>2, <1>3, <1>5, <1>6, <1>7 DEF Answered, WriteCore, IsOpen, d

\* The handshake's answer: everything in the pipeline goes again.
LEMMA HandshakeIs ==
  ASSUME NEW c \in Client, Answered(c), ~c.stream["write"].seen, NEW msg
  PROVE  LET d == OnMessage(c, "write", msg) IN
         /\ StreamStep(c, d, "write") /\ WriteCore(d) /\ IsOpen(d, "write")
<1> DEFINE b == [c EXCEPT !.stream["write"].seen = TRUE]
           d == SendWrites(b, b.pipeline)
<1>1. StreamStep(c, b, "write") /\ Answered(b) /\ b.stream["write"].seen
  BY SeenIs
<1>2. OnMessage(c, "write", msg) = d
  BY DEF OnMessage, OnHandshake
<1> HIDE DEF b
<1>3. b \in Client /\ b.pipeline \in Few
  BY <1>1 DEF StreamStep, Client
<1>4. StreamStep(b, d, "write") /\ WriteCore(d) /\ d.stream = b.stream
  BY <1>1, <1>3, SendWritesIs DEF Answered
<1>5. StreamStep(c, d, "write")
  BY <1>1, <1>3, <1>4, StreamStepTrans DEF Streams
<1> HIDE DEF d
<1> QED BY <1>1, <1>2, <1>4, <1>5 DEF Answered, IsOpen

\* A write's answer: its batch leaves pipeline and queue, and the cached
\* document takes the page's own field.
LEMMA ResultIs ==
  ASSUME NEW c \in Client, Answered(c), c.stream["write"].seen, ~c.blocked, ~c.failed,
         c.pipeline = << 1 >>, c.batches = << 1 >>, NEW msg \in WriteMsg
  PROVE  LET d == OnMessage(c, "write", msg) IN
         /\ WriteStep(c, d) /\ WriteCore(d)
         /\ d.pipeline = <<>> /\ d.batches = <<>> /\ d.wrote = "resolved" /\ ~d.failed
         /\ d.doc = IF c.doc.version < msg.version THEN ApplyPatch(c.doc, msg.version)
                    ELSE c.doc
<1> DEFINE b == [c EXCEPT !.stream["write"].seen = TRUE]
           e == [b EXCEPT !.pipeline = Tail(@)]
           doc == IF c.doc.version < msg.version THEN ApplyPatch(c.doc, msg.version)
                  ELSE c.doc
           f == ApplySuccessfulWrite(e, Head(b.pipeline), msg.version)
           g == [e EXCEPT !.doc = doc, !.batches = <<>>, !.wrote = "resolved"]
           d == FillPipeline(g)
<1>1. StreamStep(c, b, "write") /\ Answered(b) /\ b.pipeline = c.pipeline
  BY SeenIs
<1>2. /\ b \in Client /\ b.batches = <<1>> /\ b.pipeline = <<1>> /\ b.doc = c.doc
      /\ ~b.failed /\ ~b.blocked /\ PipeStep(c, b)
  BY <1>1, StreamIsPipeStep, ZenonT(30) DEF StreamStep
<1>3. OnMessage(c, "write", msg) = FillPipeline(f)
  <2>1. OnMessage(c, "write", msg) = OnMutationResult(b, msg.version)
    BY DEF OnMessage
  <2> HIDE DEF b
  <2> QED BY <1>2, <2>1, FewCases DEF OnMutationResult
<1> HIDE DEF b
<1>4. e = [b EXCEPT !.pipeline = <<>>] /\ Head(b.pipeline) = 1
  BY <1>2, FewCases
<1>5. doc \in DocSet
  BY DEF Client, DocSet, WriteMsg, ApplyPatch
<1>6. f = g
  <2>1. e.batches = <<1>> /\ e.doc = c.doc /\ ~e.failed /\ Head(e.batches) = 1
    BY <1>2, <1>4, FewCases DEF Client
  <2> DEFINE h == [e EXCEPT !.doc = IF @.version < msg.version
                                  THEN ApplyPatch(@, msg.version) ELSE @]
  <2>2. h = [e EXCEPT !.doc = doc]
    BY <2>1
  <2>3. h.batches = <<1>> /\ ~h.failed
    BY <1>2, <1>4, <2>1, <2>2 DEF Client
  <2> HIDE DEF h, doc, e
  <2>4. RemoveBatch(h, 1) = [h EXCEPT !.batches = <<>>]
    BY <2>3, FewCases DEF RemoveBatch
  <2>5. AcknowledgeBatch(e, 1, msg.version) = [h EXCEPT !.batches = <<>>]
    BY <2>4 DEF AcknowledgeBatch, h
  <2>6. ~[h EXCEPT !.batches = <<>>].failed
    BY <2>3, <1>2, <2>2, <1>4 DEF Client, e
  <2>7. f = [[h EXCEPT !.batches = <<>>] EXCEPT !.wrote = "resolved"]
    BY <1>4, <2>5, <2>6 DEF ApplySuccessfulWrite, SettleWrite
  <2> QED BY <2>2, <2>7
<1>7. /\ g \in Client /\ g.batches = <<>> /\ g.pipeline = <<>> /\ g.wrote = "resolved"
      /\ g.doc = doc /\ g.queue = b.queue /\ g.stream = b.stream /\ g.chan = b.chan
      /\ g.timers = b.timers /\ ~g.blocked /\ ~g.failed
  BY <1>2, <1>4, <1>5, FewCases DEF Client
<1> HIDE DEF doc
<1>8. WriteStep(b, g)
  BY <1>2, <1>4, <1>7, QuieterSame DEF WriteStep, ListenFields, Client
<1> HIDE DEF e, f, g
<1>9. WriteCore(g)
  <2>1. StreamInv(g, "write")
    BY <1>1, <1>7 DEF Answered, WriteCore, StreamInv, Live, Ticks
  <2>2. Due(g) = {} /\ Answers(g) = {} /\ Refusals(g) = {} /\ g.chan["write"].out = <<>>
    BY <1>1, <1>7 DEF Answered, Due, Answers, Refusals, Live
  <2>3. g.stream["write"].state = "open"
    BY <1>1, <1>7 DEF Answered, IsOpen
  <2>4. Exchange(g)
    BY <2>2, <2>3 DEF Exchange
  <2> QED BY <2>1, <2>4 DEF WriteCore
<1>10. PipeStep(g, d) /\ WriteCore(d) /\ d.pipeline = g.batches
       /\ d.batches = g.batches /\ d.wrote = g.wrote
  BY <1>7, <1>9, FillPipelineIs
<1>11. WriteStep(c, d)
  BY <1>2, <1>7, <1>8, <1>10, WriteStepTrans DEF PipeStep
<1> HIDE DEF d
<1> QED BY <1>3, <1>6, <1>7, <1>10, <1>11 DEF PipeStep, doc, d

-----------------------------------------------------------------------------
(* Closing and starting again.                                             *)

\* Nothing is under way of a stream that is not started.
LEMMA RestCore ==
  ASSUME NEW c \in Client, StreamInv(c, "write"), ~IsStarted(c, "write")
  PROVE  WriteCore(c)
<1>1. Live(c, "write") = {} /\ c.chan["write"].out = <<>>
  BY DEF IsStarted, IsOpen, StreamInv
<1>2. Due(c) = {} /\ Answers(c) = {} /\ Refusals(c) = {}
  BY <1>1 DEF Due, Answers, Refusals
<1> QED BY <1>1, <1>2 DEF WriteCore, Exchange, IsStarted

\* What the write side may be when its stream is told of a close, or when
\* the pipeline is filled: it holds the mutation queue, or nothing.
Whole(c) == c.pipeline = c.batches /\ (c.batches # <<>> => c.wrote = "pending")

\* A close that is no refusal: the stream starts again for the pipeline.
LEMMA RetryWriteIs ==
  ASSUME NEW c \in Client, Closed(c, "write"), NEW err,
         ~(err = "permanent" /\ c.stream["write"].seen)
  PROVE  LET d == OnWriteClose(c, err) IN
         /\ StreamStep(c, d, "write") /\ WriteCore(d)
         /\ c.pipeline # <<>> /\ ~c.blocked => IsStarted(d, "write")
         /\ c.blocked => ~IsStarted(d, "write")
<1> DEFINE d == OnWriteClose(c, err)
<1>1. d = IF ShouldStartWrite(c) THEN Start(c, "write") ELSE c
  BY DEF OnWriteClose
<1> HIDE DEF d
<1>2. StreamInv(c, "write") /\ ~IsStarted(c, "write")
  BY DEF Closed, IsStarted, IsOpen
<1>3. CASE ShouldStartWrite(c)
  BY <1>1, <1>2, <1>3, StartWriteIs DEF d, ShouldStartWrite
<1>4. CASE ~ShouldStartWrite(c)
  <2>1. StreamStep(c, c, "write")
    BY QuieterSame DEF StreamStep, Client
  <2> QED BY <1>1, <1>2, <1>4, <2>1, ClosedCore DEF d, ShouldStartWrite
<1> QED BY <1>3, <1>4

\* A refusal: the batch leaves pipeline and queue, and the promise is broken.
LEMMA RefusedIs ==
  ASSUME NEW c \in Client, Closed(c, "write"), ~c.blocked, ~c.failed,
         c.stream["write"].seen, c.pipeline = << 1 >>, c.batches = << 1 >>
  PROVE  LET d == OnWriteClose(c, "permanent") IN
         /\ WriteStep(c, d) /\ WriteCore(d) /\ d.doc = c.doc /\ d.failed = c.failed
         /\ d.pipeline = <<>> /\ d.batches = <<>> /\ d.wrote = "rejected"
<1> DEFINE e == [c EXCEPT !.pipeline = Tail(@)]
           f == Inhibit(e, "write")
           g == [f EXCEPT !.batches = <<>>, !.wrote = "rejected"]
           d == FillPipeline(g)
<1>1. "write" \in Streams
  BY DEF Streams
<1>2. e = [c EXCEPT !.pipeline = <<>>] /\ Head(c.pipeline) = 1
  BY FewCases
<1> HIDE DEF e
<1>3. /\ e \in Client /\ e.pipeline = <<>> /\ e.batches = <<1>> /\ e.queue = c.queue
      /\ e.stream = c.stream /\ e.chan = c.chan /\ e.timers = c.timers
      /\ ~e.failed /\ ~e.blocked /\ e.doc = c.doc
  BY <1>2, FewCases DEF Client
<1>4. PipeStep(c, e)
  BY <1>2, <1>3, QuieterSame DEF PipeStep, WriteStep, ListenFields, Client
<1>5. StreamInv(e, "write") /\ ~IsStarted(e, "write")
  BY <1>3 DEF Closed, StreamInv, Live, Ticks, IsStarted, IsOpen
<1>6. StreamStep(e, f, "write") /\ StreamInv(f, "write")
      /\ f.stream["write"].state = "initial"
  BY <1>1, <1>3, <1>5, InhibitIs
<1> HIDE DEF f
<1>7. /\ f \in Client /\ f.pipeline = <<>> /\ f.batches = <<1>> /\ ~f.failed /\ ~f.blocked
      /\ f.doc = c.doc /\ PipeStep(c, f)
  BY <1>3, <1>4, <1>6, StreamIsPipeStep, PipeStepTrans DEF StreamStep
<1>8. RejectFailedWrite(f, 1) = g
  <2>1. RemoveBatch(f, 1) = [f EXCEPT !.batches = <<>>]
    BY <1>7, FewCases DEF RemoveBatch
  <2>2. ~[f EXCEPT !.batches = <<>>].failed
    BY <1>7 DEF Client
  <2> QED BY <2>1, <2>2 DEF RejectFailedWrite, SettleWrite
<1>9. OnWriteClose(c, "permanent")
        = IF ShouldStartWrite(d) THEN Start(d, "write") ELSE d
  <2>1. c.pipeline # <<>>
    BY FewCases
  <2> HIDE DEF g
  <2> QED BY <1>2, <1>8, <2>1 DEF OnWriteClose, e, f
<1>10. /\ g \in Client /\ g.batches = <<>> /\ g.pipeline = <<>> /\ g.wrote = "rejected"
       /\ g.queue = f.queue /\ g.stream = f.stream /\ g.chan = f.chan
       /\ g.timers = f.timers /\ ~g.blocked /\ ~g.failed /\ g.doc = c.doc
  BY <1>7, FewCases DEF Client
<1>11. PipeStep(f, g)
  BY <1>7, <1>10, QuieterSame DEF PipeStep, WriteStep, ListenFields, Client
<1> HIDE DEF g
<1>12. StreamInv(g, "write") /\ ~IsStarted(g, "write")
  BY <1>6, <1>10 DEF StreamInv, Live, Ticks, IsStarted, IsOpen
<1>13. WriteCore(g)
  BY <1>10, <1>12, RestCore
<1>14. PipeStep(g, d) /\ WriteCore(d) /\ d.pipeline = g.batches
       /\ d.batches = g.batches /\ d.wrote = g.wrote
  BY <1>10, <1>13, FillPipelineIs
<1>15. PipeStep(c, d)
  BY <1>7, <1>10, <1>11, <1>14, PipeStepTrans
<1> HIDE DEF d
<1>16. OnWriteClose(c, "permanent") = d
  BY <1>9, <1>10, <1>14 DEF ShouldStartWrite
<1> QED BY <1>10, <1>14, <1>15, <1>16 DEF PipeStep

\* The write stream's close, whoever asked for it.
LEMMA CloseWriteIs ==
  ASSUME NEW c \in Client, WriteCore(c), Whole(c), ~c.failed, NEW final \in {"initial", "error"},
         NEW err, err = "permanent" /\ c.stream["write"].seen => c.batches # <<>> /\ ~c.blocked
  PROVE  LET d == Close(c, "write", final, err) IN
         /\ PipeStep(c, d) /\ WriteCore(d) /\ Whole(d)
         /\ d.batches # <<>> /\ ~d.blocked => IsStarted(d, "write")
         /\ d.wrote = "resolved" => c.wrote = "resolved"
         /\ d.batches \in {<<>>, c.batches}
         /\ c.batches = <<>> => d.wrote = c.wrote
         /\ c.blocked => ~IsStarted(d, "write") /\ d.batches = c.batches /\ d.wrote = c.wrote
<1> DEFINE b == CloseStream(c, "write", final)
           d == OnWriteClose(b, err)
<1>1. "write" \in Streams
  BY DEF Streams
<1>2. StreamStep(c, b, "write") /\ Closed(b, "write")
      /\ b.stream["write"].seen = c.stream["write"].seen
  BY <1>1, CloseStreamIs DEF WriteCore
<1>3. Close(c, "write", final, err) = d
  BY DEF Close
<1> HIDE DEF b
<1>4. /\ b \in Client /\ ~b.failed /\ b.pipeline = c.pipeline /\ b.batches = c.batches
      /\ b.wrote = c.wrote /\ b.blocked = c.blocked /\ PipeStep(c, b)
  BY <1>2, StreamIsPipeStep DEF StreamStep
<1>5. CASE err = "permanent" /\ c.stream["write"].seen
  <2>1. b.pipeline = <<1>> /\ b.batches = <<1>> /\ ~b.blocked
    BY <1>4, <1>5 DEF Whole, Client, Few
  <2>2. WriteStep(b, d) /\ WriteCore(d) /\ d.doc = b.doc /\ d.failed = b.failed
        /\ d.pipeline = <<>> /\ d.batches = <<>> /\ d.wrote = "rejected"
    BY <1>2, <1>4, <1>5, <2>1, RefusedIs
  <2> HIDE DEF d
  <2>3. PipeStep(c, d)
    BY <1>4, <2>2, PipeStepTrans DEF PipeStep
  <2> QED BY <1>3, <1>4, <2>1, <2>2, <2>3, FewCases DEF Whole
<1>6. CASE ~(err = "permanent" /\ c.stream["write"].seen)
  <2>1. /\ StreamStep(b, d, "write") /\ WriteCore(d)
        /\ b.pipeline # <<>> /\ ~b.blocked => IsStarted(d, "write")
        /\ b.blocked => ~IsStarted(d, "write")
    BY <1>2, <1>4, <1>6, RetryWriteIs
  <2> HIDE DEF d
  <2>2. /\ d.pipeline = c.pipeline /\ d.batches = c.batches /\ d.wrote = c.wrote
        /\ d.blocked = c.blocked
    BY <1>4, <2>1 DEF StreamStep
  <2>3. PipeStep(c, d)
    BY <1>4, <2>1, StreamIsPipeStep, PipeStepTrans
  <2> QED BY <1>3, <1>4, <2>1, <2>2, <2>3 DEF Whole
<1> QED BY <1>5, <1>6

\* The write stream stops while the network is off.
LEMMA StopWriteIs ==
  ASSUME NEW c \in Client, WriteCore(c), Whole(c), ~c.failed, c.blocked
  PROVE  LET d == Stop(c, "write") IN
         /\ PipeStep(c, d) /\ WriteCore(d) /\ ~IsStarted(d, "write")
         /\ d.batches = c.batches /\ d.wrote = c.wrote
<1>1. PipeStep(c, c)
  BY QuieterSame, StepsReflexive DEF PipeStep
<1>2. PipeStep(c, Close(c, "write", "initial", "none"))
      /\ WriteCore(Close(c, "write", "initial", "none"))
      /\ ~IsStarted(Close(c, "write", "initial", "none"), "write")
      /\ Close(c, "write", "initial", "none").batches = c.batches
      /\ Close(c, "write", "initial", "none").wrote = c.wrote
  BY CloseWriteIs
<1> QED BY <1>1, <1>2 DEF Stop

\* The network is on again: what the queue holds is in the pipeline.
LEMMA EnableWriteIs ==
  ASSUME NEW c \in Client, StreamInv(c, "write"), ~IsStarted(c, "write"), ~c.blocked,
         c.pipeline = <<>>
  PROVE  LET d == EnableWrite(c) IN
         /\ PipeStep(c, d) /\ WriteCore(d) /\ d.pipeline = c.batches
         /\ d.batches = c.batches /\ d.wrote = c.wrote
         /\ c.batches # <<>> => IsStarted(d, "write")
<1> DEFINE b == Inhibit(c, "write")
           d == FillPipeline(b)
<1>1. "write" \in Streams
  BY DEF Streams
<1>2. StreamStep(c, b, "write") /\ StreamInv(b, "write")
      /\ b.stream["write"].state = "initial"
  BY <1>1, InhibitIs
<1>3. EnableWrite(c) = d
  BY DEF EnableWrite
<1> HIDE DEF b
<1>4. /\ b \in Client /\ b.pipeline = <<>> /\ b.batches = c.batches /\ b.wrote = c.wrote
      /\ ~b.blocked /\ PipeStep(c, b)
  BY <1>2, StreamIsPipeStep DEF StreamStep
<1>5. WriteCore(b)
  <2>1. ~IsStarted(b, "write")
    BY <1>2 DEF IsStarted, IsOpen
  <2> QED BY <1>2, <1>4, <2>1, RestCore
<1>6. /\ PipeStep(b, d) /\ WriteCore(d) /\ d.pipeline = b.batches
      /\ d.batches = b.batches /\ d.wrote = b.wrote
      /\ b.batches # <<>> => IsStarted(d, "write")
  BY <1>4, <1>5, FillPipelineIs
<1> HIDE DEF d
<1>7. PipeStep(c, d)
  BY <1>4, <1>6, PipeStepTrans
<1> QED BY <1>3, <1>4, <1>6, <1>7

-----------------------------------------------------------------------------
(* The write side's tasks.                                                 *)

\* What a task of the write side keeps.
WriteKept(c) == WriteCore(c) /\ PipelineInv(c)

\* The page sets its document: one batch joins the queue of mutations.
LEMMA SetDocIs ==
  ASSUME NEW c \in Client, WriteKept(c), c.batches = <<>>, ~c.blocked
  PROVE  LET d == SetDoc(c) IN
         /\ PipeStep(c, d) /\ WriteKept(d) /\ d.batches = <<1>> /\ d.wrote = "pending"
<1> DEFINE b == [c EXCEPT !.batches = <<1>>, !.wrote = "pending"]
           d == FillPipeline(b)
<1>1. SetDoc(c) = d
  <2>1. Append(c.batches, 1) = <<1>>
    BY FewCases
  <2>2. WriteLocally(c, 1) = b
    BY <2>1 DEF WriteLocally, AddBatch
  <2> QED BY <2>2 DEF SetDoc
<1>2. /\ b \in Client /\ b.pipeline = <<>> /\ b.batches = <<1>> /\ b.wrote = "pending"
      /\ b.queue = c.queue /\ b.stream = c.stream /\ b.chan = c.chan
      /\ b.timers = c.timers /\ ~b.blocked
  BY FewCases DEF Client, WriteKept, PipelineInv
<1>3. PipeStep(c, b)
  BY <1>2, QuieterSame DEF PipeStep, WriteStep, ListenFields, Client
<1>4. WriteCore(b)
  <2>1. StreamInv(b, "write")
    BY <1>2 DEF WriteKept, WriteCore, StreamInv, Live, Ticks
  <2>2. c.pipeline = <<>>
    BY DEF WriteKept, PipelineInv
  <2> HIDE DEF b
  <2>3. Exchange(b)
    BY <1>2, <2>2, QuieterSame, ExchangeKept DEF WriteKept, WriteCore, Client
  <2> QED BY <2>1, <2>3 DEF WriteCore
<1> HIDE DEF b
<1>5. PipeStep(b, d) /\ WriteCore(d) /\ d.pipeline = b.batches
      /\ d.batches = b.batches /\ d.wrote = b.wrote /\ IsStarted(d, "write")
  BY <1>2, <1>4, FewCases, FillPipelineIs
<1> HIDE DEF d
<1>6. PipeStep(c, d)
  BY <1>2, <1>3, <1>5, PipeStepTrans
<1> QED BY <1>1, <1>2, <1>5, <1>6 DEF WriteKept, PipelineInv

\* The backoff of the write stream is over.
LEMMA RestartWriteIs ==
  ASSUME NEW c \in Client, StreamInv(c, "write"), PipelineInv(c),
         c.stream["write"].state = "backoff", Ticks(c, "write") = {}
  PROVE  LET d == OnTimer(c, "write") IN
         /\ PipeStep(c, d) /\ WriteKept(d) /\ d.wrote = c.wrote /\ d.batches = c.batches
<1> DEFINE d == Restart([c EXCEPT !.timers["write"] = "off"], "write")
<1>1. "write" \in Streams
  BY DEF Streams
<1>2. /\ StreamStep(c, d, "write") /\ StreamInv(d, "write")
      /\ d.stream["write"].state \in {"starting", "backoff"}
      /\ d.stream["write"].seen = FALSE /\ d.chan = c.chan
  BY <1>1, RestartIs
<1>3. OnTimer(c, "write") = d
  BY <1>1 DEF OnTimer
<1> HIDE DEF d
<1>4. c.chan["write"].out = <<>>
  BY DEF StreamInv
<1>5. \A i \in Live(d, "write") : d.queue[i].kind = "open"
  BY <1>2 DEF StreamInv
<1>6. Due(d) = {} /\ Answers(d) = {} /\ Refusals(d) = {}
  BY <1>5 DEF Due, Answers, Refusals
<1>7. Exchange(d)
  BY <1>2, <1>4, <1>6 DEF Exchange
<1>8. PipelineInv(d)
  BY <1>2 DEF PipelineInv, StreamStep, IsStarted
<1> QED BY <1>2, <1>3, <1>7, <1>8, StreamIsPipeStep DEF WriteKept, WriteCore, StreamStep

\* The idle stream closes.
LEMMA IdleIs ==
  ASSUME NEW c \in Client, WriteKept(c), ~c.failed, ~c.blocked
  PROVE  LET d == OnTimer(c, "idle") IN
         /\ PipeStep(c, d) /\ WriteKept(d) /\ d.batches \in {<<>>, c.batches}
         /\ d.wrote = "resolved" => c.wrote = "resolved"
         /\ c.batches = <<>> => d.wrote = c.wrote
<1> DEFINE e == Close(c, "write", "initial", "none")
<1>1. OnTimer(c, "idle") = IF IsOpen(c, "write") THEN e ELSE c
  BY DEF OnTimer, Streams
<1>2. PipeStep(c, c)
  BY StepsReflexive DEF PipeStep
<1>3. /\ PipeStep(c, e) /\ WriteCore(e) /\ Whole(e)
      /\ e.batches # <<>> /\ ~e.blocked => IsStarted(e, "write")
      /\ e.wrote = "resolved" => c.wrote = "resolved"
      /\ e.batches \in {<<>>, c.batches}
      /\ c.batches = <<>> => e.wrote = c.wrote
  BY CloseWriteIs DEF WriteKept, PipelineInv, Whole
<1> HIDE DEF e
<1>4. ~e.blocked
  BY <1>3 DEF PipeStep, WriteStep
<1> QED BY <1>1, <1>2, <1>3, <1>4 DEF WriteKept, PipelineInv, Whole, PipeStep, WriteStep

\* The write side without the queue's first task, which may have been an
\* answer.
LEMMA PoppedWrite ==
  ASSUME NEW b \in Client, WriteKept(b), b.queue # <<>>
  PROVE  LET c == [b EXCEPT !.queue = Tail(@)]
             task == Head(b.queue) IN
         /\ WriteKept(c) /\ Whole(c)
         /\ task.on = "write" /\ Guarded(b, task) /\ task.kind = "message" =>
              /\ 1 \in Answers(b) /\ Due(c) = {} /\ c.chan["write"].out = <<>>
         /\ task.on = "write" /\ Guarded(b, task) /\ task.kind = "close"
              /\ task.arg = "permanent" => 1 \in Due(b)
<1> DEFINE c == [b EXCEPT !.queue = Tail(@)]
           task == Head(b.queue)
<1>1. /\ c \in Client /\ task = b.queue[1] /\ 1 \in 1..Len(b.queue)
      /\ \A i \in 1..Len(c.queue) :
           c.queue[i] = b.queue[i + 1] /\ i + 1 \in 1..Len(b.queue)
  BY TailQueue
<1>2. "write" \in Streams /\ StreamInv(c, "write")
  BY PoppedStream DEF WriteKept, WriteCore, Streams
<1>3. /\ c.stream = b.stream /\ c.chan = b.chan
      /\ c.pipeline = b.pipeline /\ c.batches = b.batches /\ c.wrote = b.wrote
  BY DEF Client
<1> HIDE DEF c, task
<1>4. \A i \in Live(c, "write") : /\ i + 1 \in Live(b, "write") /\ i + 1 # 1
                                  /\ c.queue[i] = b.queue[i + 1]
  BY <1>1, <1>3 DEF Live
<1>5. \A i \in Due(c) : i + 1 \in Due(b) /\ i + 1 # 1 /\ i \in Nat
  BY <1>4 DEF Due, Answers, Refusals, Live
<1>6. WriteCore(c)
  <2>1. \A i \in Answers(c) : i + 1 \in Answers(b) /\ c.queue[i] = b.queue[i + 1]
    BY <1>4 DEF Answers
  <2>2. \A i \in Refusals(c) : i + 1 \in Refusals(b)
    BY <1>4 DEF Refusals
  <2>3. \A i, j \in Nat : i + 1 = j + 1 => i = j
    OBVIOUS
  <2>4. Exchange(c)
    BY <1>3, <1>5, <2>1, <2>2, <2>3 DEF WriteKept, WriteCore, Exchange
  <2> QED BY <1>2, <2>4 DEF WriteCore
<1>7. PipelineInv(c) /\ Whole(c)
  BY <1>3 DEF WriteKept, PipelineInv, IsStarted, IsOpen, Whole
<1>8. task.on = "write" /\ Guarded(b, task) => 1 \in Live(b, "write")
  BY <1>1 DEF Live, Guarded
<1>9. ASSUME task.on = "write", Guarded(b, task), task.kind = "message"
      PROVE  1 \in Answers(b) /\ Due(c) = {} /\ c.chan["write"].out = <<>>
  <2>1. 1 \in Answers(b) /\ 1 \in Due(b)
    BY <1>1, <1>8, <1>9 DEF Answers, Due
  <2> QED BY <1>3, <1>5, <2>1 DEF WriteKept, WriteCore, Exchange
<1>10. ASSUME task.on = "write", Guarded(b, task), task.kind = "close",
              task.arg = "permanent"
       PROVE  1 \in Due(b)
  BY <1>1, <1>8, <1>10 DEF Refusals, Due
<1> QED BY <1>6, <1>7, <1>9, <1>10 DEF WriteKept, c, task

\* A callback of the write stream that is not disarmed: "c" is the client
\* without the task, "b" the client with it.
LEMMA WriteTaskIs ==
  ASSUME NEW b \in Client, WriteKept(b), ~b.failed, ~b.blocked, b.queue # <<>>,
         Head(b.queue).on = "write", Head(b.queue) \in StreamTask,
         Guarded(b, Head(b.queue))
  PROVE  LET c == [b EXCEPT !.queue = Tail(@)]
             task == Head(b.queue)
             d == OnStreamTask(c, task) IN
         /\ WriteStep(c, d) /\ WriteKept(d) /\ d.failed = c.failed
         /\ d.batches \in {<<>>, c.batches}
         /\ c.batches = <<>> => d.wrote = c.wrote /\ d.doc = c.doc
         /\ \/ d.doc = c.doc /\ (d.wrote = "resolved" => c.wrote = "resolved")
            \/ /\ task.kind = "message" /\ task.arg.kind = "result" /\ d.wrote = "resolved"
               /\ d.doc = IF c.doc.version < task.arg.version
                            THEN ApplyPatch(c.doc, task.arg.version) ELSE c.doc
<1> DEFINE c == [b EXCEPT !.queue = Tail(@)]
           task == Head(b.queue)
           d == OnStreamTask(c, task)
<1>1. /\ c \in Client /\ task = b.queue[1] /\ 1 \in 1..Len(b.queue)
      /\ \A i \in 1..Len(c.queue) :
           c.queue[i] = b.queue[i + 1] /\ i + 1 \in 1..Len(b.queue)
  BY TailQueue
<1>2. /\ "write" \in Streams /\ StreamInv(c, "write")
      /\ b.stream["write"].state \in {"starting", "open"}
      /\ task.kind = "open" => b.stream["write"].state = "starting"
      /\ b.stream["write"].state = "starting" =>
           task.kind = "open" /\ Live(c, "write") = {}
  BY PoppedStream DEF WriteKept, WriteCore, Streams
<1>3. /\ c.stream = b.stream /\ c.chan = b.chan /\ c.timers = b.timers
      /\ c.pipeline = b.pipeline /\ c.batches = b.batches /\ c.wrote = b.wrote
      /\ ~c.failed /\ ~c.blocked
  BY DEF Client
<1>4. task.on = "write" /\ task \in StreamTask /\ Guarded(c, task)
  BY <1>3 DEF Guarded
<1> HIDE DEF c, task
<1>5. WriteKept(c) /\ WriteCore(c) /\ PipelineInv(c) /\ Whole(c)
  BY PoppedWrite DEF WriteKept, c
<1>6. /\ task.kind = "message" =>
           1 \in Answers(b) /\ Due(c) = {} /\ c.chan["write"].out = <<>>
      /\ task.kind = "close" /\ task.arg = "permanent" => 1 \in Due(b)
  BY <1>3, <1>4, PoppedWrite DEF Guarded, c, task
<1>9. d = (CASE task.kind = "open"      -> OnOpen(c, "write")
             [] task.kind = "connected" -> OnConnected(c, "write")
             [] task.kind = "close"     -> Close(c, "write", "error", task.arg)
             [] task.kind = "message"   -> OnMessage(c, "write", task.arg))
  BY <1>4 DEF OnStreamTask
<1> HIDE DEF d
<1>10. CASE task.kind = "open"
  <2>1. StreamStep(c, OnOpen(c, "write"), "write") /\ WriteCore(OnOpen(c, "write"))
        /\ IsOpen(OnOpen(c, "write"), "write")
    BY <1>1, <1>2, <1>3, <1>5, <1>10, OpenWriteIs
  <2>2. d = OnOpen(c, "write")
    BY <1>9, <1>10
  <2> QED BY <1>1, <1>5, <2>1, <2>2, StreamIsPipeStep, ZenonT(30)
          DEF WriteKept, PipelineInv, PipeStep, StreamStep, IsStarted, c, d, task
<1>11. CASE task.kind = "connected"
  <2>1. d = c
    BY <1>9, <1>11 DEF OnConnected
  <2> QED BY <1>1, <1>5, <2>1, StepsReflexive DEF WriteKept, c, d, task
<1>12. CASE task.kind = "close"
  <2>1. d = Close(c, "write", "error", task.arg)
    BY <1>9, <1>12
  <2>2. task.arg = "permanent" /\ c.stream["write"].seen => c.batches # <<>>
    <3>1. task.arg = "permanent" => 1 \in Due(b)
      BY <1>6, <1>12
    <3> QED BY <1>3, <1>5, <3>1 DEF WriteKept, WriteCore, Exchange, PipelineInv
  <2>3. /\ PipeStep(c, d) /\ WriteCore(d) /\ Whole(d)
        /\ d.batches # <<>> /\ ~d.blocked => IsStarted(d, "write")
        /\ d.wrote = "resolved" => c.wrote = "resolved"
        /\ d.batches \in {<<>>, c.batches}
        /\ c.batches = <<>> => d.wrote = c.wrote
    BY <1>1, <1>3, <1>5, <2>1, <2>2, CloseWriteIs
  <2>4. ~d.blocked
    BY <1>3, <2>3 DEF PipeStep, WriteStep
  <2> QED BY <2>3, <2>4 DEF WriteKept, PipelineInv, Whole, PipeStep, c, d, task
<1>13. CASE task.kind = "message"
  <2>1. d = OnMessage(c, "write", task.arg)
    BY <1>9, <1>13
  <2>2. 1 \in Answers(b) /\ 1 \in Due(b)
    BY <1>6, <1>13 DEF Due
  <2>3. Due(c) = {} /\ c.chan["write"].out = <<>>
    BY <1>6, <1>13
  <2>4. IsOpen(c, "write")
    BY <1>2, <1>3, <1>13 DEF IsOpen
  <2>5. Answered(c)
    BY <1>5, <2>3, <2>4 DEF Answered
  <2>6. task.arg \in WriteMsg
    BY <1>4, <1>13 DEF StreamTask
  <2>7. CASE ~c.stream["write"].seen
    <3>1. StreamStep(c, d, "write") /\ WriteCore(d) /\ IsOpen(d, "write")
      BY <1>1, <2>1, <2>5, <2>7, HandshakeIs
    <3> QED BY <1>1, <1>5, <3>1, StreamIsPipeStep
            DEF WriteKept, PipelineInv, PipeStep, StreamStep, IsStarted, c, d, task
  <2>8. CASE c.stream["write"].seen
    <3>1. task.arg.kind = "result"
      BY <1>1, <1>3, <2>2, <2>8 DEF WriteKept, WriteCore, Exchange
    <3>2. c.pipeline = <<1>> /\ c.batches = <<1>>
      <4>1. c.pipeline # <<>>
        BY <1>3, <2>2, <2>8 DEF WriteKept, WriteCore, Exchange
      <4> QED BY <1>1, <1>5, <4>1 DEF PipelineInv, Client, Few
    <3>3. /\ WriteStep(c, d) /\ WriteCore(d) /\ d.wrote = "resolved"
          /\ d.pipeline = <<>> /\ d.batches = <<>> /\ ~d.failed
          /\ d.doc = IF c.doc.version < task.arg.version
                       THEN ApplyPatch(c.doc, task.arg.version) ELSE c.doc
      BY <1>1, <1>3, <2>1, <2>5, <2>6, <2>8, <3>2, ResultIs
    <3>4. d.failed = c.failed
      BY <1>1, <1>3, <3>3 DEF WriteStep, Client
    <3> QED BY <1>3, <1>13, <3>1, <3>2, <3>3, <3>4, FewCases DEF WriteKept, PipelineInv, c, d, task
  <2> QED BY <2>7, <2>8
<1>14. task.kind \in {"open", "connected", "close", "message"}
  BY <1>4 DEF StreamTask
<1> QED BY <1>10, <1>11, <1>12, <1>13, <1>14

-----------------------------------------------------------------------------
(* Both sides.                                                             *)

\* A step of one side keeps the other.
LEMMA WriteStepKeeps ==
  ASSUME NEW c \in Client, NEW d, WriteStep(c, d), WatchInv(c)
  PROVE  WatchInv(d)
<1>1. StreamInv(d, "listen")
  BY StreamInvKept DEF WriteStep, ListenFields, WatchInv, Streams
<1> QED BY <1>1 DEF WriteStep, ListenFields, WatchInv, CurrentInv, IsOpen

\* A step of the listen side keeps what the write side keeps.
LEMMA ListenStepKeeps ==
  ASSUME NEW c \in Client, NEW d, ListenStep(c, d), WriteCore(c)
  PROVE  WriteCore(d) /\ (PipelineInv(c) => PipelineInv(d))
<1>1. StreamInv(d, "write")
  BY StreamInvKept DEF ListenStep, WriteFields, WriteCore, Streams
<1>2. Exchange(d)
  BY ExchangeKept DEF ListenStep, WriteFields, WriteCore
<1>3. PipelineInv(c) => PipelineInv(d)
  BY DEF ListenStep, WriteFields, PipelineInv, IsStarted, IsOpen
<1> QED BY <1>1, <1>2, <1>3 DEF WriteCore

\* A step of either side that leaves cache, target and writes alone.
NetStep(c, d) ==
  /\ d \in Client /\ Quieter(c.queue, d.queue) /\ Len(d.queue) = Len(c.queue)
  /\ d.doc = c.doc /\ d.lastSnapshot = c.lastSnapshot /\ d.failed = c.failed
  /\ d.listens = c.listens /\ d.batches = c.batches /\ d.wrote = c.wrote
  /\ d.target = c.target
  /\ d.view.on = c.view.on /\ d.view.doc = c.view.doc
  /\ d.view.synced = c.view.synced
  /\ d.view.current => c.view.current
  /\ d.listener.on = c.listener.on
  /\ d.shown = c.shown \/ (c.listener.on /\ d.shown = c.view.doc.note)

\* Steps of the network compose.
LEMMA NetStepTrans ==
  ASSUME NEW c \in Client, NEW d, NEW e, NetStep(c, d), NetStep(d, e)
  PROVE  NetStep(c, e)
BY QuieterTrans DEF NetStep, Client

\* A step of either side is a step of the network.
LEMMA SidesAreNetSteps ==
  ASSUME NEW c \in Client, NEW d
  PROVE  /\ PipeStep(c, d) /\ d.batches = c.batches /\ d.wrote = c.wrote => NetStep(c, d)
         /\ WatchStep(c, d) /\ d.target = c.target => NetStep(c, d)
BY DEF PipeStep, WriteStep, ListenFields, WatchStep, ListenStep, WriteFields, NetStep

\* The network goes off and on: both streams stop, with nothing in the
\* pipeline, and start again for the queue and for the target.
LEMMA RestartNetworkIs ==
  ASSUME NEW c \in Client, WatchInv(c), WriteKept(c), ~c.failed, ~c.blocked
  PROVE  LET d == RestartNetwork(c) IN
         /\ NetStep(c, d) /\ WatchInv(d) /\ WriteKept(d) /\ ~d.blocked
         /\ d.agg = NoAgg /\ d.chan["listen"].gen = 0 /\ ~IsOpen(d, "listen")
         /\ IsStarted(d, "listen") <=> c.target.on
<1> DEFINE b == [c EXCEPT !.blocked = TRUE]
           w0 == Stop(b, "write")
           w == [w0 EXCEPT !.pipeline = <<>>]
           l0 == Stop(w, "listen")
           l == [l0 EXCEPT !.agg = NoAgg]
           off == SetOnline(l, "Unknown")
           u == [off EXCEPT !.blocked = FALSE]
           x == EnableWrite(u)
           d == EnableWatch(x)
<1>1. RestartNetwork(c) = d
  BY DEF RestartNetwork, DisableNetwork, EnableNetwork
<1>2. /\ b \in Client /\ b.blocked /\ ~b.failed /\ NetStep(c, b)
      /\ b.queue = c.queue /\ b.stream = c.stream /\ b.chan = c.chan
      /\ b.timers = c.timers /\ b.view = c.view /\ b.online = c.online
      /\ b.batches = c.batches /\ b.pipeline = c.pipeline /\ b.wrote = c.wrote
  BY QuieterSame DEF NetStep, Client
<1> HIDE DEF b
<1>3. WatchInv(b) /\ WriteCore(b) /\ Whole(b)
  <2>1. StreamInv(b, "listen") /\ StreamInv(b, "write")
    BY <1>2 DEF WatchInv, WriteKept, WriteCore, StreamInv, Live, Ticks
  <2>2. CurrentInv(b) /\ (b.online = "Online" => IsOpen(b, "listen"))
    BY <1>2 DEF WatchInv, CurrentInv, IsOpen
  <2>3. Exchange(b)
    BY <1>2, QuieterSame, ExchangeKept DEF WriteKept, WriteCore, Client
  <2> QED BY <1>2, <2>1, <2>2, <2>3 DEF WatchInv, WriteKept, WriteCore, PipelineInv, Whole
<1>4. /\ PipeStep(b, w0) /\ WriteCore(w0) /\ ~IsStarted(w0, "write")
      /\ w0.batches = b.batches /\ w0.wrote = b.wrote
  BY <1>2, <1>3, StopWriteIs
<1> HIDE DEF w0
<1>5. w0 \in Client /\ w0.blocked /\ NetStep(c, w0) /\ WatchInv(w0)
  <2>1. w0 \in Client /\ w0.blocked
    BY <1>2, <1>4 DEF PipeStep, WriteStep
  <2>2. NetStep(c, w0)
    BY <1>2, <1>4, SidesAreNetSteps, NetStepTrans
  <2> QED BY <1>2, <1>3, <1>4, <2>1, <2>2, WriteStepKeeps DEF PipeStep
<1>6. /\ w \in Client /\ w.blocked /\ w.pipeline = <<>> /\ NetStep(w0, w)
      /\ w.queue = w0.queue /\ w.stream = w0.stream /\ w.chan = w0.chan
      /\ w.timers = w0.timers /\ w.view = w0.view /\ w.online = w0.online
  BY <1>5, QuieterSame, FewCases DEF NetStep, Client
<1> HIDE DEF w
<1>7. /\ StreamInv(w, "write") /\ ~IsStarted(w, "write") /\ WatchInv(w)
      /\ NetStep(c, w)
  <2>1. StreamInv(w, "write") /\ StreamInv(w, "listen")
    BY <1>4, <1>5, <1>6 DEF WriteCore, WatchInv, StreamInv, Live, Ticks
  <2>2. ~IsStarted(w, "write")
    BY <1>4, <1>6 DEF IsStarted, IsOpen
  <2>3. WatchInv(w)
    BY <1>5, <1>6, <2>1 DEF WatchInv, CurrentInv, IsOpen
  <2>4. NetStep(c, w)
    BY <1>5, <1>6, NetStepTrans
  <2> QED BY <2>1, <2>2, <2>3, <2>4
<1>8. /\ WatchStep(w, l0) /\ WatchInv(l0) /\ l0.target = w.target
      /\ l0.chan["listen"].gen = 0 /\ ~IsOpen(l0, "listen") /\ ~IsStarted(l0, "listen")
  BY <1>6, <1>7, StopListenIs
<1> HIDE DEF l0
<1>9. /\ l0 \in Client /\ l0.blocked /\ l0.pipeline = <<>> /\ NetStep(c, l0)
      /\ StreamInv(l0, "write") /\ ~IsStarted(l0, "write")
  <2>1. l0 \in Client /\ l0.blocked /\ l0.pipeline = <<>>
        /\ ListenStep(w, l0)
    BY <1>6, <1>8 DEF WatchStep, ListenStep, WriteFields
  <2>2. NetStep(c, l0)
    BY <1>6, <1>7, <1>8, SidesAreNetSteps, NetStepTrans
  <2>3. WriteCore(w)
    BY <1>6, <1>7, RestCore
  <2>4. WriteCore(l0)
    BY <1>6, <2>1, <2>3, ListenStepKeeps
  <2>5. ~IsStarted(l0, "write")
    BY <1>7, <2>1 DEF ListenStep, WriteFields, IsStarted, IsOpen
  <2> QED BY <2>1, <2>2, <2>4, <2>5 DEF WriteCore
<1>10. /\ l \in Client /\ WatchStep(l0, l) /\ l.agg = NoAgg /\ l.stream = l0.stream
       /\ l.chan = l0.chan /\ l.target = l0.target /\ l.online = l0.online
       /\ StreamInv(l, "listen") /\ CurrentInv(l)
  BY <1>8, <1>9, AddRequestType, AggStep, ZenonT(30) DEF WatchInv
<1> HIDE DEF l
<1>11. OnlineStep(l, off) /\ CurrentInv(off) /\ off.online = "Unknown"
  BY <1>10, SetOnlineIs DEF OnlineState
<1> HIDE DEF off
<1>12. /\ StreamInv(off, "listen") /\ off.stream = l.stream /\ off.chan = l.chan
       /\ off.agg = l.agg /\ off.target = l.target /\ off \in Client
  BY <1>10, <1>11, OnlineStepKeeps
<1>13. WatchStep(l0, off) /\ ListenStep(l0, off)
  BY <1>9, <1>10, <1>11, OnlineIsWatchStep, WatchStepTrans DEF WatchStep
<1>14. /\ off.blocked /\ off.pipeline = <<>> /\ NetStep(c, off)
       /\ StreamInv(off, "write") /\ ~IsStarted(off, "write")
       /\ off.chan["listen"].gen = 0 /\ ~IsStarted(off, "listen")
  <2>1. off.blocked /\ off.pipeline = <<>>
    BY <1>9, <1>13 DEF ListenStep, WriteFields
  <2>2. NetStep(c, off)
    BY <1>9, <1>10, <1>12, <1>13, SidesAreNetSteps, NetStepTrans
  <2>3. WriteCore(off)
    BY <1>9, <1>13, RestCore, ListenStepKeeps
  <2>4. ~IsStarted(off, "write")
    BY <1>9, <1>13 DEF ListenStep, WriteFields, IsStarted, IsOpen
  <2>5. ~IsStarted(off, "listen") /\ off.chan["listen"].gen = 0
    BY <1>8, <1>10, <1>12 DEF IsStarted, IsOpen
  <2> QED BY <2>1, <2>2, <2>3, <2>4, <2>5 DEF WriteCore
<1>15. /\ u \in Client /\ ~u.blocked /\ u.pipeline = <<>> /\ NetStep(off, u)
       /\ u.queue = off.queue /\ u.stream = off.stream /\ u.chan = off.chan
       /\ u.timers = off.timers /\ u.view = off.view /\ u.online = "Unknown"
       /\ u.agg = NoAgg /\ u.batches = off.batches
  BY <1>10, <1>11, <1>12, <1>14, QuieterSame, ZenonT(30) DEF NetStep, Client
<1> HIDE DEF u
<1>16. /\ StreamInv(u, "write") /\ ~IsStarted(u, "write")
       /\ WatchInv(u) /\ ~IsStarted(u, "listen") /\ NetStep(c, u)
  <2>1. StreamInv(u, "write") /\ StreamInv(u, "listen")
    BY <1>12, <1>14, <1>15 DEF StreamInv, Live, Ticks
  <2>2. ~IsStarted(u, "write") /\ ~IsStarted(u, "listen")
    BY <1>14, <1>15 DEF IsStarted, IsOpen
  <2>3. WatchInv(u)
    BY <1>11, <1>15, <2>1 DEF WatchInv, CurrentInv
  <2>4. NetStep(c, u)
    BY <1>12, <1>14, <1>15, NetStepTrans
  <2> QED BY <2>1, <2>2, <2>3, <2>4
<1>17. /\ PipeStep(u, x) /\ WriteCore(x) /\ x.pipeline = u.batches
       /\ x.batches = u.batches /\ x.wrote = u.wrote
       /\ u.batches # <<>> => IsStarted(x, "write")
  BY <1>15, <1>16, EnableWriteIs
<1> HIDE DEF x
<1>18. /\ x \in Client /\ WatchInv(x) /\ ~IsStarted(x, "listen") /\ ~x.blocked
       /\ x.agg = NoAgg /\ x.chan["listen"].gen = 0 /\ NetStep(c, x)
       /\ WriteKept(x)
  <2>1. x \in Client /\ ~x.blocked /\ WriteStep(u, x)
    BY <1>15, <1>17 DEF PipeStep, WriteStep
  <2>2. WatchInv(x)
    BY <1>15, <1>16, <2>1, WriteStepKeeps
  <2>3. ~IsStarted(x, "listen") /\ x.agg = NoAgg /\ x.chan["listen"].gen = 0
    BY <1>14, <1>15, <1>16, <2>1 DEF WriteStep, ListenFields, IsStarted, IsOpen
  <2>4. NetStep(c, x)
    BY <1>15, <1>16, <1>17, SidesAreNetSteps, NetStepTrans
  <2>5. PipelineInv(x)
    BY <1>16, <1>17 DEF WriteKept, PipelineInv, NetStep
  <2> QED BY <1>17, <2>1, <2>2, <2>3, <2>4, <2>5 DEF WriteKept
<1>19. /\ WatchStep(x, d) /\ WatchInv(d) /\ d.target = x.target /\ d.chan = x.chan
       /\ ~IsOpen(d, "listen")
       /\ IsStarted(d, "listen") <=> x.target.on
       /\ d.agg \in {x.agg, NoAgg}
  BY <1>18, EnableWatchIs
<1> HIDE DEF d
<1>20. NetStep(c, d)
  BY <1>18, <1>19, SidesAreNetSteps, NetStepTrans
<1>21. WriteKept(d) /\ ~d.blocked
  BY <1>18, <1>19, ListenStepKeeps DEF WatchStep, ListenStep, WriteKept
<1> QED BY <1>1, <1>18, <1>19, <1>20, <1>21 DEF NetStep, d

-----------------------------------------------------------------------------
(* The client between two tasks.                                           *)

\* Nobody listens, yet or any more.
AtRest(c) == ~c.target.on /\ ~IsStarted(c, "listen") /\ ~c.listener.on

OnSnapshots(c) == {i \in 1..Len(c.queue) : c.queue[i].kind = "onSnapshot"}

\* The page listens once, after its write; a target has its stream.
ListenOnce(c) ==
  /\ \A i, j \in OnSnapshots(c) : i = j
  /\ OnSnapshots(c) # {} => c.listens /\ AtRest(c)
  /\ c.listens => c.wrote = "resolved"
  /\ ~c.listens => OnSnapshots(c) = {} /\ AtRest(c)
  /\ c.target.on => IsStarted(c, "listen")

ClientInv(c) ==
  /\ c \in Client /\ ~c.blocked
  /\ c.failed => c.queue = <<>>
  /\ WatchInv(c) /\ WriteKept(c) /\ WriteOnce(c) /\ ListenOnce(c)

\* What a task leaves of the queue's page tasks.
LEMMA PageTasksShrink ==
  ASSUME NEW c \in Client, NEW d \in Client, Quieter(c.queue, d.queue)
  PROVE  /\ SetDocs(d) \subseteq SetDocs(c) /\ OnSnapshots(d) \subseteq OnSnapshots(c)
         /\ c.queue = <<>> => d.queue = <<>>
<1>1. Len(c.queue) \in Nat /\ Len(d.queue) \in Nat
  BY DEF Client
<1>2. \A i \in 1..Len(d.queue) : i \in 1..Len(c.queue) /\
        (d.queue[i] = c.queue[i] \/ d.queue[i].kind = "cancelled")
  BY <1>1 DEF Quieter
<1>3. c.queue = <<>> => d.queue = <<>>
  <2>1. ASSUME c.queue = <<>> PROVE d.queue = <<>>
    <3>1. Len(c.queue) = 0
      BY <2>1
    <3>2. Len(d.queue) = 0
      BY <3>1 DEF Quieter
    <3> QED BY <3>2, EmptySeq DEF Client
  <2> QED BY <2>1
<1> QED BY <1>2, <1>3 DEF SetDocs, OnSnapshots

\* Taking the head off the queue keeps the invariant of the client.
LEMMA PoppedClient ==
  ASSUME NEW b, ClientInv(b), b.queue # <<>>
  PROVE  LET c == [b EXCEPT !.queue = Tail(@)]
             task == Head(b.queue) IN
         /\ c \in Client /\ WatchInv(c) /\ WriteKept(c) /\ WriteOnce(c) /\ ListenOnce(c)
         /\ ~c.failed /\ ~b.failed /\ ~c.blocked /\ task \in TaskSet
         /\ task.kind = "setDoc" => SetDocs(c) = {} /\ c.batches = <<>>
         /\ task.kind = "onSnapshot" => OnSnapshots(c) = {} /\ c.listens /\ AtRest(c)
<1> DEFINE c == [b EXCEPT !.queue = Tail(@)]
           task == Head(b.queue)
<1>0. b \in Client
  BY DEF ClientInv
<1>1. /\ c \in Client /\ task = b.queue[1] /\ 1 \in 1..Len(b.queue) /\ task \in TaskSet
      /\ \A i \in 1..Len(c.queue) :
           c.queue[i] = b.queue[i + 1] /\ i + 1 \in 1..Len(b.queue)
  BY <1>0, TailQueue
<1>2. WriteKept(c)
  BY <1>0, PoppedWrite DEF ClientInv
<1>3. StreamInv(c, "listen")
  BY <1>0, PoppedStream DEF ClientInv, WatchInv, Streams
<1>4. /\ c.stream = b.stream /\ c.view = b.view /\ c.online = b.online
      /\ c.batches = b.batches /\ c.wrote = b.wrote /\ c.failed = b.failed
      /\ c.blocked = b.blocked /\ c.target = b.target /\ c.listener = b.listener
      /\ c.listens = b.listens
  BY <1>0 DEF Client
<1> HIDE DEF c, task
<1>5. WatchInv(c)
  BY <1>3, <1>4 DEF ClientInv, WatchInv, CurrentInv, IsOpen
<1>6. \A i, j \in Nat : i + 1 = j + 1 => i = j
  OBVIOUS
<1>7. \A i \in SetDocs(c) : i + 1 \in SetDocs(b) /\ i + 1 # 1 /\ i \in Nat
  BY <1>1 DEF SetDocs
<1>8. \A i \in OnSnapshots(c) : i + 1 \in OnSnapshots(b) /\ i + 1 # 1 /\ i \in Nat
  BY <1>1 DEF OnSnapshots
<1>9. WriteOnce(c)
  BY <1>4, <1>6, <1>7 DEF ClientInv, WriteOnce
<1>10. AtRest(c) <=> AtRest(b)
  BY <1>4 DEF AtRest, IsStarted, IsOpen
<1>11. ListenOnce(c)
  BY <1>4, <1>6, <1>8, <1>10 DEF ClientInv, ListenOnce, IsStarted, IsOpen
<1>12. ASSUME task.kind = "setDoc" PROVE SetDocs(c) = {} /\ c.batches = <<>>
  <2>1. 1 \in SetDocs(b)
    BY <1>1, <1>12 DEF SetDocs
  <2> QED BY <1>4, <1>7, <2>1 DEF ClientInv, WriteOnce
<1>13. ASSUME task.kind = "onSnapshot" PROVE OnSnapshots(c) = {} /\ c.listens /\ AtRest(c)
  <2>1. 1 \in OnSnapshots(b)
    BY <1>1, <1>13 DEF OnSnapshots
  <2> QED BY <1>4, <1>8, <1>10, <2>1 DEF ClientInv, ListenOnce
<1> QED BY <1>1, <1>2, <1>4, <1>5, <1>9, <1>11, <1>12, <1>13 DEF ClientInv, c, task

\* A task of the write side.
LEMMA WriteTaskKeeps ==
  ASSUME NEW c \in Client, ~c.blocked, WatchInv(c), WriteKept(c), WriteOnce(c),
         ListenOnce(c), ~c.failed,
         NEW d, WriteStep(c, d), WriteKept(d), ~d.failed,
         \/ d.batches \in {<<>>, c.batches} /\ (c.batches = <<>> => d.wrote = c.wrote)
         \/ d.wrote = "pending" /\ c.wrote = "pending" /\ SetDocs(c) = {}
  PROVE  ClientInv(d)
<1>1. d \in Client /\ ~d.blocked /\ WatchInv(d)
  BY WriteStepKeeps DEF WriteStep
<1>2. SetDocs(d) \subseteq SetDocs(c) /\ OnSnapshots(d) \subseteq OnSnapshots(c)
  BY <1>1, PageTasksShrink DEF WriteStep
<1>3. WriteOnce(d)
  BY <1>2 DEF WriteOnce
<1>4. AtRest(c) <=> AtRest(d)
  BY DEF WriteStep, ListenFields, AtRest, IsStarted, IsOpen
<1>5. c.wrote = "resolved" => d.wrote = "resolved"
  <2>1. c.wrote = "resolved" => c.batches = <<>> \/ d.wrote = "resolved"
    BY DEF WriteKept, PipelineInv
  <2> QED BY <2>1
<1>6. ListenOnce(d)
  BY <1>2, <1>4, <1>5 DEF ListenOnce, WriteStep, ListenFields, IsStarted, IsOpen
<1> QED BY <1>1, <1>3, <1>6 DEF ClientInv

\* A task of the listen side.
LEMMA ListenTaskKeeps ==
  ASSUME NEW c \in Client, ~c.blocked, WriteKept(c), WriteOnce(c), ListenOnce(c), ~c.failed,
         NEW d, ListenStep(c, d), WatchInv(d), d.failed => d.queue = <<>>,
         d.target.on => IsStarted(d, "listen"),
         (AtRest(c) => AtRest(d)) \/ (c.listens /\ OnSnapshots(c) = {})
  PROVE  ClientInv(d)
<1>1. d \in Client /\ ~d.blocked /\ WriteKept(d)
  BY ListenStepKeeps DEF ListenStep, WriteKept
<1>2. SetDocs(d) \subseteq SetDocs(c) /\ OnSnapshots(d) \subseteq OnSnapshots(c)
  BY <1>1, PageTasksShrink DEF ListenStep
<1>3. WriteOnce(d)
  BY <1>2 DEF WriteOnce, ListenStep, WriteFields
<1>4. ListenOnce(d)
  BY <1>2 DEF ListenOnce, ListenStep, WriteFields
<1> QED BY <1>1, <1>3, <1>4 DEF ClientInv

\* A connection that is open stays so, or its channel is gone.
OpenKept(c, d) ==
  IsOpen(c, "listen") => IsOpen(d, "listen") \/ d.chan["listen"].gen = 0

\* A callback of the watch stream that is not disarmed.
LEMMA ListenCallbackIs ==
  ASSUME NEW b, ClientInv(b), b.queue # <<>>, Head(b.queue).on = "listen",
         Head(b.queue) \in StreamTask, Guarded(b, Head(b.queue))
  PROVE  LET c == [b EXCEPT !.queue = Tail(@)]
             d == OnStreamTask(c, Head(b.queue)) IN
         /\ ListenStep(c, d) /\ WatchInv(d) /\ OpenKept(c, d)
         /\ d.failed => d.queue = <<>>
         /\ d.target.on => IsStarted(d, "listen")
         /\ ~AtRest(c)
<1> DEFINE c == [b EXCEPT !.queue = Tail(@)]
           task == Head(b.queue)
           d == OnStreamTask(c, task)
<1>0. b \in Client /\ StreamInv(b, "listen")
  BY DEF ClientInv, WatchInv
<1>1. /\ c \in Client /\ WatchInv(c) /\ ListenOnce(c) /\ ~c.failed /\ ~c.blocked
  BY PoppedClient
<1>2. /\ b.stream["listen"].state \in {"starting", "open"}
      /\ task.kind = "open" => b.stream["listen"].state = "starting"
      /\ b.stream["listen"].state = "starting" =>
           task.kind = "open" /\ Live(c, "listen") = {}
  BY <1>0, PoppedStream DEF Streams
<1>3. c.stream = b.stream /\ c.chan = b.chan
  BY <1>0 DEF Client
<1>4. task.on = "listen" /\ task \in StreamTask /\ Guarded(c, task)
  BY <1>3 DEF Guarded
<1> HIDE DEF c, task
<1>5. ~AtRest(c)
  BY <1>2, <1>3 DEF AtRest, IsStarted, IsOpen
<1>6. d = (CASE task.kind = "open"      -> OnOpen(c, "listen")
             [] task.kind = "connected" -> OnConnected(c, "listen")
             [] task.kind = "close"     -> Close(c, "listen", "error", task.arg)
             [] task.kind = "message"   -> OnMessage(c, "listen", task.arg))
  BY <1>4 DEF OnStreamTask
<1> HIDE DEF d
<1>7. CASE task.kind = "open"
  <2>1. d = OnOpen(c, "listen")
    BY <1>6, <1>7
  <2>2. WatchStep(c, d) /\ WatchInv(d) /\ IsOpen(d, "listen")
    BY <1>1, <1>2, <1>3, <1>7, <2>1, OpenListenIs
  <2> QED BY <1>1, <1>5, <2>2 DEF WatchStep, OpenKept, IsStarted, c, d, task
<1>8. CASE task.kind = "connected"
  <2>1. d = SetOnline(c, "Online")
    BY <1>6, <1>8 DEF OnConnected
  <2>2. IsOpen(c, "listen")
    BY <1>2, <1>3, <1>8 DEF IsOpen
  <2>3. /\ OnlineStep(c, d) /\ WatchInv(d) /\ IsOpen(d, "listen")
    BY <1>1, <2>1, <2>2, OnlineNow
  <2>4. ListenStep(c, d) /\ ~d.failed
    BY <1>1, <2>3, OnlineIsListenStep DEF OnlineStep
  <2> QED BY <1>5, <2>3, <2>4 DEF OpenKept, IsStarted, c, d, task
<1>9. CASE task.kind = "close"
  <2>1. d = Close(c, "listen", "error", task.arg)
    BY <1>6, <1>9
  <2>2. /\ WatchStep(c, d) /\ WatchInv(d) /\ d.target = c.target
        /\ d.chan["listen"] = NoChannel
        /\ c.target.on /\ ~c.blocked => IsStarted(d, "listen")
    BY <1>1, <2>1, CloseListenIs
  <2>3. ~d.failed /\ ListenStep(c, d) /\ d.chan["listen"].gen = 0
    BY <1>1, <2>2, ChannelTypes DEF WatchStep
  <2> QED BY <1>1, <1>5, <2>2, <2>3 DEF OpenKept, c, d, task
<1>10. CASE task.kind = "message"
  <2> DEFINE e == [c EXCEPT !.stream["listen"].seen = TRUE]
             f == OnWatchChange(e, task.arg)
  <2>1. d = f
    BY <1>6, <1>10 DEF OnMessage
  <2>2. c.stream["listen"].state = "open"
    BY <1>2, <1>3, <1>10
  <2>3. /\ e \in Client /\ e.queue = c.queue /\ e.chan = c.chan /\ e.timers = c.timers
        /\ e.stream["listen"].state = "open"
        /\ e.stream["listen"].closes = c.stream["listen"].closes
        /\ e.stream["write"] = c.stream["write"]
        /\ e.online = c.online /\ e.view = c.view /\ e.failed = c.failed
        /\ e.batches = c.batches /\ e.pipeline = c.pipeline /\ e.wrote = c.wrote
        /\ e.blocked = c.blocked /\ e.listens = c.listens
    BY <1>1, <2>2 DEF Client, StreamSet, Streams
  <2> HIDE DEF e
  <2>4. ListenStep(c, e)
    BY <1>1, <2>3, QuieterSame DEF ListenStep, WriteFields, Client
  <2>5. WatchInv(e) /\ IsOpen(e, "listen")
    <3>1. StreamInv(e, "listen")
      BY <1>1, <2>2, <2>3 DEF WatchInv, StreamInv, Live, Ticks
    <3> QED BY <1>1, <2>2, <2>3, <3>1 DEF WatchInv, CurrentInv, IsOpen
  <2>6. task.arg \in WatchMsg
    BY <1>4, <1>10 DEF StreamTask
  <2>7. /\ ListenStep(e, f) /\ WatchInv(f) /\ f.stream = e.stream /\ f.chan = e.chan
        /\ f.target.on => e.target.on
        /\ f.failed => e.failed \/ f.queue = <<>>
    BY <2>3, <2>5, <2>6, WatchChangeKeeps
  <2> HIDE DEF f
  <2>8. ListenStep(c, f) /\ IsOpen(f, "listen")
    BY <1>1, <2>4, <2>5, <2>7, ListenStepTrans DEF IsOpen
  <2> QED BY <1>1, <1>5, <2>1, <2>3, <2>7, <2>8 DEF OpenKept, IsStarted, c, d, task
<1>11. task.kind \in {"open", "connected", "close", "message"}
  BY <1>4 DEF StreamTask
<1> QED BY <1>7, <1>8, <1>9, <1>10, <1>11

\* A task, whatever it is.
LEMMA PerformKeeps ==
  ASSUME NEW b, ClientInv(b), b.queue # <<>>
  PROVE  LET c == [b EXCEPT !.queue = Tail(@)]
             task == Head(b.queue)
             d == Perform(c, task) IN
         /\ ClientInv(d) /\ OpenKept(b, d) /\ Quieter(c.queue, d.queue)
         /\ d.wrote = "resolved" =>
              \/ b.wrote = "resolved"
              \/ task.on = "write" /\ task.kind = "message" /\ task.arg.kind = "result"
<1> DEFINE c == [b EXCEPT !.queue = Tail(@)]
           task == Head(b.queue)
           d == Perform(c, task)
           Result == /\ task.on = "write" /\ task.kind = "message"
                     /\ task.arg.kind = "result"
<1>0. b \in Client
  BY DEF ClientInv
<1>1. /\ c \in Client /\ WatchInv(c) /\ WriteKept(c) /\ WriteOnce(c) /\ ListenOnce(c)
      /\ ~c.failed /\ ~b.failed /\ ~c.blocked /\ task \in TaskSet
      /\ task.kind = "setDoc" => SetDocs(c) = {} /\ c.batches = <<>>
      /\ task.kind = "onSnapshot" => OnSnapshots(c) = {} /\ c.listens /\ AtRest(c)
  BY PoppedClient
<1>2. c.stream = b.stream /\ c.chan = b.chan /\ c.wrote = b.wrote /\ c.timers = b.timers
  BY <1>0 DEF Client
<1>3. Guarded(c, task) <=> Guarded(b, task)
  BY <1>2 DEF Guarded
<1>4. SUFFICES ClientInv(d) /\ OpenKept(c, d) /\ Quieter(c.queue, d.queue)
               /\ (d.wrote = "resolved" => c.wrote = "resolved" \/ Result)
  BY <1>2 DEF OpenKept, IsOpen
<1>5. ASSUME NEW e, WriteStep(c, e), WriteKept(e), ~e.failed,
             \/ e.batches \in {<<>>, c.batches} /\ (c.batches = <<>> => e.wrote = c.wrote)
             \/ e.wrote = "pending" /\ c.wrote = "pending" /\ SetDocs(c) = {}
      PROVE  ClientInv(e) /\ OpenKept(c, e) /\ Quieter(c.queue, e.queue)
  BY <1>1, <1>5, WriteTaskKeeps DEF WriteStep, ListenFields, OpenKept, IsOpen
<1>6. ASSUME NEW e, ListenStep(c, e), WatchInv(e), e.failed => e.queue = <<>>,
             e.target.on => IsStarted(e, "listen"), OpenKept(c, e),
             (AtRest(c) => AtRest(e)) \/ (c.listens /\ OnSnapshots(c) = {})
      PROVE  ClientInv(e) /\ OpenKept(c, e) /\ Quieter(c.queue, e.queue)
             /\ e.wrote = c.wrote
  BY <1>1, <1>6, ListenTaskKeeps DEF ListenStep, WriteFields
<1>7. c.target.on => IsStarted(c, "listen")
  BY <1>1 DEF ListenOnce
<1>8. ClientInv(c) /\ OpenKept(c, c) /\ Quieter(c.queue, c.queue)
  BY <1>1, QuieterSame DEF ClientInv, OpenKept, Client
<1>9. CASE task.kind = "setDoc"
  <2>1. d = SetDoc(c)
    BY <1>9 DEF Perform
  <2> HIDE DEF d, c, task
  <2>2. PipeStep(c, d) /\ WriteKept(d) /\ d.wrote = "pending" /\ ~d.failed /\ WriteStep(c, d)
    BY <1>1, <1>9, <2>1, SetDocIs DEF PipeStep
  <2>3. c.wrote = "pending"
    <3>1. 1 \in SetDocs(b)
      BY <1>0, <1>9, TailQueue DEF SetDocs, task
    <3> QED BY <1>2, <3>1 DEF ClientInv, WriteOnce
  <2> QED BY <1>1, <1>5, <1>9, <2>2, <2>3
<1>10. CASE task.kind = "onSnapshot"
  <2>1. d = OnSnapshot(c)
    BY <1>10 DEF Perform
  <2> HIDE DEF d, c, task
  <2>2. /\ ListenStep(c, d) /\ WatchInv(d) /\ IsStarted(d, "listen") /\ d.failed = c.failed
    BY <1>1, <1>10, <2>1, OnSnapshotIs DEF AtRest
  <2>3. OpenKept(c, d)
    BY <1>1, <1>10 DEF AtRest, OpenKept, IsStarted
  <2> QED BY <1>1, <1>6, <1>10, <2>2, <2>3
<1>11. CASE task.kind = "cancelled"
  BY <1>8, <1>11 DEF Perform
<1>12. CASE task.kind = "network"
  <2>1. d = RestartNetwork(c)
    BY <1>12 DEF Perform
  <2> HIDE DEF d, c, task
  <2>2. /\ NetStep(c, d) /\ WatchInv(d) /\ WriteKept(d) /\ ~d.blocked
        /\ d.chan["listen"].gen = 0
        /\ IsStarted(d, "listen") <=> c.target.on
    BY <1>1, <2>1, RestartNetworkIs
  <2>3. d \in Client /\ SetDocs(d) \subseteq SetDocs(c) /\ OnSnapshots(d) \subseteq OnSnapshots(c)
    BY <1>1, <2>2, PageTasksShrink DEF NetStep
  <2>4. AtRest(c) => AtRest(d)
    BY <2>2 DEF NetStep, AtRest
  <2>5. WriteOnce(d)
    BY <1>1, <2>2, <2>3 DEF NetStep, WriteOnce
  <2>6. ListenOnce(d)
    BY <1>1, <2>2, <2>3, <2>4 DEF NetStep, ListenOnce
  <2>7. ClientInv(d)
    BY <1>1, <2>2, <2>3, <2>5, <2>6 DEF ClientInv, NetStep
  <2> QED BY <2>2, <2>7 DEF NetStep, OpenKept
<1>13. CASE task.kind = "timer" /\ task.on = "write"
  <2>1. d = OnTimer(c, "write")
    BY <1>13 DEF Perform
  <2>2. c.stream["write"].state = "backoff" /\ Ticks(c, "write") = {}
    BY <1>0, <1>2, <1>13, PoppedStream DEF ClientInv, WriteKept, WriteCore, Streams
  <2> HIDE DEF d, c, task
  <2>3. PipeStep(c, d) /\ WriteKept(d) /\ d.wrote = c.wrote /\ d.batches = c.batches
    BY <1>1, <2>1, <2>2, RestartWriteIs DEF WriteKept, WriteCore
  <2> QED BY <1>1, <1>5, <2>3 DEF PipeStep
<1>14. CASE task.kind = "timer" /\ task.on = "idle"
  <2>1. d = OnTimer(c, "idle")
    BY <1>14 DEF Perform
  <2> HIDE DEF d, c, task
  <2>2. PipeStep(c, d) /\ WriteKept(d) /\ d.batches \in {<<>>, c.batches}
        /\ (d.wrote = "resolved" => c.wrote = "resolved")
        /\ (c.batches = <<>> => d.wrote = c.wrote)
    BY <1>1, <2>1, IdleIs
  <2> QED BY <1>1, <1>5, <2>2 DEF PipeStep
<1>15. CASE task.kind = "timer" /\ task.on = "listen"
  <2>1. d = Restart([c EXCEPT !.timers["listen"] = "off"], "listen")
    BY <1>15 DEF Perform, OnTimer, Streams
  <2>2. c.stream["listen"].state = "backoff" /\ Ticks(c, "listen") = {}
    BY <1>0, <1>2, <1>15, PoppedStream DEF ClientInv, WatchInv, Streams
  <2> HIDE DEF d, c, task
  <2>3. /\ StreamStep(c, d, "listen") /\ StreamInv(d, "listen")
        /\ d.stream["listen"].state \in {"starting", "backoff"} /\ d.chan = c.chan
    BY <1>1, <2>1, <2>2, RestartIs DEF WatchInv, Streams
  <2>4. WatchStep(c, d) /\ ListenStep(c, d) /\ d.target = c.target /\ d.failed = c.failed
    BY <1>1, <2>3, StreamStepIs DEF WatchStep, StreamStep
  <2>5. WatchInv(d)
    <3>1. c.online # "Online" /\ d.online = c.online /\ d.view = c.view
      BY <1>1, <2>2, <2>3 DEF WatchInv, IsOpen, StreamStep
    <3> QED BY <1>1, <2>3, <3>1 DEF WatchInv, CurrentInv
  <2>6. ~AtRest(c) /\ IsStarted(d, "listen") /\ OpenKept(c, d)
    BY <2>2, <2>3 DEF AtRest, IsStarted, IsOpen, OpenKept
  <2> QED BY <1>1, <1>6, <2>4, <2>5, <2>6
<1>16. CASE task.kind = "timer" /\ task.on = "online"
  <2>1. d = OnlineTimeout(c)
    BY <1>16 DEF Perform, OnTimer, Streams
  <2> HIDE DEF d, c, task
  <2>2. OnlineStep(c, d) /\ CurrentInv(d) /\ d.online = "Offline"
    BY <1>1, <2>1, OnlineTimeoutIs DEF WatchInv
  <2>3. /\ StreamInv(d, "listen") /\ d.stream = c.stream /\ d.chan = c.chan
        /\ d.target = c.target /\ ListenStep(c, d)
    BY <1>1, <2>2, OnlineStepKeeps, OnlineIsListenStep DEF WatchInv
  <2>4. WatchInv(d) /\ d.failed = c.failed /\ d.listener.on = c.listener.on
    BY <2>2, <2>3 DEF WatchInv, OnlineStep
  <2>5. (AtRest(c) => AtRest(d)) /\ OpenKept(c, d)
        /\ (d.target.on => IsStarted(d, "listen"))
    BY <1>7, <2>3, <2>4 DEF AtRest, OpenKept, IsStarted, IsOpen
  <2> QED BY <1>1, <1>6, <2>3, <2>4, <2>5
<1>17. CASE task \in StreamTask /\ ~Guarded(c, task)
  <2>1. d = c
    BY <1>17 DEF Perform, OnStreamTask, StreamTask
  <2> QED BY <1>8, <2>1
<1>18. CASE task \in StreamTask /\ Guarded(c, task) /\ task.on = "listen"
  <2>1. d = OnStreamTask(c, task)
    BY <1>18 DEF Perform, StreamTask
  <2>2. /\ ListenStep(c, d) /\ WatchInv(d) /\ OpenKept(c, d)
        /\ d.failed => d.queue = <<>>
        /\ d.target.on => IsStarted(d, "listen")
        /\ ~AtRest(c)
    BY <1>3, <1>18, <2>1, ListenCallbackIs
  <2> HIDE DEF d, c, task
  <2> QED BY <1>6, <2>2
<1>19. CASE task \in StreamTask /\ Guarded(c, task) /\ task.on = "write"
  <2>1. d = OnStreamTask(c, task)
    BY <1>19 DEF Perform, StreamTask
  <2>2. /\ WriteStep(c, d) /\ WriteKept(d) /\ d.failed = c.failed
        /\ d.batches \in {<<>>, c.batches}
        /\ c.batches = <<>> => d.wrote = c.wrote
        /\ (d.wrote = "resolved" => c.wrote = "resolved")
             \/ (task.kind = "message" /\ task.arg.kind = "result")
    BY <1>0, <1>1, <1>3, <1>19, <2>1, WriteTaskIs DEF ClientInv
  <2> HIDE DEF d, c, task
  <2> QED BY <1>1, <1>5, <1>19, <2>2
<1>20. \/ task.kind \in {"setDoc", "onSnapshot", "network", "cancelled"}
       \/ task.kind = "timer" /\ task.on \in {"write", "listen", "idle", "online"}
       \/ task \in StreamTask /\ task.on \in {"listen", "write"}
  BY <1>1 DEF TaskSet, PageTask, TimerTask, StreamTask, Timers, Streams
<1> HIDE DEF d, c, task, Result
<1> QED BY <1>9, <1>10, <1>11, <1>12, <1>13, <1>14, <1>15, <1>16, <1>17, <1>18, <1>19, <1>20

-----------------------------------------------------------------------------
(* What adds tasks.                                                        *)

\* The queue as it was, or with one task more.
Grown(c, d, task) ==
  \/ d.queue = c.queue
  \/ /\ Len(d.queue) = Len(c.queue) + 1 /\ d.queue[Len(d.queue)] = task
     /\ \A i \in 1..Len(c.queue) : d.queue[i] = c.queue[i]

\* Only the queue, the timers and the channels change, and that the page
\* listens.
Called(c, d, task) ==
  /\ d \in Client /\ Grown(c, d, task) /\ (c.failed => d.queue = c.queue)
  /\ ~c.failed => Len(d.queue) = Len(c.queue) + 1
  /\ d.failed = c.failed /\ d.stream = c.stream
  /\ d.online = c.online /\ d.failures = c.failures /\ d.agg = c.agg
  /\ d.batches = c.batches /\ d.wrote = c.wrote
  /\ d.doc = c.doc /\ d.lastSnapshot = c.lastSnapshot
  /\ d.view = c.view /\ d.listener = c.listener /\ d.shown = c.shown
  /\ d.pipeline = c.pipeline /\ d.target = c.target /\ d.blocked = c.blocked

\* A call adds its task, unless the queue has failed.
LEMMA EnqueueIs ==
  ASSUME NEW c \in Client, NEW task \in TaskSet
  PROVE  LET d == EnqueueTask(c, task) IN
         /\ Called(c, d, task) /\ d.timers = c.timers /\ d.chan = c.chan
         /\ d.listens = c.listens
<1> DEFINE d == EnqueueTask(c, task)
           q == Append(c.queue, task)
<1>1. CASE c.failed
  BY <1>1 DEF EnqueueTask, Called, Grown
<1>2. CASE ~c.failed
  <2>1. /\ q \in Seq(TaskSet) /\ Len(q) = Len(c.queue) + 1 /\ q[Len(q)] = task
        /\ \A i \in 1..Len(c.queue) : q[i] = c.queue[i]
    BY DEF Client
  <2>2. d = [c EXCEPT !.queue = q]
    BY <1>2 DEF EnqueueTask
  <2> HIDE DEF q
  <2> QED BY <1>2, <2>1, <2>2 DEF Called, Grown, Client
<1> QED BY <1>1, <1>2

\* The tasks after a call.
LEMMA GrownTasks ==
  ASSUME NEW c \in Client, NEW d \in Client, NEW task, Grown(c, d, task)
  PROVE  \A i \in 1..Len(d.queue) :
           \/ i \in 1..Len(c.queue) /\ d.queue[i] = c.queue[i]
           \/ i = Len(d.queue) /\ d.queue[i] = task
<1>1. Len(c.queue) \in Nat /\ Len(d.queue) \in Nat
  BY DEF Client
<1> QED BY <1>1 DEF Grown

\* What is under way after a call was before, or is the call's task.
LEMMA GrownIs ==
  ASSUME NEW c \in Client, NEW d \in Client, NEW task, Grown(c, d, task),
         NEW s, d.stream[s] = c.stream[s]
  PROVE  /\ \A i \in 1..Len(d.queue) :
              \/ i \in 1..Len(c.queue) /\ d.queue[i] = c.queue[i]
              \/ i = Len(d.queue) /\ d.queue[i] = task
         /\ \A i \in Live(d, s) :
              \/ i \in Live(c, s) /\ d.queue[i] = c.queue[i]
              \/ /\ i = Len(d.queue) /\ d.queue[i] = task
                 /\ task.on = s /\ task.gen = c.stream[s].closes + 1
         /\ \A i \in Ticks(d, s) :
              \/ i \in Ticks(c, s)
              \/ i = Len(d.queue) /\ task.kind = "timer" /\ task.on = s
<1>2. \A i \in 1..Len(d.queue) :
        \/ i \in 1..Len(c.queue) /\ d.queue[i] = c.queue[i]
        \/ i = Len(d.queue) /\ d.queue[i] = task
  BY GrownTasks
<1>3. Live(d, s) \subseteq 1..Len(d.queue) /\ Ticks(d, s) \subseteq 1..Len(d.queue)
  BY DEF Live, Ticks
<1>4. \A i \in Live(d, s) :
        \/ i \in Live(c, s) /\ d.queue[i] = c.queue[i]
        \/ /\ i = Len(d.queue) /\ d.queue[i] = task
           /\ task.on = s /\ task.gen = c.stream[s].closes + 1
  BY <1>2, <1>3 DEF Live
<1>5. \A i \in Ticks(d, s) :
        \/ i \in Ticks(c, s)
        \/ i = Len(d.queue) /\ task.kind = "timer" /\ task.on = s
  BY <1>2, <1>3 DEF Ticks
<1> QED BY <1>2, <1>4, <1>5

\* A call that is none of a stream's keeps its invariant.
LEMMA OtherStream ==
  ASSUME NEW c \in Client, NEW d, NEW task, Called(c, d, task), NEW s \in Streams,
         StreamInv(c, s), task.on # s, d.chan[s] = c.chan[s] \/ 
           (d.chan[s].gen = c.chan[s].gen /\ d.chan[s].out = c.chan[s].out),
         d.timers[s] = c.timers[s]
  PROVE  StreamInv(d, s)
<1>1. d \in Client /\ d.stream = c.stream /\ Grown(c, d, task)
  BY DEF Called
<1>2. /\ \A i \in 1..Len(d.queue) :
           \/ i \in 1..Len(c.queue) /\ d.queue[i] = c.queue[i]
           \/ d.queue[i] = task
      /\ \A i \in Live(d, s) : i \in Live(c, s) /\ d.queue[i] = c.queue[i]
      /\ \A i \in Ticks(d, s) : i \in Ticks(c, s)
  BY <1>1, GrownIs
<1> QED BY <1>1, <1>2 DEF StreamInv

\* An event of an open channel, its last one perhaps.
LEMMA EventStream ==
  ASSUME NEW c \in Client, NEW d, NEW task, Called(c, d, task), NEW s \in Streams,
         StreamInv(c, s), task.on = s, task.gen = c.stream[s].closes + 1,
         task.kind \notin {"open", "timer"}, IsOpen(c, s),
         d.chan[s].gen \in {0, c.chan[s].gen}, d.chan[s].gen = 0 => d.chan[s].out = <<>>,
         d.timers[s] = c.timers[s]
  PROVE  StreamInv(d, s)
<1>1. d \in Client /\ d.stream = c.stream /\ Grown(c, d, task)
  BY DEF Called
<1>2. /\ \A i \in 1..Len(d.queue) :
           \/ i \in 1..Len(c.queue) /\ d.queue[i] = c.queue[i]
           \/ d.queue[i] = task
      /\ \A i \in Live(d, s) : (i \in Live(c, s) /\ d.queue[i] = c.queue[i]) \/ d.queue[i] = task
      /\ \A i \in Ticks(d, s) : i \in Ticks(c, s)
  BY <1>1, GrownIs
<1>3. c.stream[s].closes \in Nat
  BY DEF Client, StreamSet
<1> QED BY <1>1, <1>2, <1>3 DEF StreamInv, IsOpen

\* The channel of a stream that starts says that it is open.
LEMMA OpenStream ==
  ASSUME NEW c \in Client, NEW d, NEW task, Called(c, d, task), NEW s \in Streams,
         StreamInv(c, s), task.on = s, task.gen = c.stream[s].closes + 1,
         task.kind = "open", c.stream[s].state = "starting", c.chan[s].gen = 0,
         d.chan[s].gen = c.stream[s].closes + 1, d.chan[s].out = <<>>,
         d.timers[s] = c.timers[s]
  PROVE  StreamInv(d, s)
<1>1. d \in Client /\ d.stream = c.stream /\ Grown(c, d, task)
  BY DEF Called
<1>2. c.stream[s].closes \in Nat
  BY DEF Client, StreamSet
<1>3. Live(c, s) = {}
  BY DEF StreamInv
<1>4. /\ \A i \in 1..Len(d.queue) :
           \/ i \in 1..Len(c.queue) /\ d.queue[i] = c.queue[i]
           \/ d.queue[i] = task
      /\ \A i \in Live(d, s) : i = Len(d.queue) /\ d.queue[i] = task
      /\ \A i \in Ticks(d, s) : i \in Ticks(c, s)
  BY <1>1, <1>3, GrownIs
<1> QED BY <1>1, <1>2, <1>4 DEF StreamInv

\* A backoff is over.
LEMMA TickStream ==
  ASSUME NEW c \in Client, NEW d, NEW task, Called(c, d, task), NEW s \in Streams,
         StreamInv(c, s), task.on = s, task.gen = 0, task.kind = "timer",
         c.timers[s] = "set", d.timers[s] = "elapsed", d.chan[s] = c.chan[s]
  PROVE  StreamInv(d, s)
<1>1. d \in Client /\ d.stream = c.stream /\ Grown(c, d, task)
  BY DEF Called
<1>2. c.stream[s].closes \in Nat
  BY DEF Client, StreamSet
<1>3. Ticks(c, s) = {} /\ c.stream[s].state = "backoff"
  BY DEF StreamInv
<1>4. /\ \A i \in 1..Len(d.queue) :
           \/ i \in 1..Len(c.queue) /\ d.queue[i] = c.queue[i]
           \/ d.queue[i] = task
      /\ \A i \in Live(d, s) : i \in Live(c, s) /\ d.queue[i] = c.queue[i]
      /\ \A i \in Ticks(d, s) : i = Len(d.queue)
  BY <1>1, <1>2, <1>3, GrownIs
<1> QED BY <1>1, <1>2, <1>3, <1>4 DEF StreamInv

\* What will be heard of a grown queue.
LEMMA DueGrown ==
  ASSUME NEW c \in Client, NEW d, NEW task, Called(c, d, task)
  PROVE  LET new == /\ task.on = "write"
                    /\ \/ task.kind = "message"
                       \/ task.kind = "close" /\ task.arg = "permanent" IN
         /\ \A i \in Due(d) : i \in Due(c) \/ (i = Len(d.queue) /\ new)
         /\ \A i \in Answers(d) :
              \/ i \in Answers(c) /\ d.queue[i] = c.queue[i]
              \/ new /\ d.queue[i] = task /\ task.kind = "message"
         /\ \A i \in Refusals(d) : i \in Refusals(c) \/ (new /\ task.kind = "close")
<1>1. d \in Client /\ d.stream = c.stream /\ Grown(c, d, task)
  BY DEF Called
<1>2. \A i \in Live(d, "write") :
        \/ i \in Live(c, "write") /\ d.queue[i] = c.queue[i]
        \/ i = Len(d.queue) /\ d.queue[i] = task /\ task.on = "write"
  BY <1>1, GrownIs
<1>3. \A i \in Answers(d) : i \in Live(d, "write") /\ d.queue[i].kind = "message"
  BY DEF Answers
<1>4. \A i \in Refusals(d) : /\ i \in Live(d, "write") /\ d.queue[i].kind = "close"
                             /\ d.queue[i].arg = "permanent"
  BY DEF Refusals
<1>5. \A i \in Live(c, "write") :
        /\ c.queue[i].kind = "message" => i \in Answers(c) /\ i \in Due(c)
        /\ c.queue[i].kind = "close" /\ c.queue[i].arg = "permanent" =>
             i \in Refusals(c) /\ i \in Due(c)
  BY DEF Answers, Refusals, Due
<1>6. \A i \in Due(d) : i \in Answers(d) \/ i \in Refusals(d)
  BY DEF Due
<1> QED BY <1>2, <1>3, <1>4, <1>5, <1>6

\* A call that answers no request keeps the exchange.
LEMMA UndueExchange ==
  ASSUME NEW c \in Client, NEW d, NEW task, Called(c, d, task), Exchange(c),
         ~ /\ task.on = "write"
           /\ \/ task.kind = "message"
              \/ task.kind = "close" /\ task.arg = "permanent",
         d.chan["write"].out \in {<<>>, c.chan["write"].out}
  PROVE  Exchange(d)
<1>1. /\ Due(d) \subseteq Due(c) /\ Refusals(d) \subseteq Refusals(c)
      /\ \A i \in Answers(d) : i \in Answers(c) /\ d.queue[i] = c.queue[i]
  BY DueGrown
<1> QED BY <1>1 DEF Exchange, Called

\* The answer to the request that is out, or its refusal.
LEMMA DueExchange ==
  ASSUME NEW c \in Client, NEW d, NEW task, Called(c, d, task), Exchange(c),
         c.stream["write"].state = "open",
         c.chan["write"].out # <<>>, d.chan["write"].out = <<>>,
         \/ /\ task.kind = "message"
            /\ task.arg.kind = IF c.stream["write"].seen THEN "result" ELSE "token"
         \/ task.kind = "close" /\ c.stream["write"].seen
  PROVE  Exchange(d)
<1>1. Due(c) = {} /\ Answers(c) = {} /\ Refusals(c) = {}
  BY DEF Exchange, Due
<1>2. /\ \A i \in Due(d) : i = Len(d.queue)
      /\ \A i \in Answers(d) : d.queue[i] = task /\ task.kind = "message"
      /\ Refusals(d) # {} => task.kind = "close"
  BY <1>1, DueGrown
<1> QED BY <1>1, <1>2 DEF Exchange, Called

\* A call that is none of the page's keeps the client's invariant.
LEMMA CalledKeeps ==
  ASSUME NEW c, ClientInv(c), NEW d, NEW task, Called(c, d, task),
         task.kind \notin {"setDoc", "onSnapshot"}, d.listens = c.listens,
         StreamInv(d, "listen"), StreamInv(d, "write"), Exchange(d)
  PROVE  ClientInv(d)
<1>1. c \in Client /\ d \in Client /\ Grown(c, d, task)
  BY DEF ClientInv, Called
<1>2. \A i \in 1..Len(d.queue) :
        (i \in 1..Len(c.queue) /\ d.queue[i] = c.queue[i]) \/ d.queue[i] = task
  BY <1>1, GrownTasks
<1>3. SetDocs(d) \subseteq SetDocs(c) /\ OnSnapshots(d) \subseteq OnSnapshots(c)
  BY <1>2 DEF SetDocs, OnSnapshots
<1>4. AtRest(d) <=> AtRest(c)
  BY DEF Called, AtRest, IsStarted, IsOpen
<1>5. WatchInv(d)
  BY DEF ClientInv, WatchInv, CurrentInv, Called, IsOpen
<1>6. WriteKept(d)
  BY DEF ClientInv, WriteKept, WriteCore, PipelineInv, Called, IsStarted, IsOpen
<1>7. WriteOnce(d)
  BY <1>3 DEF ClientInv, WriteOnce, Called
<1>8. ListenOnce(d)
  BY <1>3, <1>4 DEF ClientInv, ListenOnce, Called, IsStarted, IsOpen
<1> QED BY <1>1, <1>5, <1>6, <1>7, <1>8 DEF ClientInv, Called

\* A request that is out has its channel.
LEMMA OutIsOpen ==
  ASSUME NEW c \in Client, NEW s \in Streams, StreamInv(c, s), c.chan[s].out # <<>>
  PROVE  /\ IsOpen(c, s) /\ c.chan[s].gen = c.stream[s].closes + 1 /\ c.chan[s].gen # 0
BY DEF StreamInv, IsOpen

\* The streams of a client that keeps its invariant.
LEMMA BothStreams ==
  ASSUME NEW c, ClientInv(c)
  PROVE  c \in Client /\ Exchange(c) /\ \A s \in Streams : StreamInv(c, s)
BY DEF ClientInv, WatchInv, WriteKept, WriteCore, Streams

\* The page calls onSnapshot.
LEMMA PageListensIs ==
  ASSUME NEW c, ClientInv(c), c.wrote = "resolved", ~c.listens
  PROVE  LET task == Task("onSnapshot", "page", 0, "none")
             d == EnqueueTask([c EXCEPT !.listens = TRUE], task) IN
         /\ ClientInv(d) /\ Called(c, d, task) /\ d.chan = c.chan
<1> DEFINE task == Task("onSnapshot", "page", 0, "none")
           b == [c EXCEPT !.listens = TRUE]
           d == EnqueueTask(b, task)
<1>1. c \in Client /\ Exchange(c) /\ \A s \in Streams : StreamInv(c, s)
  BY BothStreams
<1>2. task \in TaskSet /\ task.kind = "onSnapshot" /\ task.on = "page"
  BY DEF Task, TaskSet, PageTask
<1>3. b \in Client /\ b.listens /\ b.queue = c.queue /\ b.timers = c.timers /\ b.chan = c.chan
      /\ \A e : Called(b, e, task) => Called(c, e, task)
  BY <1>1, ZenonT(30) DEF Client, Called, Grown
<1> HIDE DEF b, task
<1>4. Called(b, d, task) /\ d.timers = b.timers /\ d.chan = b.chan /\ d.listens
  BY <1>2, <1>3, EnqueueIs
<1> HIDE DEF d
<1>5. Called(c, d, task) /\ d \in Client /\ Grown(c, d, task)
  BY <1>3, <1>4 DEF Called, Grown
<1>6. \A i \in 1..Len(d.queue) :
        \/ i \in 1..Len(c.queue) /\ d.queue[i] = c.queue[i]
        \/ i = Len(d.queue) /\ d.queue[i] = task
  BY <1>1, <1>5, GrownTasks
<1>7. StreamInv(d, "listen") /\ StreamInv(d, "write")
  BY <1>1, <1>2, <1>3, <1>4, <1>5, OtherStream DEF Streams
<1>8. Exchange(d)
  BY <1>1, <1>2, <1>3, <1>4, <1>5, UndueExchange
<1>9. SetDocs(d) \subseteq SetDocs(c)
  BY <1>2, <1>6 DEF SetDocs
<1>10. \A i \in OnSnapshots(d) : i = Len(d.queue)
  <2>1. OnSnapshots(c) = {}
    BY DEF ClientInv, ListenOnce
  <2> QED BY <1>6, <2>1 DEF OnSnapshots
<1>11. AtRest(d)
  BY <1>5 DEF ClientInv, ListenOnce, AtRest, Called, IsStarted, IsOpen
<1>12. ListenOnce(d)
  BY <1>4, <1>5, <1>10, <1>11 DEF ListenOnce, Called, AtRest
<1>13. WriteOnce(d)
  BY <1>5, <1>9 DEF ClientInv, WriteOnce, Called
<1>14. WriteKept(d)
  BY <1>5, <1>7, <1>8
     DEF ClientInv, WriteKept, WriteCore, PipelineInv, Called, IsStarted, IsOpen
<1>15. WatchInv(d)
  BY <1>5, <1>7 DEF ClientInv, WatchInv, CurrentInv, Called, IsOpen
<1>16. ClientInv(d)
  BY <1>5, <1>12, <1>13, <1>14, <1>15 DEF ClientInv, Called
<1> QED BY <1>3, <1>4, <1>5, <1>16 DEF b, d, task

\* A delay is over.
LEMMA ElapseIs ==
  ASSUME NEW c, ClientInv(c), NEW t \in Timers, c.timers[t] = "set"
  PROVE  LET task == Task("timer", t, 0, "none")
             d == ElapseTimer(c, t) IN
         /\ ClientInv(d) /\ Called(c, d, task) /\ d.chan = c.chan
<1> DEFINE task == Task("timer", t, 0, "none")
           b == [c EXCEPT !.timers[t] = "elapsed"]
           d == EnqueueTask(b, task)
<1>1. c \in Client /\ Exchange(c) /\ \A s \in Streams : StreamInv(c, s)
  BY BothStreams
<1>2. task \in TaskSet /\ task.kind = "timer" /\ task.on = t /\ task.gen = 0
  BY DEF Task, TaskSet, TimerTask
<1>3. /\ b \in Client /\ b.queue = c.queue /\ b.chan = c.chan /\ b.listens = c.listens
      /\ b.timers[t] = "elapsed" /\ \A u \in Timers \ {t} : b.timers[u] = c.timers[u]
      /\ \A e : Called(b, e, task) => Called(c, e, task)
  BY <1>1 DEF Client, Called, Grown, TimerState
<1> HIDE DEF b, task
<1>4. Called(b, d, task) /\ d.timers = b.timers /\ d.chan = b.chan /\ d.listens = b.listens
  BY <1>2, <1>3, EnqueueIs
<1>5. ElapseTimer(c, t) = d
  BY DEF ElapseTimer, b, task
<1> HIDE DEF d
<1>6. Called(c, d, task)
  BY <1>3, <1>4 DEF Called, Grown
<1>7. ASSUME NEW s \in Streams PROVE StreamInv(d, s)
  <2>1. CASE s = t
    BY <1>1, <1>2, <1>3, <1>4, <1>6, <2>1, TickStream
  <2>2. CASE s # t
    <3>1. d.timers[s] = c.timers[s]
      BY <1>3, <1>4, <2>2 DEF Timers
    <3> QED BY <1>1, <1>2, <1>3, <1>4, <1>6, <2>2, <3>1, OtherStream
  <2> QED BY <2>1, <2>2
<1>8. Exchange(d)
  BY <1>1, <1>2, <1>3, <1>4, <1>6, UndueExchange
<1>9. ClientInv(d)
  BY <1>2, <1>3, <1>4, <1>6, <1>7, <1>8, CalledKeeps DEF Streams
<1> QED BY <1>3, <1>4, <1>5, <1>6, <1>9 DEF d, task

\* The browser reports a change of the network.
LEMMA NetworkIs ==
  ASSUME NEW c, ClientInv(c)
  PROVE  LET task == Task("network", "page", 0, "none")
             d == EnqueueTask(c, task) IN
         /\ ClientInv(d) /\ Called(c, d, task) /\ d.chan = c.chan
<1> DEFINE task == Task("network", "page", 0, "none")
           d == EnqueueTask(c, task)
<1>1. c \in Client /\ Exchange(c) /\ \A s \in Streams : StreamInv(c, s)
  BY BothStreams
<1>2. task \in TaskSet /\ task.kind = "network" /\ task.on = "page"
  BY DEF Task, TaskSet, PageTask
<1> HIDE DEF task
<1>3. Called(c, d, task) /\ d.timers = c.timers /\ d.chan = c.chan /\ d.listens = c.listens
  BY <1>1, <1>2, EnqueueIs
<1> HIDE DEF d
<1>4. StreamInv(d, "listen") /\ StreamInv(d, "write")
  BY <1>1, <1>2, <1>3, OtherStream DEF Streams
<1>5. Exchange(d)
  BY <1>1, <1>2, <1>3, UndueExchange
<1>6. ClientInv(d)
  BY <1>2, <1>3, <1>4, <1>5, CalledKeeps
<1> QED BY <1>3, <1>6 DEF d, task

\* An event of one channel, whatever becomes of the channel.
LEMMA EventKeeps ==
  ASSUME NEW c, ClientInv(c), NEW s \in Streams, NEW d, NEW task, Called(c, d, task),
         task.on = s, task.kind \in {"open", "connected", "message", "close"},
         StreamInv(d, s), Exchange(d), d.listens = c.listens, d.timers = c.timers,
         \A r \in Streams \ {s} : d.chan[r] = c.chan[r]
  PROVE  ClientInv(d)
<1>1. c \in Client /\ Exchange(c) /\ \A r \in Streams : StreamInv(c, r)
  BY BothStreams
<1>2. ASSUME NEW r \in Streams, r # s PROVE StreamInv(d, r)
  BY <1>1, <1>2, OtherStream
<1>3. StreamInv(d, "listen") /\ StreamInv(d, "write")
  BY <1>2 DEF Streams
<1> QED BY <1>3, CalledKeeps

\* Replacing a channel changes nothing else of the client, and what a task
\* then queued changes of it, it changes of the client before.
LEMMA ChannelReplaced ==
  ASSUME NEW c \in Client, NEW s \in Streams, NEW new \in ChannelSet, NEW task
  PROVE  LET b == [c EXCEPT !.chan[s] = new] IN
         /\ b \in Client /\ b.queue = c.queue /\ b.timers = c.timers /\ b.listens = c.listens
         /\ b.chan[s] = new /\ \A r \in Streams \ {s} : b.chan[r] = c.chan[r]
         /\ b.stream = c.stream
         /\ \A e : Called(b, e, task) => Called(c, e, task)
<1> DEFINE chans == [c.chan EXCEPT ![s] = new]
           b == [c EXCEPT !.chan = chans]
<1>1. /\ chans \in [Streams -> ChannelSet] /\ chans[s] = new
      /\ \A r \in Streams \ {s} : chans[r] = c.chan[r]
  BY DEF Client
<1>2. [c EXCEPT !.chan[s] = new] = b
  BY DEF Client
<1> HIDE DEF chans
<1>3. b \in Client /\ b.chan = chans
  BY <1>1 DEF Client
<1>4. /\ b.queue = c.queue /\ b.failed = c.failed /\ b.stream = c.stream
      /\ b.online = c.online /\ b.failures = c.failures /\ b.agg = c.agg
      /\ b.batches = c.batches /\ b.wrote = c.wrote /\ b.doc = c.doc
      /\ b.lastSnapshot = c.lastSnapshot /\ b.view = c.view /\ b.listener = c.listener
      /\ b.shown = c.shown /\ b.pipeline = c.pipeline /\ b.target = c.target
      /\ b.blocked = c.blocked /\ b.timers = c.timers /\ b.listens = c.listens
  BY DEF Client
<1> HIDE DEF b
<1>5. \A e : Called(b, e, task) => Called(c, e, task)
  BY <1>4 DEF Called, Grown
<1> QED BY <1>1, <1>2, <1>3, <1>4, <1>5

\* The channel opens for the stream that started.
LEMMA OpensIs ==
  ASSUME NEW c, ClientInv(c), NEW s \in Streams, c.stream[s].state = "starting",
         c.chan[s].gen = 0
  PROVE  LET d == OpenChannel(c, s)
             task == Task("open", s, c.stream[s].closes + 1, "none") IN
         /\ ClientInv(d) /\ Called(c, d, task)
         /\ \A r \in Streams : IsOpen(c, r) => d.chan[r] = c.chan[r]
<1> DEFINE task == Task("open", s, c.stream[s].closes + 1, "none")
           new == [NoChannel EXCEPT !.gen = c.stream[s].closes + 1]
           b == [c EXCEPT !.chan[s] = new]
           d == EnqueueTask(b, task)
<1>1. c \in Client /\ Exchange(c) /\ \A r \in Streams : StreamInv(c, r)
  BY BothStreams
<1>2. c.stream[s].closes + 1 \in Nat
  BY <1>1 DEF Client, StreamSet
<1>3. /\ task \in TaskSet /\ task.kind = "open" /\ task.on = s
      /\ task.gen = c.stream[s].closes + 1
  BY <1>2 DEF Task, TaskSet, StreamTask
<1>4. new \in ChannelSet /\ new.gen = c.stream[s].closes + 1 /\ new.out = <<>>
  BY <1>2, ChannelTypes DEF ChannelSet
<1> HIDE DEF new
<1>5. /\ b \in Client /\ b.queue = c.queue /\ b.timers = c.timers /\ b.listens = c.listens
      /\ b.chan[s] = new /\ \A r \in Streams \ {s} : b.chan[r] = c.chan[r]
      /\ \A e : Called(b, e, task) => Called(c, e, task) /\ b.stream = c.stream
  BY <1>1, <1>4, ChannelReplaced
<1>6. OpenChannel(c, s) = d
  BY <1>4, <1>5 DEF OpenChannel, Dispatch, new
<1> HIDE DEF b, task
<1>7. Called(b, d, task) /\ d.timers = b.timers /\ d.chan = b.chan /\ d.listens = b.listens
  BY <1>3, <1>5, EnqueueIs
<1> HIDE DEF d
<1>8. Called(c, d, task)
  BY <1>5, <1>7 DEF Called, Grown
<1>9. StreamInv(d, s)
  BY <1>1, <1>3, <1>4, <1>5, <1>7, <1>8, OpenStream
<1>10. Exchange(d)
  <2>1. d.chan["write"].out \in {<<>>, c.chan["write"].out}
    BY <1>4, <1>5, <1>7 DEF Streams
  <2> QED BY <1>1, <1>3, <1>8, <2>1, UndueExchange
<1>11. ClientInv(d)
  BY <1>3, <1>5, <1>7, <1>8, <1>9, <1>10, EventKeeps
<1>12. \A r \in Streams : IsOpen(c, r) => d.chan[r] = c.chan[r]
  BY <1>5, <1>7 DEF IsOpen
<1> QED BY <1>6, <1>8, <1>11, <1>12 DEF task

\* The transport is there.
LEMMA LinksIs ==
  ASSUME NEW c, ClientInv(c), NEW s \in Streams, c.chan[s].out # <<>>
  PROVE  LET d == ChannelLinked(c, s)
             task == Task("connected", s, c.chan[s].gen, "none") IN
         /\ ClientInv(d) /\ Called(c, d, task)
         /\ \A r \in Streams : d.chan[r].gen = c.chan[r].gen /\ d.chan[r].out = c.chan[r].out
<1> DEFINE task == Task("connected", s, c.chan[s].gen, "none")
           new == [c.chan[s] EXCEPT !.linked = TRUE]
           b == [c EXCEPT !.chan[s] = new]
           d == EnqueueTask(b, task)
<1>1. c \in Client /\ Exchange(c) /\ \A r \in Streams : StreamInv(c, r)
  BY BothStreams
<1>2. IsOpen(c, s) /\ c.chan[s].gen = c.stream[s].closes + 1 /\ c.chan[s].gen # 0
  BY <1>1, OutIsOpen
<1>3. c.chan[s] \in ChannelSet /\ c.chan[s].gen \in Nat
  BY <1>1 DEF Client, ChannelSet
<1>4. /\ task \in TaskSet /\ task.kind = "connected" /\ task.on = s
      /\ task.gen = c.stream[s].closes + 1
  BY <1>2, <1>3 DEF Task, TaskSet, StreamTask
<1>5. new \in ChannelSet /\ new.gen = c.chan[s].gen /\ new.out = c.chan[s].out
  BY <1>3 DEF ChannelSet
<1>6. [c EXCEPT !.chan[s].linked = TRUE] = b
  BY <1>1 DEF Client
<1> HIDE DEF new
<1>7. /\ b \in Client /\ b.queue = c.queue /\ b.timers = c.timers /\ b.listens = c.listens
      /\ b.chan[s] = new /\ \A r \in Streams \ {s} : b.chan[r] = c.chan[r]
      /\ \A e : Called(b, e, task) => Called(c, e, task)
  BY <1>1, <1>5, ChannelReplaced
<1>8. ChannelLinked(c, s) = d
  BY <1>5, <1>6, <1>7 DEF ChannelLinked, Dispatch
<1> HIDE DEF b, task
<1>9. Called(b, d, task) /\ d.timers = b.timers /\ d.chan = b.chan /\ d.listens = b.listens
  BY <1>4, <1>7, EnqueueIs
<1> HIDE DEF d
<1>10. Called(c, d, task)
  BY <1>7, <1>9 DEF Called, Grown
<1>11. StreamInv(d, s)
  BY <1>1, <1>2, <1>4, <1>5, <1>7, <1>9, <1>10, EventStream
<1>12. \A r \in Streams : d.chan[r].gen = c.chan[r].gen /\ d.chan[r].out = c.chan[r].out
  BY <1>5, <1>7, <1>9
<1>13. Exchange(d)
  BY <1>1, <1>4, <1>10, <1>12, UndueExchange DEF Streams
<1>14. ClientInv(d)
  BY <1>4, <1>7, <1>9, <1>10, <1>11, <1>13, EventKeeps
<1> QED BY <1>8, <1>10, <1>12, <1>14 DEF task

\* A connection ends with an error, of its own or of the write it carried.
LEMMA BreaksIs ==
  ASSUME NEW c, ClientInv(c), NEW s \in Streams, IsOpen(c, s), c.chan[s].gen # 0,
         NEW err \in {"transient", "permanent"},
         err = "permanent" =>
           s = "write" /\ c.stream["write"].seen /\ c.chan["write"].out # <<>>
  PROVE  LET d == ChannelBreaks(c, s, err)
             task == Task("close", s, c.chan[s].gen, err) IN
         /\ ClientInv(d) /\ Called(c, d, task)
         /\ d.chan[s].gen = 0
         /\ \A r \in Streams \ {s} : d.chan[r] = c.chan[r]
<1> DEFINE task == Task("close", s, c.chan[s].gen, err)
           b == EnqueueTask(c, task)
           d == [b EXCEPT !.chan[s] = NoChannel]
<1>1. c \in Client /\ Exchange(c) /\ \A r \in Streams : StreamInv(c, r)
  BY BothStreams
<1>2. c.chan[s].gen = c.stream[s].closes + 1 /\ c.chan[s].gen \in Nat
  BY <1>1 DEF StreamInv, Client, ChannelSet
<1>3. /\ task \in TaskSet /\ task.kind = "close" /\ task.on = s
      /\ task.gen = c.stream[s].closes + 1 /\ task.arg = err
  BY <1>2 DEF Task, TaskSet, StreamTask
<1>4. ChannelBreaks(c, s, err) = d
  BY DEF ChannelBreaks, Dispatch
<1> HIDE DEF task
<1>5. Called(c, b, task) /\ b.timers = c.timers /\ b.chan = c.chan /\ b.listens = c.listens
  BY <1>1, <1>3, EnqueueIs
<1> HIDE DEF b
<1>6. /\ d \in Client /\ d.queue = b.queue /\ d.timers = b.timers /\ d.listens = b.listens
      /\ d.chan[s] = NoChannel /\ \A r \in Streams \ {s} : d.chan[r] = c.chan[r]
      /\ Called(c, d, task)
  BY <1>5, ChannelTypes DEF Client, Called, Grown
<1> HIDE DEF d
<1>7. d.chan[s].gen = 0 /\ d.chan[s].out = <<>>
  BY <1>6, ChannelTypes
<1>8. StreamInv(d, s)
  BY <1>1, <1>3, <1>5, <1>6, <1>7, EventStream
<1>9. Exchange(d)
  <2>1. CASE err = "permanent"
    BY <1>1, <1>3, <1>6, <1>7, <2>1, DueExchange DEF IsOpen
  <2>2. CASE err = "transient"
    <3>1. d.chan["write"].out \in {<<>>, c.chan["write"].out}
      BY <1>6, <1>7 DEF Streams
    <3> QED BY <1>1, <1>3, <1>6, <2>2, <3>1, UndueExchange
  <2> QED BY <2>1, <2>2
<1>10. ClientInv(d)
  BY <1>3, <1>5, <1>6, <1>8, <1>9, EventKeeps
<1> QED BY <1>4, <1>6, <1>7, <1>10 DEF task

\* The server answers the request at the head of a channel.
LEMMA AnswersIs ==
  ASSUME NEW c, ClientInv(c), NEW s \in Streams, c.chan[s].out # <<>>, NEW msg,
         s = "listen" => msg \in WatchMsg,
         s = "write" => /\ msg \in WriteMsg
                        /\ msg.kind = IF c.stream["write"].seen THEN "result" ELSE "token"
  PROVE  LET d == ChannelAnswers(c, s, msg)
             task == Task("message", s, c.chan[s].gen, msg) IN
         /\ ClientInv(d) /\ Called(c, d, task)
         /\ \A r \in Streams : d.chan[r].gen = c.chan[r].gen
         /\ \A r \in Streams \ {s} : d.chan[r] = c.chan[r]
         /\ d.chan[s].out = Tail(c.chan[s].out)
<1> DEFINE task == Task("message", s, c.chan[s].gen, msg)
           new == [c.chan[s] EXCEPT !.out = Tail(c.chan[s].out)]
           b == [c EXCEPT !.chan[s] = new]
           d == EnqueueTask(b, task)
<1>1. c \in Client /\ Exchange(c) /\ \A r \in Streams : StreamInv(c, r)
  BY BothStreams
<1>2. IsOpen(c, s) /\ c.chan[s].gen = c.stream[s].closes + 1 /\ c.chan[s].gen # 0
  BY <1>1, OutIsOpen
<1>3. c.chan[s] \in ChannelSet /\ c.chan[s].gen \in Nat /\ c.chan[s].out \in Seq(Request)
  BY <1>1 DEF Client, ChannelSet
<1>4. /\ task \in TaskSet /\ task.kind = "message" /\ task.on = s
      /\ task.gen = c.stream[s].closes + 1 /\ task.arg = msg
  BY <1>2, <1>3 DEF Task, TaskSet, StreamTask, Streams
<1>5. new \in ChannelSet /\ new.gen = c.chan[s].gen /\ new.out = Tail(c.chan[s].out)
  <2>1. Tail(c.chan[s].out) \in Seq(Request)
    BY <1>3
  <2> QED BY <1>3, <2>1 DEF ChannelSet
<1>6. [c EXCEPT !.chan[s].out = Tail(@)] = b
  BY <1>1 DEF Client
<1> HIDE DEF new
<1>7. /\ b \in Client /\ b.queue = c.queue /\ b.timers = c.timers /\ b.listens = c.listens
      /\ b.chan[s] = new /\ \A r \in Streams \ {s} : b.chan[r] = c.chan[r]
      /\ \A e : Called(b, e, task) => Called(c, e, task)
  BY <1>1, <1>5, ChannelReplaced
<1>8. ChannelAnswers(c, s, msg) = d
  BY <1>5, <1>6, <1>7 DEF ChannelAnswers, Dispatch
<1> HIDE DEF b, task
<1>9. Called(b, d, task) /\ d.timers = b.timers /\ d.chan = b.chan /\ d.listens = b.listens
  BY <1>4, <1>7, EnqueueIs
<1> HIDE DEF d
<1>10. Called(c, d, task)
  BY <1>7, <1>9 DEF Called, Grown
<1>11. StreamInv(d, s)
  BY <1>1, <1>2, <1>4, <1>5, <1>7, <1>9, <1>10, EventStream
<1>12. /\ \A r \in Streams : d.chan[r].gen = c.chan[r].gen
       /\ \A r \in Streams \ {s} : d.chan[r] = c.chan[r]
       /\ d.chan[s].out = Tail(c.chan[s].out)
  BY <1>5, <1>7, <1>9
<1>13. Exchange(d)
  <2>1. CASE s = "write"
    <3>1. Len(c.chan["write"].out) = 1 /\ c.chan["write"].out \in Seq(Request)
      BY <1>1, <1>3, <2>1 DEF Exchange
    <3>2. Tail(c.chan["write"].out) = <<>>
      <4> DEFINE out == c.chan["write"].out
      <4>1. out \in Seq(Request) /\ out # <<>> /\ Len(out) = 1
        BY <2>1, <3>1
      <4> HIDE DEF out
      <4>2. Tail(out) \in Seq(Request) /\ Len(Tail(out)) = 0
        BY <4>1, HeadTailProperties
      <4> QED BY <4>2, EmptySeq DEF out
    <3> QED BY <1>1, <1>2, <1>4, <1>10, <1>12, <2>1, <3>2, DueExchange DEF IsOpen
  <2>2. CASE s = "listen"
    <3>1. d.chan["write"] = c.chan["write"]
      BY <1>12, <2>2 DEF Streams
    <3> QED BY <1>1, <1>4, <1>10, <2>2, <3>1, UndueExchange
  <2> QED BY <2>1, <2>2 DEF Streams
<1>14. ClientInv(d)
  BY <1>4, <1>7, <1>9, <1>10, <1>11, <1>12, <1>13, EventKeeps
<1> QED BY <1>8, <1>10, <1>12, <1>14 DEF task

\* The server says something of its own over the watch stream.
LEMMA MessageIs ==
  ASSUME NEW c, ClientInv(c), IsOpen(c, "listen"), c.chan["listen"].gen # 0,
         NEW msg \in WatchMsg
  PROVE  LET d == ChannelMessage(c, "listen", msg)
             task == Task("message", "listen", c.chan["listen"].gen, msg) IN
         ClientInv(d) /\ Called(c, d, task) /\ d.chan = c.chan
<1> DEFINE task == Task("message", "listen", c.chan["listen"].gen, msg)
           d == EnqueueTask(c, task)
<1>1. c \in Client /\ Exchange(c) /\ \A r \in Streams : StreamInv(c, r)
  BY BothStreams
<1>2. /\ c.chan["listen"].gen = c.stream["listen"].closes + 1
      /\ c.chan["listen"].gen \in Nat /\ "listen" \in Streams
  BY <1>1 DEF StreamInv, Client, ChannelSet, Streams
<1>3. /\ task \in TaskSet /\ task.kind = "message" /\ task.on = "listen"
      /\ task.gen = c.stream["listen"].closes + 1
  BY <1>2 DEF Task, TaskSet, StreamTask
<1>4. ChannelMessage(c, "listen", msg) = d
  BY DEF ChannelMessage, Dispatch
<1> HIDE DEF task
<1>5. Called(c, d, task) /\ d.timers = c.timers /\ d.chan = c.chan /\ d.listens = c.listens
  BY <1>1, <1>3, EnqueueIs
<1> HIDE DEF d
<1>6. StreamInv(d, "listen")
  BY <1>1, <1>2, <1>3, <1>5, EventStream
<1>7. Exchange(d)
  BY <1>1, <1>3, <1>5, UndueExchange
<1>8. ClientInv(d)
  BY <1>2, <1>3, <1>5, <1>6, <1>7, EventKeeps
<1> QED BY <1>4, <1>5, <1>8 DEF task

-----------------------------------------------------------------------------
(* Client and server.                                                      *)

Server == [version : Nat, note : Nat, listening : BOOLEAN, stray : BOOLEAN,
           feed : [on : BOOLEAN, current : BOOLEAN, sent : Nat, snap : Nat]]

Results(c) ==
  {i \in 1..Len(c.queue) : /\ c.queue[i].on = "write" /\ c.queue[i].kind = "message"
                           /\ c.queue[i].arg.kind = "result"}

\* The server has the write before its answer is on the way.
StoredInv(c, sv) == c.wrote = "resolved" \/ Results(c) # {} => sv.listening

\* The server feeds an open stream only.
FeedInv(c, sv) == sv.feed.on => IsOpen(c, "listen") /\ c.chan["listen"].gen # 0

ConnInv(c, sv) == ClientInv(c) /\ sv \in Server /\ StoredInv(c, sv) /\ FeedInv(c, sv)

\* A call of the page, of a timer, or of a channel.
LEMMA ConnKept ==
  ASSUME NEW c, NEW sv, ConnInv(c, sv), NEW d, ClientInv(d), NEW task, Called(c, d, task),
         NEW tv \in Server, sv.listening => tv.listening,
         task.on = "write" /\ task.kind = "message" /\ task.arg.kind = "result" => tv.listening,
         tv.feed.on => IsOpen(c, "listen") /\ d.chan["listen"].gen # 0
  PROVE  ConnInv(d, tv)
<1>1. c \in Client /\ d \in Client /\ Grown(c, d, task)
  BY DEF ConnInv, ClientInv, Called
<1>2. \A i \in 1..Len(d.queue) :
        (i \in 1..Len(c.queue) /\ d.queue[i] = c.queue[i]) \/ d.queue[i] = task
  BY <1>1, GrownTasks
<1>3. Results(d) # {} => Results(c) # {} \/ tv.listening
  BY <1>2 DEF Results
<1>4. StoredInv(d, tv)
  BY <1>3 DEF ConnInv, StoredInv, Called
<1>5. FeedInv(d, tv)
  BY DEF FeedInv, Called, IsOpen
<1> QED BY <1>4, <1>5 DEF ConnInv

\* The server's record after its own steps.
LEMMA ServerIs ==
  ASSUME NEW sv \in Server
  PROVE  /\ Listening(sv) \in Server /\ Listening(sv).listening
         /\ Listening(sv).feed = sv.feed
         /\ [Listening(sv) EXCEPT !.stray = FALSE] \in Server
         /\ [Listening(sv) EXCEPT !.stray = FALSE].listening
         /\ [Listening(sv) EXCEPT !.stray = FALSE].feed = sv.feed
         /\ NoFeed \in [on : BOOLEAN, current : BOOLEAN, sent : Nat, snap : Nat]
         /\ ~NoFeed.on
         /\ sv.version \in Nat /\ sv.note \in Nat
<1>1. Listening(sv) \in Server /\ Listening(sv).listening /\ Listening(sv).feed = sv.feed
  <2>1. CASE sv.listening
    BY <2>1 DEF Listening
  <2>2. CASE ~sv.listening
    <3> DEFINE new == sv.version + 1
               w == [sv EXCEPT !.listening = TRUE, !.version = new]
    <3>1. new \in Nat
      BY DEF Server
    <3>2. Listening(sv) = w
      BY <2>2 DEF Listening
    <3> HIDE DEF new
    <3>3. w \in Server /\ w.listening /\ w.feed = sv.feed
      BY <3>1 DEF Server
    <3> QED BY <3>2, <3>3
  <2> QED BY <2>1, <2>2
<1>2. NoFeed \in [on : BOOLEAN, current : BOOLEAN, sent : Nat, snap : Nat] /\ ~NoFeed.on
  BY DEF NoFeed
<1> HIDE DEF NoFeed
<1> QED BY <1>1, <1>2 DEF Server

\* What a step of the client makes of the connections it had.
LEMMA LeaveIs ==
  ASSUME server \in Server, NEW d, Leave(d), d.chan["write"].gen \in Nat
  PROVE  /\ client' = d /\ server' \in Server
         /\ server'.listening = server.listening
         /\ d.chan["listen"].gen # client.chan["listen"].gen => ~server'.feed.on
         /\ d.chan["listen"].gen = client.chan["listen"].gen => server'.feed = server.feed
<1> DEFINE stray == \/ server.stray
                    \/ d.chan["write"].gen # client.chan["write"].gen /\ Writes(client) # {}
           feed == IF d.chan["listen"].gen # client.chan["listen"].gen THEN NoFeed
                   ELSE server.feed
<1>1. client' = d /\ server' = [server EXCEPT !.stray = stray, !.feed = feed]
  BY DEF Leave
<1>2. stray \in BOOLEAN
  BY DEF Server
<1>3. feed \in [on : BOOLEAN, current : BOOLEAN, sent : Nat, snap : Nat]
  BY ServerIs DEF Server
<1>4. ~NoFeed.on
  BY DEF NoFeed
<1> HIDE DEF stray
<1>5. server' \in Server /\ server'.listening = server.listening /\ server'.feed = feed
  <2> HIDE DEF feed
  <2> QED BY <1>1, <1>2, <1>3 DEF Server
<1> QED BY <1>1, <1>4, <1>5

\* The run of a task.
LEMMA RunTaskKeeps ==
  ASSUME ConnInv(client, server), RunTask
  PROVE  ConnInv(client, server)'
<1> DEFINE c == [client EXCEPT !.queue = Tail(@)]
           task == Head(client.queue)
           d == Perform(c, task)
<1>1. ClientInv(client) /\ server \in Server /\ client \in Client /\ client.queue # <<>>
      /\ Leave(d)
  BY DEF ConnInv, ClientInv, RunTask
<1>2. /\ ClientInv(d) /\ OpenKept(client, d) /\ Quieter(c.queue, d.queue)
      /\ d.wrote = "resolved" =>
           \/ client.wrote = "resolved"
           \/ task.on = "write" /\ task.kind = "message" /\ task.arg.kind = "result"
  BY <1>1, PerformKeeps
<1>3. /\ c \in Client /\ task = client.queue[1] /\ 1 \in 1..Len(client.queue)
      /\ \A i \in 1..Len(c.queue) :
           c.queue[i] = client.queue[i + 1] /\ i + 1 \in 1..Len(client.queue)
  BY <1>1, TailQueue
<1> HIDE DEF c, task, d
<1>4. d \in Client /\ d.chan["write"].gen \in Nat
  BY <1>2 DEF ClientInv, Client, ChannelSet, Streams
<1>5. /\ client' = d /\ server' \in Server /\ server'.listening = server.listening
      /\ d.chan["listen"].gen # client.chan["listen"].gen => ~server'.feed.on
      /\ d.chan["listen"].gen = client.chan["listen"].gen => server'.feed = server.feed
  BY <1>1, <1>4, LeaveIs
<1>6. Results(d) # {} => Results(client) # {}
  <2>1. ASSUME NEW i \in Results(d) PROVE i + 1 \in Results(client)
    <3>1. i \in 1..Len(d.queue) /\ Len(d.queue) \in Nat /\ Len(c.queue) \in Nat
      BY <1>3, <1>4 DEF Results, Client
    <3>2. i \in 1..Len(c.queue) /\ (d.queue[i] = c.queue[i] \/ d.queue[i].kind = "cancelled")
      BY <1>2, <3>1 DEF Quieter
    <3> QED BY <1>3, <3>2 DEF Results
  <2> QED BY <2>1
<1>7. StoredInv(d, server')
  <2>1. d.wrote = "resolved" => client.wrote = "resolved" \/ Results(client) # {}
    BY <1>2, <1>3 DEF Results
  <2> QED BY <1>5, <1>6, <2>1 DEF ConnInv, StoredInv
<1>8. FeedInv(d, server')
  BY <1>2, <1>5 DEF ConnInv, FeedInv, OpenKept
<1> QED BY <1>2, <1>5, <1>7, <1>8 DEF ConnInv

\* The other steps of the client's side.
LEMMA CallsKeep ==
  ASSUME ConnInv(client, server),
         \/ PageListens \/ NetworkChanges
         \/ \E t \in Timers : TimerElapses(t)
         \/ \E s \in Streams : Opens(s) \/ Links(s)
  PROVE  ConnInv(client, server)'
<1>1. ClientInv(client) /\ server \in Server /\ FeedInv(client, server)
  BY DEF ConnInv
<1>2. CASE PageListens
  <2> DEFINE task == Task("onSnapshot", "page", 0, "none")
  <2>1. task.kind = "onSnapshot"
    BY DEF Task
  <2> HIDE DEF task
  <2>2. ClientInv(client') /\ Called(client, client', task) /\ client'.chan = client.chan
        /\ server' = server
    BY <1>1, <1>2, PageListensIs DEF PageListens, task
  <2> QED BY <1>1, <2>1, <2>2, ConnKept DEF FeedInv
<1>3. CASE NetworkChanges
  <2> DEFINE task == Task("network", "page", 0, "none")
  <2>1. task.kind = "network"
    BY DEF Task
  <2> HIDE DEF task
  <2>2. ClientInv(client') /\ Called(client, client', task) /\ client'.chan = client.chan
        /\ server' = server
    BY <1>1, <1>3, NetworkIs DEF NetworkChanges, task
  <2> QED BY <1>1, <2>1, <2>2, ConnKept DEF FeedInv
<1>4. ASSUME NEW t \in Timers, TimerElapses(t)
      PROVE  ConnInv(client', server')
  <2> DEFINE task == Task("timer", t, 0, "none")
  <2>1. task.kind = "timer"
    BY DEF Task
  <2> HIDE DEF task
  <2>2. ClientInv(client') /\ Called(client, client', task) /\ client'.chan = client.chan
        /\ server' = server
    BY <1>1, <1>4, ElapseIs DEF TimerElapses, task
  <2> QED BY <1>1, <2>1, <2>2, ConnKept DEF FeedInv
<1>5. ASSUME NEW s \in Streams, Opens(s)
      PROVE  ConnInv(client', server')
  <2> DEFINE task == Task("open", s, client.stream[s].closes + 1, "none")
  <2>1. task.kind = "open"
    BY DEF Task
  <2> HIDE DEF task
  <2>2. ClientInv(client') /\ Called(client, client', task) /\ server' = server
        /\ \A r \in Streams : IsOpen(client, r) => client'.chan[r] = client.chan[r]
    BY <1>1, <1>5, OpensIs DEF Opens, task
  <2> QED BY <1>1, <2>1, <2>2, ConnKept DEF FeedInv, Streams
<1>6. ASSUME NEW s \in Streams, Links(s)
      PROVE  ConnInv(client', server')
  <2> DEFINE task == Task("connected", s, client.chan[s].gen, "none")
  <2>1. task.kind = "connected"
    BY DEF Task
  <2> HIDE DEF task
  <2>2. ClientInv(client') /\ Called(client, client', task) /\ server' = server
        /\ \A r \in Streams : client'.chan[r].gen = client.chan[r].gen
    BY <1>1, <1>6, LinksIs DEF Links, task
  <2> QED BY <1>1, <2>1, <2>2, ConnKept DEF FeedInv, Streams
<1> QED BY <1>2, <1>3, <1>4, <1>5, <1>6

\* A connection breaks, or the server refuses what it carried.
LEMMA BreaksKeep ==
  ASSUME ConnInv(client, server),
         ServerRefusesWrite \/ \E s \in Streams : Breaks(s)
  PROVE  ConnInv(client, server)'
<1>1. /\ ClientInv(client) /\ server \in Server /\ FeedInv(client, server)
      /\ client \in Client /\ "write" \in Streams
  BY DEF ConnInv, ClientInv, Streams
<1>2. ASSUME NEW s \in Streams, Breaks(s)
      PROVE  ConnInv(client', server')
  <2> DEFINE task == Task("close", s, client.chan[s].gen, "transient")
             d == ChannelBreaks(client, s, "transient")
  <2>1. task.kind = "close"
    BY DEF Task
  <2>2. /\ ClientInv(d) /\ Called(client, d, task) /\ d.chan[s].gen = 0
        /\ \A r \in Streams \ {s} : d.chan[r] = client.chan[r]
    BY <1>1, <1>2, BreaksIs DEF Breaks
  <2> HIDE DEF task, d
  <2>3. d.chan["write"].gen \in Nat
    BY <2>2 DEF ClientInv, Client, ChannelSet, Streams
  <2>4. /\ client' = d /\ server' \in Server /\ server'.listening = server.listening
        /\ d.chan["listen"].gen # client.chan["listen"].gen => ~server'.feed.on
        /\ d.chan["listen"].gen = client.chan["listen"].gen => server'.feed = server.feed
    BY <1>1, <1>2, <2>3, LeaveIs DEF Breaks, d
  <2> QED BY <1>1, <2>1, <2>2, <2>4, ConnKept DEF FeedInv
<1>3. ASSUME ServerRefusesWrite
      PROVE  ConnInv(client', server')
  <2> DEFINE task == Task("close", "write", client.chan["write"].gen, "permanent")
  <2>1. task.kind = "close"
    BY DEF Task
  <2>2. /\ client.chan["write"].out # <<>> /\ server' = server
        /\ Head(client.chan["write"].out).kind = "write"
        /\ client' = ChannelBreaks(client, "write", "permanent")
    BY <1>3 DEF ServerRefusesWrite, Receives
  <2>3. Exchange(client) /\ StreamInv(client, "write")
    BY <1>1, BothStreams
  <2>4. client.stream["write"].seen
    BY <2>2, <2>3 DEF Exchange
  <2>5. IsOpen(client, "write") /\ client.chan["write"].gen # 0
    BY <1>1, <2>2, <2>3, OutIsOpen
  <2> HIDE DEF task
  <2>6. /\ ClientInv(client') /\ Called(client, client', task)
        /\ \A r \in Streams \ {"write"} : client'.chan[r] = client.chan[r]
    BY <1>1, <2>2, <2>4, <2>5, BreaksIs DEF task
  <2> QED BY <1>1, <2>1, <2>2, <2>6, ConnKept DEF FeedInv, Streams
<1> QED BY <1>2, <1>3

\* The server answers on one of the channels.
LEMMA AnswersKeep ==
  ASSUME ConnInv(client, server), ServerGreets \/ ServerWrites \/ ServerAddsTarget
  PROVE  ConnInv(client, server)'
<1>1. /\ ClientInv(client) /\ server \in Server /\ FeedInv(client, server)
      /\ client \in Client /\ Exchange(client) /\ \A s \in Streams : StreamInv(client, s)
  BY BothStreams DEF ConnInv
<1>2. CASE ServerGreets
  <2> DEFINE msg == [kind |-> "token", version |-> 0, note |-> 0]
             task == Task("message", "write", client.chan["write"].gen, msg)
  <2>1. msg \in WriteMsg /\ msg.kind = "token" /\ task.kind = "message"
        /\ task.arg = msg /\ task.on = "write"
    BY DEF WriteMsg, Task
  <2>2. /\ client.chan["write"].out # <<>> /\ server' = server
        /\ Head(client.chan["write"].out).kind = "hello"
        /\ client' = ChannelAnswers(client, "write", msg)
    BY <1>2 DEF ServerGreets, Receives, Answer
  <2> HIDE DEF msg, task
  <2>3. ~client.stream["write"].seen
    BY <1>1, <2>2 DEF Exchange
  <2>4. /\ ClientInv(client') /\ Called(client, client', task)
        /\ \A r \in Streams : client'.chan[r].gen = client.chan[r].gen
    BY <1>1, <2>1, <2>2, <2>3, AnswersIs DEF Streams, task
  <2> QED BY <1>1, <2>1, <2>2, <2>4, ConnKept DEF FeedInv, Streams
<1>3. CASE ServerWrites
  <2> DEFINE msg == [kind |-> "result", version |-> server'.version, note |-> 0]
             task == Task("message", "write", client.chan["write"].gen, msg)
  <2>1. /\ client.chan["write"].out # <<>> /\ server' = Listening(server)
        /\ Head(client.chan["write"].out).kind = "write"
        /\ client' = ChannelAnswers(client, "write", msg)
    BY <1>3 DEF ServerWrites, Receives, Answer
  <2>2. server' \in Server /\ server'.listening /\ server'.feed = server.feed
        /\ server'.version \in Nat
    BY <1>1, <2>1, ServerIs
  <2>3. msg \in WriteMsg /\ msg.kind = "result" /\ task.kind = "message"
        /\ task.arg = msg /\ task.on = "write"
    BY <2>2 DEF WriteMsg, Task
  <2> HIDE DEF msg, task
  <2>4. client.stream["write"].seen
    BY <1>1, <2>1 DEF Exchange
  <2>5. /\ ClientInv(client') /\ Called(client, client', task)
        /\ \A r \in Streams : client'.chan[r].gen = client.chan[r].gen
    BY <1>1, <2>1, <2>3, <2>4, AnswersIs DEF Streams, task
  <2> QED BY <1>1, <2>2, <2>5, ConnKept DEF FeedInv, Streams
<1>4. CASE ServerAddsTarget
  <2> DEFINE msg == [kind |-> "added", version |-> 0, note |-> 0]
             task == Task("message", "listen", client.chan["listen"].gen, msg)
             feed == [on |-> TRUE, current |-> FALSE, snap |-> 0,
                      sent |-> Head(client.chan["listen"].out).version]
  <2>1. msg \in WatchMsg /\ task.on = "listen"
    BY DEF WatchMsg, Task
  <2>2. /\ client.chan["listen"].out # <<>> /\ server' = [server EXCEPT !.feed = feed]
        /\ client' = ChannelAnswers(client, "listen", msg)
    BY <1>4 DEF ServerAddsTarget, Receives, Answer
  <2>3. Head(client.chan["listen"].out).version \in Nat
    <3>1. client.chan["listen"].out \in Seq(Request)
      BY <1>1 DEF Client, ChannelSet, Streams
    <3>2. Head(client.chan["listen"].out) \in Request
      BY <2>2, <3>1
    <3> QED BY <3>2 DEF Request
  <2>4. feed \in [on : BOOLEAN, current : BOOLEAN, sent : Nat, snap : Nat]
    BY <2>3
  <2> HIDE DEF msg, task, feed
  <2>5. server' \in Server /\ server'.listening = server.listening
    BY <1>1, <2>2, <2>4 DEF Server
  <2>6. IsOpen(client, "listen") /\ client.chan["listen"].gen # 0
    BY <1>1, <2>2, OutIsOpen DEF Streams
  <2>7. /\ ClientInv(client') /\ Called(client, client', task)
        /\ \A r \in Streams : client'.chan[r].gen = client.chan[r].gen
    BY <1>1, <2>1, <2>2, AnswersIs DEF Streams, task
  <2> QED BY <1>1, <2>1, <2>5, <2>6, <2>7, ConnKept DEF Streams
<1> QED BY <1>2, <1>3, <1>4

\* The server says something of the target.
LEMMA PushKeeps ==
  ASSUME ConnInv(client, server), NEW kind, NEW feed, Push(kind, feed),
         kind \in {"refused", "doc", "current", "reset", "snapshot"},
         feed \in [on : BOOLEAN, current : BOOLEAN, sent : Nat, snap : Nat]
  PROVE  ConnInv(client, server)'
<1> DEFINE msg == [kind |-> kind, version |-> feed.sent, note |-> server.note]
           task == Task("message", "listen", client.chan["listen"].gen, msg)
<1>1. ClientInv(client) /\ server \in Server /\ FeedInv(client, server)
  BY DEF ConnInv
<1>2. /\ IsOpen(client, "listen") /\ client.chan["listen"].gen # 0
      /\ client' = ChannelMessage(client, "listen", msg)
      /\ server' = [server EXCEPT !.feed = feed]
  BY <1>1 DEF Push, FeedInv
<1>3. msg \in WatchMsg /\ task.on = "listen"
  BY <1>1 DEF WatchMsg, Server, Task
<1> HIDE DEF msg, task
<1>4. server' \in Server /\ server'.listening = server.listening
  BY <1>1, <1>2 DEF Server
<1>5. ClientInv(client') /\ Called(client, client', task) /\ client'.chan = client.chan
  BY <1>1, <1>2, <1>3, MessageIs DEF task
<1> QED BY <1>2, <1>3, <1>4, <1>5, ConnKept

\* The feed of the server keeps the invariant.
LEMMA PushesKeep ==
  ASSUME ConnInv(client, server),
         \/ ServerPushesDoc \/ ServerPushesCurrent \/ ServerPushesSnapshot
         \/ ServerRefusesTarget \/ ServerResets
  PROVE  ConnInv(client, server)'
<1> DEFINE Feed == [on : BOOLEAN, current : BOOLEAN, sent : Nat, snap : Nat]
<1>1. server \in Server /\ server.feed \in Feed /\ server.version \in Nat
  BY DEF ConnInv, Server
<1>2. /\ [server.feed EXCEPT !.sent = server.version] \in Feed
      /\ [server.feed EXCEPT !.current = TRUE] \in Feed
      /\ [server.feed EXCEPT !.snap = server.feed.sent] \in Feed
      /\ NoFeed \in Feed /\ [NoFeed EXCEPT !.on = TRUE] \in Feed
  BY <1>1 DEF NoFeed
<1> HIDE DEF Feed
<1>3. CASE ServerPushesDoc
  BY <1>2, <1>3, PushKeeps DEF ServerPushesDoc, Feed
<1>4. CASE ServerPushesCurrent
  BY <1>2, <1>4, PushKeeps DEF ServerPushesCurrent, Feed
<1>5. CASE ServerPushesSnapshot
  BY <1>2, <1>5, PushKeeps DEF ServerPushesSnapshot, Feed
<1>6. CASE ServerRefusesTarget
  BY <1>2, <1>6, PushKeeps DEF ServerRefusesTarget, Feed
<1>7. CASE ServerResets
  BY <1>2, <1>7, PushKeeps DEF ServerResets, Feed
<1> QED BY <1>3, <1>4, <1>5, <1>6, <1>7

\* The server's own writes.
LEMMA NotesKeep ==
  ASSUME ConnInv(client, server), StrayArrives \/ ServerNotes
  PROVE  ConnInv(client, server)'
<1>1. ClientInv(client) /\ server \in Server
  BY DEF ConnInv
<1>2. CASE StrayArrives
  BY <1>1, <1>2, ServerIs DEF StrayArrives, ConnInv, StoredInv, FeedInv
<1>3. CASE ServerNotes
  <2>1. server' \in Server /\ server'.listening = server.listening
        /\ server'.feed = server.feed /\ client' = client
    <3> DEFINE n == server.note + 1
               v == server.version + 1
               w == [server EXCEPT !.note = n, !.version = v]
    <3>1. n \in Nat /\ v \in Nat
      BY <1>1 DEF Server
    <3>2. server' = w /\ client' = client
      BY <1>3 DEF ServerNotes
    <3> HIDE DEF n, v
    <3>3. w \in Server /\ w.listening = server.listening /\ w.feed = server.feed
      BY <1>1, <3>1 DEF Server
    <3> QED BY <3>2, <3>3
  <2> QED BY <1>1, <2>1 DEF ConnInv, StoredInv, FeedInv
<1> QED BY <1>2, <1>3

\* The client starts with the page's call in its queue.
LEMMA InitClientIs == ClientInv(InitClient)
<1> DEFINE task == Task("setDoc", "page", 0, "none")
           c == InitClient
<1>1. task \in TaskSet /\ task.kind = "setDoc" /\ task.on = "page"
  BY DEF Task, TaskSet, PageTask
<1>2. /\ NewStream \in StreamSet /\ NewStream.state = "initial" /\ NewStream.closes = 0
      /\ ~NewStream.seen
  BY DEF NewStream, StreamSet, StreamState
<1>3. /\ NoAgg \in AggSet /\ InvalidDoc \in DocSet /\ NoView \in ViewSet
      /\ NewListener \in ListenerSet /\ ~NoView.on /\ ~NoView.current /\ ~NewListener.on
  <2>1. InvalidDoc \in DocSet
    BY DEF InvalidDoc, Doc, DocSet
  <2> HIDE DEF InvalidDoc
  <2>2. NoView \in ViewSet /\ ~NoView.on /\ ~NoView.current
    BY <2>1 DEF NoView, ViewSet
  <2>3. NewListener \in ListenerSet /\ ~NewListener.on
    BY DEF NewListener, ListenerSet
  <2>4. NoAgg \in AggSet
    BY <2>1 DEF NoAgg, AggSet, TargetChange
  <2> QED BY <2>1, <2>2, <2>3, <2>4
<1>4. /\ NewRemote.pipeline = <<>> /\ NewRemote.target \in [on : BOOLEAN, token : Nat]
      /\ ~NewRemote.target.on /\ NewRemote.blocked = FALSE
  BY DEF NewRemote
<1>5. /\ NoChannel \in ChannelSet /\ NoChannel.gen = 0 /\ NoChannel.out = <<>>
  BY ChannelTypes
<1> HIDE DEF task
<1>6. <<task>> \in Seq(TaskSet) /\ Len(<<task>>) = 1 /\ <<task>>[1] = task
  BY <1>1
<1>7. /\ c \in Client /\ c.queue = <<task>> /\ c.failed = FALSE /\ c.blocked = FALSE
      /\ \A s \in Streams : c.stream[s] = NewStream /\ c.chan[s] = NoChannel
      /\ \A t \in Timers : c.timers[t] = "off"
      /\ c.online = "Unknown" /\ c.view = NoView /\ c.listener = NewListener
      /\ c.batches = <<>> /\ c.pipeline = <<>> /\ c.wrote = "pending" /\ c.listens = FALSE
      /\ ~c.target.on
  BY <1>2, <1>3, <1>4, <1>5, <1>6, FewCases
     DEF InitClient, Client, OnlineState, TimerState, task
<1> HIDE DEF c
<1>8. \A s \in Streams : Live(c, s) = {} /\ Ticks(c, s) = {}
  BY <1>1, <1>6, <1>7 DEF Live, Ticks, Streams
<1>9. \A s \in Streams : s \in Timers /\ s # "page"
  BY DEF Streams, Timers
<1>10. ASSUME NEW s \in Streams PROVE StreamInv(c, s)
  <2>1. /\ c.stream[s].state = "initial" /\ c.stream[s].closes = 0
        /\ c.chan[s].gen = 0 /\ c.chan[s].out = <<>> /\ c.timers[s] = "off"
    BY <1>2, <1>5, <1>7, <1>9
  <2>2. \A i \in 1..Len(c.queue) : c.queue[i].on # s
    BY <1>1, <1>6, <1>7, <1>9
  <2> QED BY <2>1, <2>2, <1>8 DEF StreamInv
<1>11. "write" \in Streams /\ "listen" \in Streams
  BY DEF Streams
<1>12. WatchInv(c)
  BY <1>3, <1>7, <1>10, <1>11 DEF WatchInv, CurrentInv
<1>13. WriteKept(c)
  <2>1. Due(c) = {} /\ Answers(c) = {} /\ Refusals(c) = {}
    BY <1>8, <1>11 DEF Due, Answers, Refusals
  <2>2. Exchange(c)
    BY <1>2, <1>5, <1>7, <1>11, <2>1 DEF Exchange
  <2> QED BY <1>7, <1>10, <1>11, <2>2 DEF WriteKept, WriteCore, PipelineInv
<1>14. WriteOnce(c)
  BY <1>6, <1>7 DEF WriteOnce, SetDocs
<1>15. ListenOnce(c)
  <2>1. OnSnapshots(c) = {}
    BY <1>1, <1>6, <1>7 DEF OnSnapshots
  <2>2. AtRest(c)
    BY <1>2, <1>3, <1>7, <1>11 DEF AtRest, IsStarted, IsOpen
  <2> QED BY <1>7, <2>1, <2>2 DEF ListenOnce
<1> QED BY <1>7, <1>12, <1>13, <1>14, <1>15 DEF ClientInv, c

\* Between any two steps the client's streams, pipeline and queue are in
\* order, and the server has what the client takes for stored.
THEOREM ConnectionInvariant == Spec => []ConnInv(client, server)
<1>1. Init => ConnInv(client, server)
  <2> SUFFICES ASSUME Init PROVE ConnInv(client, server)
    OBVIOUS
  <2>1. client = InitClient
    BY DEF Init
  <2>2. PICK n \in {0, 1} :
          server = [version |-> n, note |-> n, listening |-> FALSE, stray |-> FALSE,
                    feed |-> NoFeed]
    BY DEF Init
  <2>3. server \in Server /\ ~server.feed.on
    BY <2>2 DEF Server, NoFeed
  <2>4. client.wrote # "resolved" /\ Results(client) = {}
    BY <2>1 DEF InitClient, Results, Task
  <2> QED BY <2>1, <2>3, <2>4, InitClientIs DEF ConnInv, StoredInv, FeedInv
<1>2. ConnInv(client, server) /\ [Next]_vars => ConnInv(client, server)'
  <2> SUFFICES ASSUME ConnInv(client, server), [Next]_vars
               PROVE  ConnInv(client, server)'
    OBVIOUS
  <2>1. CASE UNCHANGED vars
    BY <2>1 DEF vars
  <2>2. CASE Next
    BY <2>2, RunTaskKeeps, CallsKeep, BreaksKeep, AnswersKeep, PushesKeep, NotesKeep
       DEF Next, Channels, ServerStep, Faults
  <2> QED BY <2>1, <2>2
<1> QED BY <1>1, <1>2, PTL DEF Spec

\* The client calls itself online only while its watch stream is open, and a
\* view current only while it is not offline.
THEOREM OnlineIsTrueAlways == Spec => []OnlineIsTrue
<1>1. ConnInv(client, server) => OnlineIsTrue
  BY DEF ConnInv, ClientInv, WatchInv, CurrentInv, OnlineIsTrue
<1> QED BY <1>1, ConnectionInvariant, PTL

\* A target or a pending write has its stream open, opening or backing off.
THEOREM WorkHasItsStreamAlways == Spec => []WorkHasItsStream
<1>1. ConnInv(client, server) => WorkHasItsStream
  BY DEF ConnInv, ClientInv, WriteKept, PipelineInv, ListenOnce, WorkHasItsStream
<1> QED BY <1>1, ConnectionInvariant, PTL

\* Every write that is not acknowledged is in the pipeline.
THEOREM PipelineHoldsQueueAlways == Spec => []PipelineHoldsQueue
<1>1. ConnInv(client, server) => PipelineHoldsQueue
  BY DEF ConnInv, ClientInv, WriteKept, PipelineInv, PipelineHoldsQueue
<1> QED BY <1>1, ConnectionInvariant, PTL

\* The page's promise is kept only after the server has the write.
THEOREM ResolvedIsStoredAlways == Spec => []ResolvedIsStored
<1>1. ConnInv(client, server) => ResolvedIsStored
  BY DEF ConnInv, StoredInv, ResolvedIsStored
<1> QED BY <1>1, ConnectionInvariant, PTL
=============================================================================
