----------------------- MODULE FirestoreListenProofs -----------------------
(***************************************************************************)
(* Proofs about the Firestore client's listen side: what the watch stream  *)
(* has said and not yet been heard, what is gathered of it, what the cache *)
(* and the view hold, and what the page is shown.                          *)
(***************************************************************************)
EXTENDS FirestoreWriteProofs

-----------------------------------------------------------------------------
(* The invariant of the listen side.                                       *)

\* The messages of the watch stream that will be heard.
News(c)    == {i \in Live(c, "listen") : c.queue[i].kind = "message"}
Said(c, k) == {i \in News(c) : c.queue[i].arg.kind = k}

\* A target that was asked for and is not acknowledged.
Pending == [NewTarget EXCEPT !.pending = 1]

AddRequest(token) == [kind |-> "add", version |-> token]

\* One request at a time: the server's acknowledgement is the first message
\* heard after it, and its refusal the last one.
Asked(c, sv) ==
  /\ c.chan["listen"].out # <<>> =>
       /\ c.chan["listen"].out = <<AddRequest(c.target.token)>>
       /\ c.agg = Pending /\ News(c) = {} /\ ~sv.feed.on
  /\ sv.feed.on => /\ c.agg.on /\ Said(c, "refused") = {}
                   /\ c.agg.pending = 1 => News(c) # {}
  /\ c.agg.on \/ c.agg = NoAgg
  /\ c.agg.pending = 0 \/ c.agg = Pending
  /\ c.agg.on => IsOpen(c, "listen") /\ c.target.on
  /\ News(c) # {} => c.agg.on
  /\ \A i \in News(c) : i \in Said(c, "added")
                           <=> c.agg.pending = 1 /\ \A j \in News(c) : i <= j
  /\ \A i \in Said(c, "added") : c.queue[i].arg.version = 0
  /\ \A i \in Said(c, "refused") : \A j \in News(c) : j <= i

\* The target has its view and its page, and no more; the page listens once,
\* from the start.
Looking(c) ==
  /\ ~c.failed
  /\ c.target.on => c.listens
  /\ c.view.on <=> c.target.on
  /\ ~c.view.on => c.view.doc = InvalidDoc /\ ~c.view.synced /\ ~c.view.current
  /\ c.listener.on => c.view.on
  /\ c.listens => c.wrote = "resolved"
  /\ ~c.listens \/ OnSnapshots(c) # {} => c.target.token = 0

\* One state of the document is no newer than another.
Pair(a, b) == a.version <= b.version /\ a.note <= b.note

\* The states of the document the client has or will hear of, in the order
\* of the cache, the aggregator, the queue and the server.
Chain(c, sv) ==
  /\ Pair(c.doc, sv)
  /\ IsValid(c.agg.doc) => /\ IsFound(c.agg.doc) /\ ~c.agg.doc.committed
                           /\ Pair(c.doc, c.agg.doc) /\ Pair(c.agg.doc, sv)
  /\ \A i \in Said(c, "doc") :
       /\ Pair(c.doc, c.queue[i].arg) /\ Pair(c.queue[i].arg, sv)
       /\ IsValid(c.agg.doc) => Pair(c.agg.doc, c.queue[i].arg)
       /\ \A j \in Said(c, "doc") : i < j => Pair(c.queue[i].arg, c.queue[j].arg)

\* The server counts its commits, and answers a write with the last of them.
Counted(c, sv) ==
  /\ sv.version = sv.note + (IF sv.listening THEN 1 ELSE 0) /\ sv.note <= MaxNotes
  /\ \A i \in Results(c) : c.queue[i].arg.version \in 1..sv.version

\* The page writes before anything is cached; the view shows the cache, and
\* the page has seen nothing newer.
Cached(c) ==
  /\ IF c.wrote = "resolved" THEN IsFound(c.doc) /\ c.doc.version > 0
     ELSE c.doc = InvalidDoc
  /\ c.view.on => SameData(c.view.doc, c.doc)
  /\ c.shown <= c.doc.note

\* The aggregator and the cache hold everything up to a version.
Have(c, v) ==
  \/ c.agg.change \in {"added", "modified"} /\ v <= c.agg.doc.version
  \/ c.agg.change # "removed" /\ c.view.synced /\ ~c.doc.committed
       /\ v <= c.doc.version

\* So do they with the messages that precede one, or with all messages.
Cov(c, n, v) ==
  \/ v = 0
  \/ \E j \in Said(c, "doc") :
       /\ j < n /\ v <= c.queue[j].arg.version
       /\ \A r \in Said(c, "reset") : r < j \/ n < r
  \/ (\A r \in Said(c, "reset") : n < r) /\ Have(c, v)

Covers(c, v) ==
  \/ v = 0
  \/ \E j \in Said(c, "doc") :
       /\ v <= c.queue[j].arg.version
       /\ \A r \in Said(c, "reset") : r < j
  \/ Said(c, "reset") = {} /\ Have(c, v)

\* What is gathered agrees with the view it will be applied to.
Gathered(c) ==
  /\ c.agg.change # "none" => c.agg.dirty
  /\ c.agg.change \in {"modified", "removed"} => c.view.synced
  /\ c.agg.change \in {"added", "modified"} => IsValid(c.agg.doc)
  /\ c.agg.token > 0 => Have(c, c.agg.token)
  /\ c.agg.current => Have(c, 1)

\* The target's token, the tokens under way and the place from which the
\* server goes on: all of them are covered.
Resume(c, sv) ==
  /\ c.target.token <= c.doc.version
  /\ c.target.token > 0 => ~c.doc.committed /\ (c.target.on => c.view.synced)
  /\ c.view.current => c.view.synced
  /\ Gathered(c)
  /\ \A i \in Said(c, "current") \cup Said(c, "snapshot") :
       c.queue[i].arg.version > 0 /\ Cov(c, i, c.queue[i].arg.version)
  /\ sv.feed.snap <= sv.feed.sent /\ sv.feed.sent <= sv.version
  /\ sv.feed.on => Covers(c, sv.feed.sent)
  /\ sv.feed.current => sv.feed.sent > 0

ListenInv(c, sv) ==
  /\ Asked(c, sv) /\ Looking(c) /\ Chain(c, sv)
  /\ Counted(c, sv) /\ Cached(c) /\ Resume(c, sv)

-----------------------------------------------------------------------------
(* The queue's messages.                                                   *)

\* The types of what will be heard.
LEMMA NewsAre ==
  ASSUME NEW c \in Client
  PROVE  /\ News(c) \subseteq 1..Len(c.queue) /\ Len(c.queue) \in Nat
         /\ News(c) \subseteq Nat /\ \A k : Said(c, k) \subseteq News(c)
         /\ \A i \in News(c) :
              /\ i > 0 /\ c.queue[i].kind = "message" /\ c.queue[i].on = "listen"
              /\ c.queue[i].arg \in WatchMsg
              /\ c.queue[i].arg.version \in Nat /\ c.queue[i].arg.note \in Nat
<1>1. Len(c.queue) \in Nat /\ \A i \in 1..Len(c.queue) : c.queue[i] \in TaskSet
  BY DEF Client
<1>2. \A i \in News(c) : c.queue[i].arg \in WatchMsg
  BY <1>1 DEF News, Live, TaskSet, StreamTask, TimerTask, PageTask
<1>3. \A msg \in WatchMsg : msg.version \in Nat /\ msg.note \in Nat
  BY DEF WatchMsg
<1> QED BY <1>1, <1>2, <1>3 DEF News, Live, Said

\* The messages of "c" from position k on are those of "d".
Carried(c, d, k) ==
  /\ \A i \in News(d) : i + k \in News(c) /\ d.queue[i] = c.queue[i + k]
  /\ \A j \in News(c) : j > k => j - k \in News(d)

\* So are those of each kind.
LEMMA CarriedSaid ==
  ASSUME NEW c \in Client, NEW d \in Client, NEW k \in {0, 1}, Carried(c, d, k), NEW m
  PROVE  /\ \A i \in Said(d, m) : i + k \in Said(c, m) /\ d.queue[i] = c.queue[i + k]
         /\ \A j \in Said(c, m) :
              j > k => j - k \in Said(d, m) /\ d.queue[j - k] = c.queue[j]
<1>1. ASSUME NEW j \in News(c), j > k
      PROVE  j - k \in News(d) /\ d.queue[j - k] = c.queue[j]
  <2>1. j \in Nat /\ j - k \in News(d) /\ j - k + k = j
    BY <1>1, NewsAre DEF Carried
  <2> QED BY <2>1 DEF Carried
<1> QED BY <1>1 DEF Carried, Said

\* A task that the head of the queue runs leaves the rest of the messages.
LEMMA CarriedByTask ==
  ASSUME NEW b \in Client, b.queue # <<>>, NEW d \in Client,
         Quieter([b EXCEPT !.queue = Tail(@)].queue, d.queue),
         Len(d.queue) = Len([b EXCEPT !.queue = Tail(@)].queue),
         d.stream["listen"].closes = b.stream["listen"].closes
  PROVE  Carried(b, d, 1)
<1> DEFINE c == [b EXCEPT !.queue = Tail(@)]
<1>1. /\ c \in Client /\ Len(c.queue) = Len(b.queue) - 1
      /\ \A i \in 1..Len(c.queue) :
           c.queue[i] = b.queue[i + 1] /\ i + 1 \in 1..Len(b.queue)
  BY TailQueue
<1> HIDE DEF c
<1>2. /\ Len(d.queue) = Len(c.queue) /\ Len(b.queue) \in Nat /\ Len(c.queue) \in Nat
      /\ \A i \in 1..Len(d.queue) :
           d.queue[i] = c.queue[i]
           \/ (c.queue[i].kind = "timer" /\ d.queue[i].kind = "cancelled")
  BY <1>1 DEF Client, Quieter, c
<1>3. ASSUME NEW i \in News(d)
      PROVE  i + 1 \in News(b) /\ d.queue[i] = b.queue[i + 1]
  <2>1. i \in 1..Len(d.queue) /\ d.queue[i].kind = "message"
    BY DEF News, Live
  <2> QED BY <1>1, <1>2, <2>1 DEF News, Live
<1>4. ASSUME NEW j \in News(b), j > 1
      PROVE  j - 1 \in News(d)
  <2>1. j \in 1..Len(b.queue) /\ b.queue[j].kind = "message"
    BY DEF News, Live
  <2>2. j - 1 \in 1..Len(c.queue) /\ j - 1 + 1 = j
    BY <1>1, <1>2, <1>4, <2>1
  <2>3. c.queue[j - 1] = b.queue[j] /\ d.queue[j - 1] = b.queue[j]
    BY <1>1, <1>2, <2>1, <2>2
  <2> QED BY <1>2, <2>2, <2>3 DEF News, Live
<1> QED BY <1>3, <1>4 DEF Carried

\* What a task leaves of the answers to the write, and of the page's calls.
LEMMA TaskLeaves ==
  ASSUME NEW b \in Client, b.queue # <<>>, NEW d \in Client,
         Quieter([b EXCEPT !.queue = Tail(@)].queue, d.queue)
  PROVE  /\ \A i \in Results(d) : i + 1 \in Results(b) /\ d.queue[i] = b.queue[i + 1]
         /\ OnSnapshots(d) # {} => OnSnapshots(b) # {}
<1> DEFINE c == [b EXCEPT !.queue = Tail(@)]
<1>1. /\ c \in Client
      /\ \A i \in 1..Len(c.queue) :
           c.queue[i] = b.queue[i + 1] /\ i + 1 \in 1..Len(b.queue)
  BY TailQueue
<1> HIDE DEF c
<1>2. Len(d.queue) \in Nat /\ Len(c.queue) \in Nat /\ Quieter(c.queue, d.queue)
  BY <1>1 DEF Client, c
<1>3. ASSUME NEW i \in 1..Len(d.queue)
      PROVE  /\ i + 1 \in 1..Len(b.queue)
             /\ d.queue[i] = b.queue[i + 1] \/ d.queue[i].kind = "cancelled"
  <2>1. i \in 1..Len(c.queue)
    BY <1>2 DEF Quieter
  <2> QED BY <1>1, <1>2, <2>1 DEF Quieter
<1> QED BY <1>3 DEF Results, OnSnapshots

\* A call that is no message of the watch stream leaves them all.
LEMMA CarriedByCall ==
  ASSUME NEW c \in Client, NEW d, NEW task, Called(c, d, task),
         ~(task.on = "listen" /\ task.kind = "message")
  PROVE  Carried(c, d, 0)
<1>1. d \in Client /\ Grown(c, d, task) /\ d.stream = c.stream
  BY DEF Called
<1>2. Len(c.queue) \in Nat /\ Len(d.queue) \in Nat
  BY <1>1 DEF Client
<1>3. ASSUME NEW i \in News(d) PROVE i + 0 \in News(c) /\ d.queue[i] = c.queue[i + 0]
  <2>1. i \in 1..Len(d.queue) /\ d.queue[i].kind = "message" /\ d.queue[i].on = "listen"
    BY DEF News, Live
  <2>2. i \in 1..Len(c.queue) /\ d.queue[i] = c.queue[i]
    BY <1>1, <2>1, GrownTasks
  <2>3. i + 0 = i
    BY <2>1, <1>2
  <2> QED BY <1>1, <2>2, <2>3 DEF News, Live
<1>4. ASSUME NEW j \in News(c) PROVE j - 0 \in News(d)
  <2>1. j \in 1..Len(c.queue) /\ j - 0 = j
    BY <1>2 DEF News, Live
  <2>2. j \in 1..Len(d.queue) /\ d.queue[j] = c.queue[j]
    BY <1>1, <1>2, <2>1 DEF Grown
  <2> QED BY <1>1, <2>1, <2>2 DEF News, Live
<1> QED BY <1>3, <1>4 DEF Carried

\* A message of the watch stream is the last to be heard.
LEMMA NewsGrow ==
  ASSUME NEW c \in Client, ~c.failed, NEW d, NEW task, Called(c, d, task),
         task.on = "listen", task.kind = "message",
         task.gen = c.stream["listen"].closes + 1
  PROVE  LET n == Len(c.queue) + 1 IN
         /\ n \in Nat /\ News(d) = News(c) \cup {n} /\ d.queue[n] = task
         /\ \A i \in News(c) : i < n /\ d.queue[i] = c.queue[i]
<1> DEFINE n == Len(c.queue) + 1
<1>1. /\ d \in Client /\ d.stream = c.stream /\ Len(d.queue) = n
      /\ d.queue[n] = task /\ \A i \in 1..Len(c.queue) : d.queue[i] = c.queue[i]
      /\ Len(c.queue) \in Nat
  BY DEF Called, Grown, Client
<1>2. n \in 1..n /\ \A i \in 1..n : i \in 1..Len(c.queue) \/ i = n
  BY <1>1
<1>3. \A i \in 1..Len(c.queue) : i \in 1..n /\ i < n
  BY <1>1
<1> HIDE DEF n
<1>4. News(d) = News(c) \cup {n}
  BY <1>1, <1>2, <1>3 DEF News, Live
<1> QED BY <1>1, <1>3, <1>4 DEF News, Live, n

\* What a call leaves of the answers to the write, and of the page's calls.
LEMMA CallLeaves ==
  ASSUME NEW c \in Client, NEW d, NEW task, Called(c, d, task)
  PROVE  /\ \A i \in Results(d) :
              \/ i \in Results(c) /\ d.queue[i] = c.queue[i]
              \/ /\ d.queue[i] = task /\ task.on = "write"
                 /\ task.kind = "message" /\ task.arg.kind = "result"
         /\ OnSnapshots(d) # {} => OnSnapshots(c) # {} \/ task.kind = "onSnapshot"
BY GrownTasks DEF Called, Results, OnSnapshots

-----------------------------------------------------------------------------
(* What a step keeps.                                                      *)

\* The cache, the target, the view and the listener are as they were, but
\* for what the page is shown and whether the view is current.
Kept(c, d) ==
  /\ d \in Client /\ d.failed = c.failed /\ d.doc = c.doc
  /\ d.target = c.target
  /\ d.view.on = c.view.on /\ d.view.doc = c.view.doc
  /\ d.view.synced = c.view.synced
  /\ d.view.current => c.view.current
  /\ d.listener.on = c.listener.on
  /\ d.shown = c.shown \/ (c.listener.on /\ d.shown = c.view.doc.note)
  /\ d.wrote = "resolved" <=> c.wrote = "resolved"
  /\ c.listens => d.listens
  /\ d.listens => c.listens \/ c.wrote = "resolved"
  /\ ~d.listens \/ OnSnapshots(d) # {} => ~c.listens \/ OnSnapshots(c) # {}

\* The server's document is no older, and its feed goes on or is over.
Later(sv, tv) ==
  /\ tv \in Server /\ Pair(sv, tv)
  /\ tv.version = tv.note + (IF tv.listening THEN 1 ELSE 0) /\ tv.note <= MaxNotes
  /\ tv.feed = sv.feed \/ tv.feed = NoFeed

\* The order of the document's states is one.
LEMMA PairTrans ==
  ASSUME NEW x, NEW y, NEW z, x.version \in Nat, y.version \in Nat, z.version \in Nat,
         x.note \in Nat, y.note \in Nat, z.note \in Nat, Pair(x, y), Pair(y, z)
  PROVE  Pair(x, z)
BY DEF Pair

\* The types the chain and the cache are about.
LEMMA DocTypes ==
  ASSUME NEW c \in Client
  PROVE  /\ c.doc \in DocSet /\ c.agg.doc \in DocSet /\ c.view.doc \in DocSet
         /\ c.doc.version \in Nat /\ c.doc.note \in Nat
         /\ c.agg.doc.version \in Nat /\ c.agg.doc.note \in Nat
         /\ c.view.doc.note \in Nat /\ c.shown \in Nat
         /\ c.target.token \in Nat /\ c.agg.token \in Nat
<1>1. c.doc \in DocSet /\ c.agg.doc \in DocSet /\ c.view.doc \in DocSet
  BY DEF Client, AggSet, ViewSet
<1>2. \A doc \in DocSet : doc.version \in Nat /\ doc.note \in Nat
  BY DEF DocSet
<1> QED BY <1>1, <1>2 DEF Client, AggSet

\* And those of the server.
LEMMA ServerTypes ==
  ASSUME NEW sv \in Server
  PROVE  /\ sv.version \in Nat /\ sv.note \in Nat /\ sv.listening \in BOOLEAN
         /\ sv.feed.sent \in Nat /\ sv.feed.snap \in Nat
         /\ sv.feed.on \in BOOLEAN /\ sv.feed.current \in BOOLEAN
         /\ ~NoFeed.on /\ ~NoFeed.current /\ NoFeed.sent = 0 /\ NoFeed.snap = 0
BY DEF Server, NoFeed

\* A target that is off gathers nothing.
LEMMA NoAggIs ==
  /\ NoAgg.on = FALSE /\ NoAgg.pending = 0 /\ NoAgg.token = 0 /\ NoAgg.current = FALSE
  /\ NoAgg.change = "none" /\ NoAgg.doc = InvalidDoc /\ ~IsValid(NoAgg.doc)
  /\ Pending.on = TRUE /\ Pending.pending = 1 /\ Pending.token = 0
  /\ Pending.current = FALSE /\ Pending.change = "none" /\ Pending.doc = InvalidDoc
  /\ ~IsValid(Pending.doc) /\ Pending.dirty = TRUE /\ Pending # NoAgg
  /\ Pending \in AggSet /\ NoAgg \in AggSet
<1>1. InvalidDoc \in DocSet /\ ~IsValid(InvalidDoc)
  BY DEF InvalidDoc, Doc, DocSet, IsValid
<1> HIDE DEF InvalidDoc
<1>2. /\ NoAgg.on = FALSE /\ NoAgg.pending = 0 /\ NoAgg.token = 0 /\ NoAgg.current = FALSE
      /\ NoAgg.change = "none" /\ NoAgg.doc = InvalidDoc /\ NoAgg \in AggSet
  BY <1>1 DEF NoAgg, AggSet, TargetChange
<1>3. /\ NewTarget \in AggSet /\ NewTarget.on = TRUE /\ NewTarget.token = 0
      /\ NewTarget.current = FALSE /\ NewTarget.change = "none"
      /\ NewTarget.doc = InvalidDoc /\ NewTarget.dirty = TRUE
  BY <1>1 DEF NewTarget, NoAgg, AggSet, TargetChange
<1>4. Pending \in AggSet /\ Pending = [NewTarget EXCEPT !.pending = 1]
  BY <1>3 DEF Pending, AggSet
<1>5. /\ Pending.on = TRUE /\ Pending.pending = 1 /\ Pending.token = 0
      /\ Pending.current = FALSE /\ Pending.change = "none" /\ Pending.doc = InvalidDoc
      /\ Pending.dirty = TRUE
  BY <1>3, <1>4 DEF AggSet
<1> HIDE DEF NoAgg, Pending
<1> QED BY <1>1, <1>2, <1>4, <1>5

\* What is kept looks the same, and the page sees nothing older.
LEMMA KeptLooks ==
  ASSUME NEW c \in Client, NEW d, Kept(c, d), Looking(c), Cached(c)
  PROVE  Looking(d) /\ Cached(d) /\ c.shown <= d.shown
<1>1. d \in Client
  BY DEF Kept
<1>2. c.shown <= d.shown /\ d.shown <= d.doc.note
  <2>1. CASE d.shown = c.shown
    BY <1>1, <2>1, DocTypes DEF Kept, Cached
  <2>2. CASE c.listener.on /\ d.shown = c.view.doc.note
    BY <1>1, <2>2, DocTypes DEF Kept, Cached, Looking, SameData
  <2> QED BY <2>1, <2>2 DEF Kept
<1>3. Looking(d)
  BY DEF Kept, Looking
<1>4. Cached(d)
  BY <1>2 DEF Kept, Cached, Looking
<1> QED BY <1>2, <1>3, <1>4

\* What a version is covered by survives, when the messages do.
LEMMA CovCarried ==
  ASSUME NEW c \in Client, NEW d \in Client, NEW k \in {0, 1}, Carried(c, d, k),
         NEW v \in Nat,
         Have(c, v) /\ ~(k = 1 /\ 1 \in Said(c, "reset")) => Have(d, v),
         k = 1 /\ 1 \in Said(c, "doc") /\ v <= c.queue[1].arg.version => Have(d, v)
  PROVE  /\ \A n \in News(d) : Cov(c, n + k, v) => Cov(d, n, v)
         /\ Covers(c, v) => Covers(d, v)
<1>1. /\ News(c) \subseteq Nat /\ News(d) \subseteq Nat
      /\ \A m : Said(c, m) \subseteq News(c) /\ Said(d, m) \subseteq News(d)
      /\ \A i \in News(c) : i > 0
      /\ \A i \in News(d) : i > 0
  BY NewsAre
<1>2. \A r \in Said(d, "reset") : r + k \in Said(c, "reset")
  BY CarriedSaid
<1>3. \A j \in Said(c, "doc") :
        j > k => j - k \in Said(d, "doc") /\ d.queue[j - k] = c.queue[j]
  BY CarriedSaid
<1>4. \A j \in News(c) : j > k \/ (k = 1 /\ j = 1)
  BY <1>1
<1>5. ASSUME NEW n \in News(d), Cov(c, n + k, v)
      PROVE  Cov(d, n, v)
  <2>1. CASE v = 0
    BY <2>1 DEF Cov
  <2>2. ASSUME NEW j \in Said(c, "doc"), j < n + k, v <= c.queue[j].arg.version,
               \A r \in Said(c, "reset") : r < j \/ n + k < r
        PROVE  Cov(d, n, v)
    <3>1. CASE j > k
      <4>1. j - k \in Said(d, "doc") /\ v <= d.queue[j - k].arg.version
        BY <1>3, <2>2, <3>1
      <4>2. j - k < n /\ \A r \in Said(d, "reset") : r < j - k \/ n < r
        BY <1>1, <1>2, <2>2
      <4> QED BY <4>1, <4>2 DEF Cov
    <3>2. CASE k = 1 /\ j = 1
      <4>1. Have(d, v)
        BY <2>2, <3>2
      <4>2. \A r \in Said(d, "reset") : n < r
        BY <1>1, <1>2, <2>2, <3>2
      <4> QED BY <4>1, <4>2 DEF Cov
    <3> QED BY <1>1, <1>4, <2>2, <3>1, <3>2
  <2>3. ASSUME \A r \in Said(c, "reset") : n + k < r, Have(c, v)
        PROVE  Cov(d, n, v)
    <3>1. ~(k = 1 /\ 1 \in Said(c, "reset"))
      BY <1>1, <2>3
    <3>2. Have(d, v) /\ \A r \in Said(d, "reset") : n < r
      BY <1>1, <1>2, <2>3, <3>1
    <3> QED BY <3>2 DEF Cov
  <2> QED BY <1>5, <2>1, <2>2, <2>3 DEF Cov
<1>6. ASSUME Covers(c, v)
      PROVE  Covers(d, v)
  <2>1. CASE v = 0
    BY <2>1 DEF Covers
  <2>2. ASSUME NEW j \in Said(c, "doc"), v <= c.queue[j].arg.version,
               \A r \in Said(c, "reset") : r < j
        PROVE  Covers(d, v)
    <3>1. CASE j > k
      <4>1. j - k \in Said(d, "doc") /\ v <= d.queue[j - k].arg.version
        BY <1>3, <2>2, <3>1
      <4>2. \A r \in Said(d, "reset") : r < j - k
        BY <1>1, <1>2, <2>2
      <4> QED BY <4>1, <4>2 DEF Covers
    <3>2. CASE k = 1 /\ j = 1
      <4>1. Have(d, v)
        BY <2>2, <3>2
      <4>2. Said(d, "reset") = {}
        BY <1>1, <1>2, <2>2, <3>2
      <4> QED BY <4>1, <4>2 DEF Covers
    <3> QED BY <1>1, <1>4, <2>2, <3>1, <3>2
  <2>3. ASSUME Said(c, "reset") = {}, Have(c, v)
        PROVE  Covers(d, v)
    BY <1>2, <2>3 DEF Covers
  <2> QED BY <1>6, <2>1, <2>2, <2>3 DEF Covers
<1> QED BY <1>5, <1>6

-----------------------------------------------------------------------------
(* Each part of the invariant, for messages that are carried along.        *)

\* Requests and acknowledgements, when no message was taken.
LEMMA AskedCarried ==
  ASSUME NEW c \in Client, NEW d \in Client, NEW k \in {0, 1}, Carried(c, d, k),
         k = 1 => 1 \notin News(c), NEW sv \in Server, NEW tv \in Server, Asked(c, sv),
         d.agg = c.agg, d.target = c.target, tv.feed = sv.feed \/ tv.feed = NoFeed,
         d.chan["listen"].out \in {<<>>, c.chan["listen"].out},
         c.agg.on => IsOpen(d, "listen")
  PROVE  Asked(d, tv)
<1>1. /\ News(c) \subseteq Nat /\ News(d) \subseteq Nat
      /\ \A m : Said(c, m) \subseteq News(c) /\ Said(d, m) \subseteq News(d)
      /\ \A i \in News(c) : i > 0
  BY NewsAre
<1>2. \A m : \A i \in Said(d, m) : i + k \in Said(c, m) /\ d.queue[i] = c.queue[i + k]
  BY CarriedSaid
<1>3. \A j \in News(c) : j > k /\ j - k \in News(d) /\ j - k \in Nat
  BY <1>1 DEF Carried
<1>4. \A j \in Said(c, "added") : j - k \in Said(d, "added")
  BY <1>1, <1>3, CarriedSaid
<1>5. \A i \in News(d) : i + k \in News(c) /\ i + k - k = i
  BY <1>1 DEF Carried
<1>6. News(d) = {} <=> News(c) = {}
  BY <1>3, <1>5
<1>7. ASSUME NEW i \in News(d)
      PROVE  i \in Said(d, "added") <=> d.agg.pending = 1 /\ \A j \in News(d) : i <= j
  <2>1. i \in Said(d, "added") <=> i + k \in Said(c, "added")
    <3>1. ASSUME i + k \in Said(c, "added") PROVE i \in Said(d, "added")
      <4> DEFINE j == i + k
      <4>1. j \in Said(c, "added") /\ j - k = i
        <5>1. i \in Nat
          BY <1>1
        <5>2. j - k = i
          BY <5>1
        <5> QED BY <3>1, <5>2
      <4> HIDE DEF j
      <4> QED BY <1>4, <4>1
    <3> QED BY <1>2, <3>1
  <2>2. (\A j \in News(c) : i + k <= j) <=> (\A j \in News(d) : i <= j)
    <3>1. ASSUME \A j \in News(c) : i + k <= j, NEW j \in News(d) PROVE i <= j
      <4>1. i + k <= j + k
        BY <1>5, <3>1
      <4> QED BY <1>1, <4>1
    <3>2. ASSUME \A j \in News(d) : i <= j, NEW j \in News(c) PROVE i + k <= j
      <4>1. i <= j - k
        BY <1>3, <3>2
      <4> QED BY <1>1, <4>1
    <3> QED BY <3>1, <3>2
  <2> QED BY <1>5, <2>1, <2>2 DEF Asked
<1>8. \A i \in Said(d, "refused") : \A j \in News(d) : j <= i
  <2> SUFFICES ASSUME NEW i \in Said(d, "refused"), NEW j \in News(d) PROVE j <= i
    OBVIOUS
  <2>1. j + k <= i + k
    BY <1>2, <1>5 DEF Asked
  <2> QED BY <1>1, <2>1
<1>9. /\ tv.feed.on => sv.feed.on
      /\ Said(c, "refused") = {} => Said(d, "refused") = {}
      /\ \A i \in Said(d, "added") : d.queue[i].arg.version = 0
  BY <1>2, ServerTypes DEF Asked
<1> QED BY <1>6, <1>7, <1>8, <1>9 DEF Asked

\* They are quiet when the first message was taken, and was no refusal.
LEMMA AskedHeard ==
  ASSUME NEW b \in Client, NEW d \in Client, Carried(b, d, 1), 1 \in News(b),
         1 \notin Said(b, "refused"), NEW sv \in Server, Asked(b, sv),
         d.agg.on, d.agg.pending = 0, d.target = b.target,
         d.chan["listen"] = b.chan["listen"], IsOpen(d, "listen")
  PROVE  Asked(d, sv)
<1>1. /\ News(b) \subseteq Nat /\ News(d) \subseteq Nat
      /\ \A m : Said(b, m) \subseteq News(b) /\ Said(d, m) \subseteq News(d)
      /\ \A i \in News(d) : i > 0
  BY NewsAre
<1>2. \A m : \A i \in Said(d, m) : i + 1 \in Said(b, m) /\ d.queue[i] = b.queue[i + 1]
  BY CarriedSaid
<1>3. \A i \in News(d) : i + 1 \in News(b) /\ ~(i + 1 <= 1)
  BY <1>1 DEF Carried
<1>4. Said(d, "added") = {}
  <2>1. \A i \in News(d) : i + 1 \notin Said(b, "added")
    BY <1>3 DEF Asked
  <2> QED BY <1>1, <1>2, <2>1
<1>5. \A i \in Said(d, "refused") : \A j \in News(d) : j <= i
  <2> SUFFICES ASSUME NEW i \in Said(d, "refused"), NEW j \in News(d) PROVE j <= i
    OBVIOUS
  <2>1. j + 1 <= i + 1
    BY <1>2, <1>3 DEF Asked
  <2> QED BY <1>1, <2>1
<1>6. b.target.on /\ (Said(b, "refused") = {} => Said(d, "refused") = {})
  BY <1>2 DEF Asked
<1> QED BY <1>4, <1>5, <1>6 DEF Asked

\* The order of what is known, when cache and aggregator fit it.
LEMMA ChainCarried ==
  ASSUME NEW c \in Client, NEW d \in Client, NEW k \in {0, 1}, Carried(c, d, k),
         NEW sv \in Server, NEW tv \in Server, Chain(c, sv), Pair(sv, tv),
         Pair(d.doc, sv),
         IsValid(d.agg.doc) => /\ IsFound(d.agg.doc) /\ ~d.agg.doc.committed
                               /\ Pair(d.doc, d.agg.doc) /\ Pair(d.agg.doc, sv),
         \A i \in Said(c, "doc") :
           i > k => /\ Pair(d.doc, c.queue[i].arg)
                    /\ IsValid(d.agg.doc) => Pair(d.agg.doc, c.queue[i].arg)
  PROVE  Chain(d, tv)
<1>1. /\ News(d) \subseteq Nat /\ \A m : Said(d, m) \subseteq News(d)
      /\ \A i \in News(d) : i > 0 /\ d.queue[i].arg.version \in Nat
                            /\ d.queue[i].arg.note \in Nat
  BY NewsAre
<1>2. \A i \in Said(d, "doc") : i + k \in Said(c, "doc") /\ d.queue[i] = c.queue[i + k]
  BY CarriedSaid
<1>3. /\ d.doc.version \in Nat /\ d.doc.note \in Nat
      /\ d.agg.doc.version \in Nat /\ d.agg.doc.note \in Nat
      /\ sv.version \in Nat /\ sv.note \in Nat /\ tv.version \in Nat /\ tv.note \in Nat
  BY DocTypes, ServerTypes
<1>4. \A i \in Said(d, "doc") : i + k > k
  BY <1>1
<1>5. Pair(d.doc, tv)
  BY <1>3, PairTrans
<1>6. IsValid(d.agg.doc) => Pair(d.agg.doc, tv)
  BY <1>3, PairTrans
<1>7. \A i \in Said(d, "doc") : Pair(d.queue[i].arg, tv)
  <2>1. \A i \in Said(d, "doc") : Pair(d.queue[i].arg, sv)
    BY <1>2 DEF Chain
  <2> QED BY <1>1, <1>3, <2>1, PairTrans
<1>8. \A i \in Said(d, "doc") : \A j \in Said(d, "doc") :
        i < j => Pair(d.queue[i].arg, d.queue[j].arg)
  <2> SUFFICES ASSUME NEW i \in Said(d, "doc"), NEW j \in Said(d, "doc"), i < j
               PROVE  Pair(d.queue[i].arg, d.queue[j].arg)
    OBVIOUS
  <2>1. i + k < j + k
    BY <1>1
  <2> QED BY <1>2, <2>1 DEF Chain
<1>9. \A i \in Said(d, "doc") :
        /\ Pair(d.doc, d.queue[i].arg)
        /\ IsValid(d.agg.doc) => Pair(d.agg.doc, d.queue[i].arg)
  BY <1>2, <1>4
<1> QED BY <1>5, <1>6, <1>7, <1>8, <1>9 DEF Chain

\* What the tokens are covered by, when nothing that covered them is lost.
LEMMA ResumeCarried ==
  ASSUME NEW c \in Client, NEW d \in Client, NEW k \in {0, 1}, Carried(c, d, k),
         NEW sv \in Server, NEW tv \in Server, Resume(c, sv),
         \A v \in Nat : Have(c, v) /\ ~(k = 1 /\ 1 \in Said(c, "reset")) => Have(d, v),
         \A v \in Nat : k = 1 /\ 1 \in Said(c, "doc") /\ v <= c.queue[1].arg.version
                          => Have(d, v),
         Gathered(d), d.target.token <= d.doc.version,
         d.target.token > 0 => ~d.doc.committed /\ (d.target.on => d.view.synced),
         d.view.current => d.view.synced,
         sv.version <= tv.version, tv.feed = sv.feed \/ tv.feed = NoFeed
  PROVE  Resume(d, tv)
<1>1. /\ \A m : Said(d, m) \subseteq News(d) /\ Said(c, m) \subseteq News(c)
      /\ \A i \in News(c) : c.queue[i].arg.version \in Nat
  BY NewsAre
<1>2. \A m : \A i \in Said(d, m) : i + k \in Said(c, m) /\ d.queue[i] = c.queue[i + k]
  BY CarriedSaid
<1>3. \A v \in Nat : /\ \A n \in News(d) : Cov(c, n + k, v) => Cov(d, n, v)
                     /\ Covers(c, v) => Covers(d, v)
  BY CovCarried
<1>4. ASSUME NEW i \in Said(d, "current") \cup Said(d, "snapshot")
      PROVE  d.queue[i].arg.version > 0 /\ Cov(d, i, d.queue[i].arg.version)
  <2>1. /\ i + k \in Said(c, "current") \cup Said(c, "snapshot")
        /\ d.queue[i] = c.queue[i + k] /\ i \in News(d)
    BY <1>1, <1>2
  <2>2. c.queue[i + k].arg.version > 0 /\ Cov(c, i + k, c.queue[i + k].arg.version)
    BY <2>1 DEF Resume
  <2> QED BY <1>1, <1>3, <2>1, <2>2
<1>5. /\ sv.version \in Nat /\ tv.version \in Nat
      /\ sv.feed.sent \in Nat /\ sv.feed.snap \in Nat
      /\ ~NoFeed.on /\ ~NoFeed.current /\ NoFeed.sent = 0 /\ NoFeed.snap = 0
  BY ServerTypes
<1>6. /\ tv.feed.snap <= tv.feed.sent /\ tv.feed.sent <= tv.version
      /\ tv.feed.on => Covers(d, tv.feed.sent)
      /\ tv.feed.current => tv.feed.sent > 0
  <2>1. CASE tv.feed = sv.feed
    BY <1>3, <1>5, <2>1 DEF Resume
  <2>2. CASE tv.feed = NoFeed
    BY <1>5, <2>2
  <2> QED BY <2>1, <2>2
<1> QED BY <1>4, <1>6 DEF Resume

-----------------------------------------------------------------------------
(* Steps that take no message of the watch stream.                         *)

\* The aggregator and the stream are as they were.
LEMMA Steadily ==
  ASSUME NEW c \in Client, NEW d \in Client, NEW k \in {0, 1}, Carried(c, d, k),
         k = 1 => 1 \notin News(c), NEW sv \in Server, NEW tv,
         ListenInv(c, sv), Kept(c, d), Later(sv, tv),
         \A i \in Results(d) : d.queue[i].arg.version \in 1..tv.version,
         d.agg = c.agg, d.chan["listen"].out \in {<<>>, c.chan["listen"].out},
         c.agg.on => IsOpen(d, "listen")
  PROVE  ListenInv(d, tv) /\ c.shown <= d.shown
<1>1. /\ Asked(c, sv) /\ Looking(c) /\ Chain(c, sv) /\ Counted(c, sv) /\ Cached(c)
      /\ Resume(c, sv) /\ tv \in Server
      /\ Pair(sv, tv) /\ (tv.feed = sv.feed \/ tv.feed = NoFeed)
  BY DEF ListenInv, Later
<1>2. d.doc = c.doc /\ d.target = c.target /\ d.view.synced = c.view.synced
      /\ (d.view.current => c.view.current)
  BY DEF Kept
<1>3. Asked(d, tv)
  BY <1>1, <1>2, AskedCarried
<1>4. Looking(d) /\ Cached(d) /\ c.shown <= d.shown
  BY <1>1, KeptLooks
<1>5. Chain(d, tv)
  <2>1. \A i \in Said(c, "doc") :
          /\ Pair(d.doc, c.queue[i].arg)
          /\ IsValid(d.agg.doc) => Pair(d.agg.doc, c.queue[i].arg)
    BY <1>1, <1>2 DEF Chain
  <2>2. /\ Pair(d.doc, sv)
        /\ IsValid(d.agg.doc) => /\ IsFound(d.agg.doc) /\ ~d.agg.doc.committed
                                 /\ Pair(d.doc, d.agg.doc) /\ Pair(d.agg.doc, sv)
    BY <1>1, <1>2 DEF Chain
  <2> QED BY <1>1, <2>1, <2>2, ChainCarried
<1>6. Counted(d, tv)
  BY DEF Later, Counted
<1>7. Resume(d, tv)
  <2>1. \A v \in Nat : Have(d, v) <=> Have(c, v)
    BY <1>2 DEF Have
  <2>2. ~(k = 1 /\ 1 \in Said(c, "doc"))
    BY NewsAre
  <2>3. Gathered(d)
    BY <1>1, <1>2, <2>1, DocTypes DEF Gathered, Resume
  <2>4. sv.version <= tv.version
    BY <1>1 DEF Pair
  <2> QED BY <1>1, <1>2, <2>1, <2>2, <2>3, <2>4, ResumeCarried DEF Resume
<1> QED BY <1>3, <1>4, <1>5, <1>6, <1>7 DEF ListenInv

\* Nothing is under way of a stream that is not open.
LEMMA QuietStream ==
  ASSUME NEW c \in Client, StreamInv(c, "listen"), ~IsOpen(c, "listen")
  PROVE  News(c) = {} /\ c.chan["listen"].out = <<>> /\ \A m : Said(c, m) = {}
<1>1. c.stream["listen"].state # "open"
  BY DEF IsOpen
<1>2. c.stream["listen"].state = "starting" \/ Live(c, "listen") = {}
  BY <1>1 DEF StreamInv
<1>3. News(c) = {}
  BY <1>2 DEF StreamInv, News
<1> QED BY <1>1, <1>3 DEF StreamInv, Said

\* The aggregator begins anew, with a target that is asked for or without.
LEMMA Anew ==
  ASSUME NEW c \in Client, NEW d \in Client, NEW sv \in Server, NEW tv,
         ListenInv(c, sv), Kept(c, d), Later(sv, tv),
         \A i \in Results(d) : d.queue[i].arg.version \in 1..tv.version,
         News(d) = {}, ~tv.feed.on,
         \/ d.agg = NoAgg /\ d.chan["listen"].out = <<>>
         \/ /\ d.agg = Pending /\ d.target.on /\ IsOpen(d, "listen")
            /\ d.chan["listen"].out \in {<<>>, <<AddRequest(d.target.token)>>}
  PROVE  ListenInv(d, tv) /\ c.shown <= d.shown
<1>1. /\ Looking(c) /\ Chain(c, sv) /\ Cached(c) /\ Resume(c, sv) /\ tv \in Server
      /\ Pair(sv, tv) /\ (tv.feed = sv.feed \/ tv.feed = NoFeed)
  BY DEF ListenInv, Later
<1>2. d.doc = c.doc /\ d.target = c.target /\ d.view.synced = c.view.synced
      /\ (d.view.current => c.view.current)
  BY DEF Kept
<1>3. \A m : Said(d, m) = {}
  BY DEF Said
<1>4. Asked(d, tv)
  BY <1>3, NoAggIs DEF Asked
<1>5. Looking(d) /\ Cached(d) /\ c.shown <= d.shown
  BY <1>1, KeptLooks
<1>6. Chain(d, tv)
  <2>1. Pair(d.doc, tv)
    <3>1. Pair(d.doc, sv)
      BY <1>1, <1>2 DEF Chain
    <3> QED BY <1>1, <3>1, PairTrans, DocTypes, ServerTypes
  <2> QED BY <1>3, <2>1, NoAggIs DEF Chain
<1>7. Counted(d, tv)
  BY DEF Later, Counted
<1>8. Resume(d, tv)
  <2>1. Gathered(d)
    BY NoAggIs DEF Gathered
  <2>2. sv.version <= tv.version /\ sv.version \in Nat /\ tv.version \in Nat
        /\ sv.feed.sent \in Nat /\ sv.feed.snap \in Nat
        /\ ~NoFeed.current /\ NoFeed.sent = 0 /\ NoFeed.snap = 0
    BY <1>1, ServerTypes DEF Pair
  <2>3. /\ tv.feed.snap <= tv.feed.sent /\ tv.feed.sent <= tv.version
        /\ tv.feed.current => tv.feed.sent > 0
    BY <1>1, <2>2 DEF Resume
  <2> QED BY <1>1, <1>2, <1>3, <2>1, <2>3 DEF Resume
<1> QED BY <1>4, <1>5, <1>6, <1>7, <1>8 DEF ListenInv

-----------------------------------------------------------------------------
(* The first message of the watch stream is taken.                         *)

\* What is known of a message that is heard.
LEMMA HeardIs ==
  ASSUME NEW b \in Client, NEW sv \in Server, ListenInv(b, sv), 1 \in News(b)
  PROVE  LET msg == b.queue[1].arg IN
         /\ msg \in WatchMsg /\ msg.version \in Nat /\ msg.note \in Nat
         /\ b.agg.on /\ b.target.on /\ b.view.on /\ IsOpen(b, "listen")
         /\ b.chan["listen"].out = <<>>
         /\ 1 \in Said(b, msg.kind) /\ \A k : 1 \in Said(b, k) => k = msg.kind
         /\ msg.kind = "added" => b.agg = Pending /\ msg.version = 0
         /\ msg.kind # "added" => b.agg.pending = 0 /\ IsActiveTarget(b)
<1>1. Asked(b, sv) /\ Looking(b)
  BY DEF ListenInv
<1>2. /\ \A i \in News(b) : 1 <= i
      /\ b.queue[1].arg \in WatchMsg
      /\ b.queue[1].arg.version \in Nat /\ b.queue[1].arg.note \in Nat
  BY NewsAre
<1>3. b.agg.on /\ b.target.on /\ b.view.on /\ IsOpen(b, "listen")
      /\ b.chan["listen"].out = <<>>
  BY <1>1 DEF Asked, Looking
<1>4. 1 \in Said(b, "added") <=> b.agg.pending = 1
  BY <1>1, <1>2 DEF Asked
<1>5. b.agg.pending \in {0, 1} /\ (b.agg.pending = 1 => b.agg = Pending)
  BY <1>1, NoAggIs DEF Asked
<1>6. 1 \in Said(b, "added") => b.queue[1].arg.version = 0
  BY <1>1 DEF Asked
<1> QED BY <1>2, <1>3, <1>4, <1>5, <1>6 DEF Said, IsActiveTarget

\* What the aggregator makes of it.
LEMMA AggAfterIs ==
  ASSUME NEW b \in Client, NEW sv \in Server, ListenInv(b, sv), 1 \in News(b)
  PROVE  LET msg == b.queue[1].arg
             agg == AggAfter(b, msg) IN
         /\ msg.kind # "refused" => agg.on /\ agg.pending = 0 /\ agg \in AggSet
         /\ msg.kind = "added" =>
              /\ agg.token = 0 /\ ~agg.current /\ agg.change = "none"
              /\ agg.doc = InvalidDoc
         /\ msg.kind = "doc" =>
              /\ agg.doc = Doc("found", msg.version, msg.note, FALSE) /\ agg.dirty
              /\ agg.change = IF b.view.synced THEN "modified" ELSE "added"
              /\ agg.token = b.agg.token /\ agg.current = b.agg.current
         /\ msg.kind = "reset" =>
              /\ agg.token = 0 /\ ~agg.current /\ agg.dirty /\ agg.doc = b.agg.doc
              /\ agg.change = IF b.view.synced THEN "removed" ELSE "none"
         /\ msg.kind \in {"current", "snapshot"} =>
              /\ agg.change = b.agg.change /\ agg.doc = b.agg.doc
              /\ agg.current <=> msg.kind = "current" \/ b.agg.current
              /\ msg.version > 0 => agg.token = msg.version /\ agg.dirty
<1> DEFINE msg == b.queue[1].arg
           agg == AggAfter(b, msg)
<1>1. /\ msg \in WatchMsg /\ msg.version \in Nat /\ msg.note \in Nat
      /\ b.agg.on /\ msg.kind = "added" => b.agg = Pending /\ msg.version = 0
      /\ msg.kind # "added" => b.agg.pending = 0 /\ IsActiveTarget(b)
      /\ b.agg.on
  BY HeardIs
<1>2. b.agg \in AggSet
  BY DEF Client
<1> HIDE DEF msg
<1>3. msg.kind # "refused" => agg \in AggSet
  BY <1>1, AggAfterType, NoAggIs
<1>4. CASE msg.kind = "added"
  <2> DEFINE pend == [Pending EXCEPT !.pending = 0, !.dirty = FALSE, !.change = "none"]
  <2>1. /\ pend.on /\ pend.pending = 0 /\ pend.token = 0 /\ ~pend.current
        /\ pend.change = "none" /\ pend.doc = InvalidDoc
    BY NoAggIs DEF AggSet
  <2>2. agg = pend
    <3>1. ~(b.agg.pending > 1) /\ msg.version = 0 /\ b.agg = Pending
      BY <1>1, <1>4, NoAggIs
    <3>2. agg = UpdateToken(pend, 0)
      BY <1>4, <3>1 DEF AggAfter
    <3> QED BY <3>2 DEF UpdateToken
  <2> HIDE DEF pend, agg
  <2> QED BY <1>3, <1>4, <2>1, <2>2 DEF agg, msg
<1>5. CASE msg.kind = "doc"
  <2>1. agg = [b.agg EXCEPT !.doc = Doc("found", msg.version, msg.note, FALSE),
                            !.dirty = TRUE,
                            !.change = IF b.view.synced THEN "modified" ELSE "added"]
    BY <1>1, <1>5 DEF AggAfter
  <2>2. /\ agg.doc = Doc("found", msg.version, msg.note, FALSE) /\ agg.dirty
        /\ agg.change = IF b.view.synced THEN "modified" ELSE "added"
        /\ agg.token = b.agg.token /\ agg.current = b.agg.current
        /\ agg.on = b.agg.on /\ agg.pending = b.agg.pending
    BY <1>2, <2>1 DEF AggSet
  <2> HIDE DEF agg
  <2> QED BY <1>1, <1>3, <1>5, <2>2 DEF agg, msg
<1>6. CASE msg.kind = "reset"
  <2>1. /\ NewTarget \in AggSet /\ NewTarget.on /\ NewTarget.pending = 0
        /\ NewTarget.token = 0 /\ ~NewTarget.current /\ NewTarget.dirty
    BY NoAggIs DEF NewTarget, AggSet
  <2>2. agg = [NewTarget EXCEPT !.change = IF b.view.synced THEN "removed" ELSE "none",
                                !.doc    = b.agg.doc]
    BY <1>1, <1>6 DEF AggAfter
  <2>3. /\ agg.on /\ agg.pending = 0 /\ agg.token = 0 /\ ~agg.current /\ agg.dirty
        /\ agg.doc = b.agg.doc
        /\ agg.change = IF b.view.synced THEN "removed" ELSE "none"
    BY <2>1, <2>2 DEF AggSet
  <2> HIDE DEF agg
  <2> QED BY <1>3, <1>6, <2>3 DEF agg, msg
<1>7. CASE msg.kind \in {"current", "snapshot"}
  <2> DEFINE base == IF msg.kind = "current"
                       THEN [b.agg EXCEPT !.current = TRUE, !.dirty = TRUE] ELSE b.agg
  <2>1. agg = UpdateToken(base, msg.version)
    BY <1>1, <1>7 DEF AggAfter
  <2>2. /\ base \in AggSet /\ base.on = b.agg.on /\ base.pending = b.agg.pending
        /\ base.change = b.agg.change /\ base.doc = b.agg.doc
        /\ base.current <=> msg.kind = "current" \/ b.agg.current
    BY <1>2 DEF AggSet
  <2> HIDE DEF base, agg
  <2>3. /\ agg.on = base.on /\ agg.pending = base.pending /\ agg.current = base.current
        /\ agg.change = base.change /\ agg.doc = base.doc
        /\ msg.version > 0 => agg.token = msg.version /\ agg.dirty
    <3> DEFINE v == msg.version
    <3>1. v \in Nat /\ agg = UpdateToken(base, v)
      BY <1>1, <2>1
    <3> HIDE DEF v
    <3>2. /\ agg.on = base.on /\ agg.pending = base.pending /\ agg.current = base.current
          /\ agg.change = base.change /\ agg.doc = base.doc
          /\ agg.token = (IF v = 0 THEN base.token ELSE v)
          /\ v > 0 => agg.dirty
      BY <2>2, <3>1, UpdateTokenIs
    <3> QED BY <3>1, <3>2 DEF v
  <2> QED BY <1>1, <1>3, <1>7, <2>2, <2>3 DEF agg, msg
<1>8. msg.kind \in {"refused", "added", "doc", "reset", "current", "snapshot"}
  BY <1>1 DEF WatchMsg
<1> HIDE DEF agg
<1>9. CASE msg.kind = "refused"
  BY <1>9 DEF agg, msg
<1> QED BY <1>4, <1>5, <1>6, <1>7, <1>8, <1>9 DEF agg, msg

\* What was had remains so while nothing of it changes.
LEMMA HaveMonotone ==
  ASSUME NEW c \in Client, NEW v \in Nat, NEW w \in Nat, v <= w, Have(c, w)
  PROVE  Have(c, v)
BY DocTypes DEF Have

\* The tokens of the messages are covered by what precedes them.
LEMMA HeadCovered ==
  ASSUME NEW b \in Client, NEW sv \in Server, ListenInv(b, sv), 1 \in News(b),
         b.queue[1].arg.kind \in {"current", "snapshot"}
  PROVE  LET v == b.queue[1].arg.version IN
         v \in Nat /\ v > 0 /\ Have(b, v) /\ Have(b, 1)
<1> DEFINE v == b.queue[1].arg.version
<1>1. v \in Nat /\ v > 0 /\ Cov(b, 1, v)
  BY NewsAre DEF ListenInv, Resume, Said
<1>2. \A j \in Said(b, "doc") : ~(j < 1)
  BY NewsAre
<1>3. Have(b, v)
  BY <1>1, <1>2 DEF Cov
<1> HIDE DEF v
<1>4. 1 \in Nat /\ 1 <= v
  BY <1>1
<1> QED BY <1>1, <1>3, <1>4, HaveMonotone DEF v

\* What a change of the aggregator alone makes of what is had.
LEMMA GatherHas ==
  ASSUME NEW b \in Client, NEW sv \in Server, ListenInv(b, sv), 1 \in News(b),
         NEW d, Kept(b, d),
         b.queue[1].arg.kind # "refused", d.agg = AggAfter(b, b.queue[1].arg)
  PROVE  /\ \A v \in Nat : Have(b, v) /\ 1 \notin Said(b, "reset") => Have(d, v)
         /\ \A v \in Nat : 1 \in Said(b, "doc") /\ v <= b.queue[1].arg.version
                             => Have(d, v)
         /\ Gathered(d)
<1> DEFINE msg == b.queue[1].arg
<1>1. /\ msg \in WatchMsg /\ msg.version \in Nat /\ msg.note \in Nat
      /\ 1 \in Said(b, msg.kind) /\ \A k : 1 \in Said(b, k) => k = msg.kind
      /\ msg.kind = "added" => b.agg = Pending /\ msg.version = 0
  BY HeardIs
<1>2. /\ d \in Client /\ d.doc = b.doc /\ d.view.synced = b.view.synced
      /\ d.agg = AggAfter(b, msg)
  BY DEF Kept
<1>3. Gathered(b) /\ Chain(b, sv)
  BY DEF ListenInv, Resume
<1>4. /\ b.doc.version \in Nat /\ b.agg.doc.version \in Nat
      /\ d.agg.token \in Nat /\ b.agg.token \in Nat
  BY <1>2, DocTypes
<1> HIDE DEF msg
<1>5. CASE msg.kind = "added"
  <2>1. /\ d.agg.token = 0 /\ ~d.agg.current /\ d.agg.change = "none"
        /\ b.agg.change = "none"
    BY <1>1, <1>2, <1>5, AggAfterIs, NoAggIs DEF msg
  <2>2. \A v \in Nat : Have(b, v) => Have(d, v)
    BY <1>2, <2>1 DEF Have
  <2>3. Gathered(d)
    BY <2>1 DEF Gathered
  <2> QED BY <1>1, <1>5, <2>2, <2>3
<1>6. CASE msg.kind = "doc"
  <2>1. /\ d.agg.doc = Doc("found", msg.version, msg.note, FALSE) /\ d.agg.dirty
        /\ d.agg.change = IF b.view.synced THEN "modified" ELSE "added"
        /\ d.agg.token = b.agg.token /\ d.agg.current = b.agg.current
    BY <1>2, <1>6, AggAfterIs DEF msg
  <2>2. d.agg.doc.version = msg.version /\ IsValid(d.agg.doc)
    BY <2>1 DEF Doc, IsValid
  <2>3. \A v \in Nat : v <= msg.version => Have(d, v)
    BY <2>1, <2>2 DEF Have
  <2>4. /\ b.doc.version <= msg.version
        /\ IsValid(b.agg.doc) => b.agg.doc.version <= msg.version
    BY <1>1, <1>3, <1>6 DEF Chain, Pair, msg
  <2>5. \A v \in Nat : Have(b, v) => v <= msg.version
    BY <1>1, <1>3, <1>4, <2>4 DEF Have, Gathered
  <2>6. \A v \in Nat : Have(b, v) => Have(d, v)
    BY <2>3, <2>5
  <2>7. Gathered(d)
    BY <1>2, <1>3, <1>4, <2>1, <2>2, <2>6 DEF Gathered
  <2> QED BY <2>3, <2>6, <2>7 DEF msg
<1>7. CASE msg.kind = "reset"
  <2>1. /\ d.agg.token = 0 /\ ~d.agg.current /\ d.agg.dirty
        /\ d.agg.change = IF b.view.synced THEN "removed" ELSE "none"
    BY <1>2, <1>7, AggAfterIs DEF msg
  <2>2. Gathered(d)
    BY <1>2, <2>1 DEF Gathered
  <2> QED BY <1>1, <1>7, <2>2
<1>8. CASE msg.kind \in {"current", "snapshot"}
  <2>1. msg.version > 0 /\ Have(b, msg.version) /\ Have(b, 1)
    BY <1>8, HeadCovered DEF msg
  <2>2. /\ d.agg.change = b.agg.change /\ d.agg.doc = b.agg.doc
        /\ d.agg.token = msg.version /\ d.agg.dirty
    BY <1>2, <1>8, <2>1, AggAfterIs DEF msg
  <2>3. \A v \in Nat : Have(b, v) => Have(d, v)
    BY <1>2, <2>2 DEF Have
  <2>4. Gathered(d)
    BY <1>1, <1>2, <1>3, <2>1, <2>2, <2>3 DEF Gathered
  <2> QED BY <1>1, <1>8, <2>3, <2>4
<1>9. msg.kind \in {"added", "doc", "reset", "current", "snapshot"}
  BY <1>1 DEF WatchMsg, msg
<1> QED BY <1>5, <1>6, <1>7, <1>8, <1>9

\* A message that the aggregator alone hears.
LEMMA GatherKeeps ==
  ASSUME NEW b \in Client, NEW sv \in Server, ListenInv(b, sv), 1 \in News(b),
         NEW d, Kept(b, d), Carried(b, d, 1),
         b.queue[1].arg.kind # "refused", d.agg = AggAfter(b, b.queue[1].arg),
         d.chan["listen"] = b.chan["listen"], IsOpen(d, "listen"),
         \A i \in Results(d) : d.queue[i].arg.version \in 1..sv.version
  PROVE  ListenInv(d, sv) /\ b.shown <= d.shown
<1> DEFINE msg == b.queue[1].arg
<1>1. /\ msg \in WatchMsg /\ msg.version \in Nat /\ msg.note \in Nat
      /\ 1 \in Said(b, msg.kind) /\ \A k : 1 \in Said(b, k) => k = msg.kind
  BY HeardIs
<1>2. /\ Asked(b, sv) /\ Looking(b) /\ Chain(b, sv) /\ Counted(b, sv) /\ Cached(b)
      /\ Resume(b, sv)
  BY DEF ListenInv
<1>3. d \in Client /\ d.doc = b.doc /\ d.target = b.target
      /\ d.view.synced = b.view.synced /\ (d.view.current => b.view.current)
  BY DEF Kept
<1>4. d.agg.on /\ d.agg.pending = 0
  BY AggAfterIs
<1>5. Asked(d, sv)
  BY <1>1, <1>2, <1>3, <1>4, AskedHeard
<1>6. Looking(d) /\ Cached(d) /\ b.shown <= d.shown
  BY <1>2, KeptLooks
<1>7. Counted(d, sv)
  BY <1>2 DEF Counted
<1>8. Resume(d, sv)
  <2>1. /\ \A v \in Nat : Have(b, v) /\ 1 \notin Said(b, "reset") => Have(d, v)
        /\ \A v \in Nat : 1 \in Said(b, "doc") /\ v <= b.queue[1].arg.version
                            => Have(d, v)
        /\ Gathered(d)
    BY GatherHas
  <2>2. sv.version <= sv.version
    BY ServerTypes
  <2>3. /\ d.target.token <= d.doc.version
        /\ d.target.token > 0 => ~d.doc.committed /\ (d.target.on => d.view.synced)
        /\ d.view.current => d.view.synced
    BY <1>2, <1>3 DEF Resume
  <2> QED BY <1>2, <1>3, <2>1, <2>2, <2>3, ResumeCarried
<1>9. Chain(d, sv)
  <2>1. Pair(sv, sv) /\ Pair(d.doc, sv)
    BY <1>2, <1>3, ServerTypes DEF Pair, Chain
  <2>2. CASE msg.kind = "doc"
    <3>1. d.agg.doc = Doc("found", msg.version, msg.note, FALSE)
      BY <2>2, AggAfterIs
    <3>2. /\ IsFound(d.agg.doc) /\ ~d.agg.doc.committed
          /\ d.agg.doc.version = msg.version /\ d.agg.doc.note = msg.note
      BY <3>1 DEF Doc, IsFound
    <3>3. Pair(d.doc, msg) /\ Pair(msg, sv)
      BY <1>1, <1>2, <1>3, <2>2 DEF Chain
    <3>4. \A i \in Said(b, "doc") :
            i > 1 => Pair(d.doc, b.queue[i].arg) /\ Pair(msg, b.queue[i].arg)
      BY <1>1, <1>2, <1>3, <2>2, NewsAre DEF Chain
    <3> QED BY <1>2, <1>3, <2>1, <3>2, <3>3, <3>4, ChainCarried DEF Pair
  <2>3. CASE msg.kind # "doc"
    <3>1. d.agg.doc = b.agg.doc \/ ~IsValid(d.agg.doc)
      BY <1>1, <2>3, AggAfterIs, NoAggIs DEF WatchMsg
    <3>2. \A i \in Said(b, "doc") :
            /\ Pair(d.doc, b.queue[i].arg)
            /\ IsValid(d.agg.doc) => Pair(d.agg.doc, b.queue[i].arg)
      BY <1>2, <1>3, <3>1 DEF Chain
    <3>3. IsValid(d.agg.doc) => /\ IsFound(d.agg.doc) /\ ~d.agg.doc.committed
                                /\ Pair(d.doc, d.agg.doc) /\ Pair(d.agg.doc, sv)
      BY <1>2, <1>3, <3>1 DEF Chain
    <3> QED BY <1>2, <1>3, <2>1, <3>2, <3>3, ChainCarried
  <2> QED BY <2>2, <2>3
<1> QED BY <1>5, <1>6, <1>7, <1>8, <1>9 DEF ListenInv

-----------------------------------------------------------------------------
(* A snapshot is raised, a target refused.                                 *)

\* The same queue of the same connection says the same.
LEMMA CarriedSame ==
  ASSUME NEW c \in Client, NEW d \in Client, d.queue = c.queue, d.stream = c.stream
  PROVE  Carried(c, d, 0) /\ Results(d) = Results(c) /\ OnSnapshots(d) = OnSnapshots(c)
<1>1. News(d) = News(c)
  BY DEF News, Live
<1>2. \A i \in News(c) : i + 0 = i /\ i - 0 = i
  BY NewsAre
<1> QED BY <1>1, <1>2 DEF Carried, Results, OnSnapshots

\* The view takes a document that was found.
LEMMA ViewTakes ==
  ASSUME NEW view \in ViewSet, NEW doc \in DocSet, IsFound(doc)
  PROVE  SameData(ViewDoc(view, {doc}), doc)
<1> DEFINE changed == {x \in {doc} : ~(IsFound(view.doc) /\ SameData(x, view.doc))}
<1>1. ViewDoc(view, {doc})
        = IF changed = {} THEN view.doc
          ELSE LET x == CHOOSE x \in changed : TRUE
               IN  IF IsFound(x) THEN x ELSE InvalidDoc
  BY DEF ViewDoc
<1>2. CASE changed = {}
  BY <1>1, <1>2 DEF SameData
<1>3. CASE changed # {}
  <2>1. (CHOOSE x \in changed : TRUE) = doc
    BY <1>3
  <2> QED BY <1>1, <1>3, <2>1 DEF SameData
<1> QED BY <1>2, <1>3

\* The change of a target that has something to say.
LEMMA ChangeIs ==
  ASSUME NEW docs, NEW current
  PROVE  LET change == [docs  |-> docs,
                        state |-> IF current THEN "current" ELSE "not current"] IN
         change.docs = docs /\ (change.state = "current" => current)
OBVIOUS

\* What is left in the aggregator after a snapshot.
LEMMA SpentIs ==
  ASSUME NEW agg \in AggSet
  PROVE  LET spent == [agg EXCEPT !.dirty = FALSE, !.change = "none", !.doc = InvalidDoc] IN
         /\ spent.on = agg.on /\ spent.pending = agg.pending /\ spent.token = agg.token
         /\ spent.current = agg.current /\ spent.change = "none"
         /\ ~IsValid(spent.doc)
<1>1. ~IsValid(InvalidDoc)
  BY DEF IsValid, InvalidDoc, Doc
<1> HIDE DEF InvalidDoc
<1> QED BY <1>1 DEF AggSet

\* What a snapshot makes of the cache: the aggregator's document, if it is
\* newer, and never one that is not there.
LEMMA SnapshotCaches ==
  ASSUME NEW t \in Client, NEW sv \in Server, ListenInv(t, sv), NEW version \in Nat,
         t.target.on, t.agg.on, t.agg.pending = 0, t.agg.token > 0, t.agg.dirty
  PROVE  LET event == RemoteEvent(t, version) IN
         /\ event.token = t.agg.token /\ event.change.docs = t.agg.change
         /\ event.change.state = "current" => t.agg.current
         /\ \/ /\ Updates(t, event) = {}
               /\ IsValid(t.agg.doc) => ~IsNewer(t.agg.doc, t.doc)
            \/ /\ Updates(t, event) = {t.agg.doc} /\ event.doc = t.agg.doc
               /\ IsValid(t.agg.doc)
<1> DEFINE event == RemoteEvent(t, version)
           absent == /\ IsActiveTarget(t) /\ t.agg.current
                     /\ ~IsValid(t.agg.doc) /\ ~t.view.synced
<1>1. IsActiveTarget(t)
  BY DEF IsActiveTarget
<1>2. ~absent
  BY DEF ListenInv, Resume, Gathered, Have
<1>3. event.doc = t.agg.doc /\ event.token = t.agg.token
  BY <1>1, <1>2, RemoteEventIs
<1>4. event.change = [docs |-> t.agg.change,
                    state |-> IF t.agg.current THEN "current" ELSE "not current"]
  BY <1>1, <1>2, RemoteEventIs
<1> HIDE DEF event
<1>5. /\ event.change.docs = t.agg.change
      /\ event.change.state = "current" => t.agg.current
  BY <1>4, ChangeIs, Zenon
<1>6. \/ /\ Updates(t, event) = {}
         /\ IsValid(t.agg.doc) => ~IsNewer(t.agg.doc, t.doc)
      \/ /\ Updates(t, event) = {t.agg.doc} /\ event.doc = t.agg.doc
         /\ IsValid(t.agg.doc)
  BY <1>3 DEF Updates
<1> QED BY <1>3, <1>5, <1>6 DEF event

\* What a snapshot makes of the view that is there.
LEMMA SnapshotShows ==
  ASSUME NEW t \in Client, NEW version \in Nat, t.view.on
  PROVE  LET d == RaiseWatchSnapshot(t, version)
             event == RemoteEvent(t, version) IN
         /\ d.view.on /\ d.view.doc = ViewDoc(t.view, Updates(t, event))
         /\ event.change.docs = "added" => d.view.synced
         /\ event.change.docs \notin {"added", "removed"} => d.view.synced = t.view.synced
         /\ d.shown = t.shown \/ (d.listener.on /\ d.shown = d.view.doc.note)
<1> DEFINE d == RaiseWatchSnapshot(t, version)
           event == RemoteEvent(t, version)
<1>1. d.view.on /\ d.view.doc = ViewDoc(t.view, Updates(t, event))
  BY RaiseWatchIs
<1>2. d.view.synced = (CASE event.change.docs = "added"   -> TRUE
                         [] event.change.docs = "removed" -> FALSE
                         [] OTHER                         -> t.view.synced)
  BY RaiseWatchIs
<1>3. d.shown = t.shown \/ (d.listener.on /\ d.shown = d.view.doc.note)
  BY RaiseWatchIs
<1> HIDE DEF d, event
<1>4. /\ event.change.docs = "added" => d.view.synced
      /\ event.change.docs \notin {"added", "removed"} => d.view.synced = t.view.synced
  BY <1>2
<1> QED BY <1>1, <1>3, <1>4 DEF d, event

\* A snapshot: cache, view and page move together, and what was gathered is
\* in the cache.
LEMMA RaiseKeeps ==
  ASSUME NEW t \in Client, NEW sv \in Server, ListenInv(t, sv), NEW version \in Nat,
         t.target.on, t.agg.on, t.agg.pending = 0, t.agg.token > 0, t.agg.dirty,
         OnSnapshots(t) = {}
  PROVE  LET d == RaiseWatchSnapshot(t, version) IN
         ListenInv(d, sv) /\ t.shown <= d.shown
<1> DEFINE d == RaiseWatchSnapshot(t, version)
           event == RemoteEvent(t, version)
<1>1. /\ Asked(t, sv) /\ Looking(t) /\ Chain(t, sv) /\ Counted(t, sv) /\ Cached(t)
      /\ Resume(t, sv) /\ Gathered(t)
  BY DEF ListenInv, Resume
<1>2. /\ event.token = t.agg.token /\ event.change.docs = t.agg.change
      /\ event.change.state = "current" => t.agg.current
      /\ \/ /\ Updates(t, event) = {}
            /\ IsValid(t.agg.doc) => ~IsNewer(t.agg.doc, t.doc)
         \/ /\ Updates(t, event) = {t.agg.doc} /\ event.doc = t.agg.doc
            /\ IsValid(t.agg.doc)
  BY SnapshotCaches
<1>3. t.view.on /\ t.listens /\ t.wrote = "resolved"
  BY <1>1 DEF Looking
<1>4. /\ ListenStep(t, d)
      /\ d.stream = t.stream /\ d.chan = t.chan /\ d.queue = t.queue
      /\ d.failed = t.failed
      /\ d.target.on = t.target.on
      /\ d.target.token = IF event.token = 0 THEN t.target.token ELSE event.token
      /\ d.doc = IF Updates(t, event) = {} THEN t.doc ELSE event.doc
      /\ d.listener.on = t.listener.on
  BY RaiseWatchIs
<1>5. d.agg = [t.agg EXCEPT !.dirty = FALSE, !.change = "none", !.doc = InvalidDoc]
  BY RaiseWatchIs
<1>6. /\ d.view.on /\ d.view.doc = ViewDoc(t.view, Updates(t, event))
      /\ event.change.docs = "added" => d.view.synced
      /\ event.change.docs \notin {"added", "removed"} => d.view.synced = t.view.synced
      /\ d.shown = t.shown \/ (d.listener.on /\ d.shown = d.view.doc.note)
  BY <1>3, SnapshotShows
<1> HIDE DEF d, event
<1>7. \/ Updates(t, event) = {}
      \/ /\ Updates(t, event) = {t.agg.doc} /\ event.doc = t.agg.doc
         /\ IsValid(t.agg.doc)
  BY <1>2, Zenon
<1>8. d \in Client /\ d.listens = t.listens /\ d.wrote = t.wrote
      /\ d.target.token = t.agg.token /\ t.agg.token \in Nat
  BY <1>2, <1>4, DocTypes DEF ListenStep, WriteFields
<1>9. /\ d.agg.on = t.agg.on /\ d.agg.pending = 0 /\ d.agg.token = t.agg.token
      /\ d.agg.current = t.agg.current /\ d.agg.change = "none"
      /\ ~IsValid(d.agg.doc)
  <2>1. t.agg \in AggSet
    BY DEF Client
  <2> QED BY <1>5, <2>1, SpentIs, Zenon
<1>10. /\ t.doc.version \in Nat /\ t.doc.note \in Nat
       /\ t.agg.doc.version \in Nat /\ t.agg.doc.note \in Nat
       /\ d.shown \in Nat /\ t.shown \in Nat /\ d.doc.note \in Nat
       /\ t.view \in ViewSet /\ t.agg.doc \in DocSet /\ t.doc \in DocSet
  BY <1>8, DocTypes DEF Client
\* The cache.
<1>11. IsValid(t.agg.doc) => /\ IsFound(t.agg.doc) /\ ~t.agg.doc.committed
                             /\ Pair(t.doc, t.agg.doc)
  BY <1>1 DEF Chain
<1>12. /\ d.doc = t.doc \/ (d.doc = t.agg.doc /\ IsValid(t.agg.doc))
       /\ Pair(t.doc, d.doc) /\ IsFound(d.doc) /\ d.doc.version > 0
       /\ t.doc.committed = FALSE => d.doc.committed = FALSE
       /\ IsValid(t.agg.doc) => d.doc.committed = FALSE /\ t.agg.doc.version <= d.doc.version
  <2>1. CASE Updates(t, event) = {}
    <3>1. d.doc = t.doc
      BY <1>4, <2>1
    <3>2. ASSUME IsValid(t.agg.doc)
          PROVE  t.doc.committed = FALSE /\ t.agg.doc.version <= t.doc.version
      <4>1. ~IsNewer(t.agg.doc, t.doc)
        BY <1>2, <2>1, <3>2
      <4>2. t.doc.committed \in BOOLEAN
        BY <1>10 DEF DocSet
      <4> QED BY <1>10, <1>11, <3>2, <4>1, <4>2 DEF IsNewer, Pair
    <3>3. IsFound(t.doc) /\ t.doc.version > 0
      BY <1>1, <1>3 DEF Cached
    <3>4. Pair(t.doc, d.doc)
      BY <1>10, <3>1 DEF Pair
    <3> QED BY <3>1, <3>2, <3>3, <3>4
  <2>2. CASE Updates(t, event) = {t.agg.doc} /\ event.doc = t.agg.doc /\ IsValid(t.agg.doc)
    <3>1. d.doc = t.agg.doc
      BY <1>4, <2>2
    <3>2. t.agg.doc.committed = FALSE /\ t.doc.version > 0
      BY <1>1, <1>3, <1>10, <1>11, <2>2 DEF Cached, DocSet
    <3> QED BY <1>10, <1>11, <2>2, <3>1, <3>2 DEF Pair
  <2> QED BY <1>7, <2>1, <2>2
\* The view and the page.
<1>13. d.view.on /\ SameData(d.view.doc, d.doc)
  <2>1. CASE Updates(t, event) = {}
    BY <1>1, <1>3, <1>4, <1>6, <1>10, <2>1, ViewDocSame DEF Cached
  <2>2. CASE Updates(t, event) = {t.agg.doc} /\ event.doc = t.agg.doc /\ IsValid(t.agg.doc)
    BY <1>3, <1>4, <1>6, <1>10, <1>11, <2>2, ViewTakes
  <2> QED BY <1>7, <2>1, <2>2
<1>14. t.shown <= d.shown /\ d.shown <= d.doc.note
  BY <1>1, <1>3, <1>4, <1>6, <1>10, <1>12, <1>13 DEF Cached, Pair, SameData
\* What was had before is in the cache now.
<1>15. ASSUME NEW v \in Nat, Have(t, v)
       PROVE  /\ t.agg.change # "removed" /\ d.view.synced /\ d.doc.committed = FALSE
              /\ v <= d.doc.version /\ Have(d, v)
  <2>1. t.doc.committed \in BOOLEAN /\ d.doc.version \in Nat
    BY <1>8, <1>10, DocTypes DEF DocSet
  <2>2. t.agg.change \in TargetChange
    BY DEF Client, AggSet
  <2>3. CASE t.agg.change \in {"added", "modified"} /\ v <= t.agg.doc.version
    <3>1. IsValid(t.agg.doc) /\ (t.agg.change = "modified" => t.view.synced)
      BY <1>1, <2>3 DEF Gathered
    <3>2. d.view.synced
      BY <1>2, <1>6, <2>3, <3>1
    <3> QED BY <1>9, <1>10, <1>12, <2>1, <2>3, <3>1, <3>2 DEF Have
  <2>4. CASE t.agg.change # "removed" /\ t.view.synced /\ ~t.doc.committed
             /\ v <= t.doc.version
    <3>1. d.view.synced
      BY <1>2, <1>6, <2>4
    <3> QED BY <1>9, <1>10, <1>12, <2>1, <2>4, <3>1 DEF Have, Pair
  <2> QED BY <1>15, <2>3, <2>4 DEF Have
<1>16. Have(t, t.agg.token) /\ (t.agg.current => Have(t, 1))
  BY <1>1, <1>8 DEF Gathered
<1>17. Gathered(d)
  BY <1>8, <1>9, <1>15, <1>16 DEF Gathered
<1>18. Carried(t, d, 0) /\ Results(d) = Results(t) /\ OnSnapshots(d) = OnSnapshots(t)
  BY <1>4, <1>8, CarriedSame
<1>19. Asked(d, sv)
  <2>1. News(d) = News(t) /\ \A m : Said(d, m) = Said(t, m)
    BY <1>4 DEF News, Live, Said
  <2>2. t.chan["listen"].out = <<>>
    BY <1>1, NoAggIs DEF Asked
  <2>3. t.agg.pending # 1
    OBVIOUS
  <2> QED BY <1>1, <1>4, <1>9, <2>1, <2>2, <2>3 DEF Asked, IsOpen
<1>20. Looking(d)
  BY <1>1, <1>3, <1>4, <1>8, <1>13, <1>18 DEF Looking
<1>21. Cached(d)
  BY <1>3, <1>8, <1>12, <1>13, <1>14 DEF Cached
<1>22. Counted(d, sv)
  BY <1>1, <1>4, <1>18 DEF Counted
<1>23. Pair(d.doc, sv) /\ Pair(sv, sv) /\ sv.version <= sv.version
  BY <1>1, <1>12, ServerTypes DEF Chain, Pair
<1>24. Chain(d, sv)
  <2>1. \A i \in Said(t, "doc") : Pair(d.doc, t.queue[i].arg)
    BY <1>1, <1>12 DEF Chain
  <2> QED BY <1>1, <1>8, <1>9, <1>18, <1>23, <2>1, ChainCarried
<1>25. Resume(d, sv)
  <2>1. Have(t, d.target.token)
    BY <1>8, <1>16
  <2>2. /\ d.target.token <= d.doc.version /\ d.doc.committed = FALSE /\ d.view.synced
    BY <1>8, <1>15, <2>1
  <2>3. \A v \in Nat : Have(t, v) => Have(d, v)
    BY <1>15
  <2> QED BY <1>1, <1>8, <1>17, <1>18, <1>23, <2>2, <2>3, ResumeCarried
<1> QED BY <1>14, <1>19, <1>20, <1>21, <1>22, <1>24, <1>25 DEF ListenInv, d

\* The server refused the target: nothing of it is left, and nothing of it
\* will be heard.
LEMMA RefusedKeeps ==
  ASSUME NEW b \in Client, NEW sv \in Server, ListenInv(b, sv), 1 \in Said(b, "refused"),
         NEW l, Kept(b, l), Carried(b, l, 1), l.chan["listen"] = b.chan["listen"],
         \A i \in Results(l) : l.queue[i].arg.version \in 1..sv.version
  PROVE  LET d == TargetError(l) IN
         ListenInv(d, sv) /\ b.shown <= d.shown
<1> DEFINE d == TargetError(l)
<1>1. /\ Asked(b, sv) /\ Looking(b) /\ Chain(b, sv) /\ Counted(b, sv) /\ Cached(b)
      /\ Resume(b, sv)
  BY DEF ListenInv
<1>2. 1 \in News(b) /\ b.target.on /\ ~sv.feed.on /\ b.chan["listen"].out = <<>>
  BY <1>1, NewsAre, HeardIs, ServerTypes DEF Said, Asked
<1>3. l \in Client /\ l.target = b.target /\ l.doc = b.doc
  BY DEF Kept
<1>4. Looking(l) /\ Cached(l) /\ b.shown <= l.shown
  BY <1>1, KeptLooks
<1>5. /\ ListenStep(l, d)
      /\ d.stream = l.stream /\ d.chan = l.chan /\ d.queue = l.queue
      /\ d.failed = l.failed /\ d.doc = l.doc /\ d.shown = l.shown
      /\ ~d.target.on /\ d.target.token = l.target.token
      /\ d.view = NoView /\ ~d.listener.on /\ d.agg = NoAgg
  BY <1>2, <1>3, TargetErrorIs
<1> HIDE DEF d
<1>6. d \in Client /\ d.listens = l.listens /\ d.wrote = l.wrote
  BY <1>5 DEF ListenStep, WriteFields
<1>7. /\ ~NoView.on /\ NoView.doc = InvalidDoc /\ ~NoView.synced /\ ~NoView.current
  BY DEF NoView
<1>8. News(d) = {} /\ \A m : Said(d, m) = {}
  <2>1. News(l) = {}
    <3>1. \A i \in News(l) : i + 1 \in News(b) /\ i > 0
      BY <1>3, NewsAre DEF Carried
    <3>2. \A j \in News(b) : j <= 1
      BY <1>1 DEF Asked
    <3>3. \A i \in News(l) : i \in Nat
      BY <1>3, NewsAre
    <3> QED BY <3>1, <3>2, <3>3
  <2>2. News(d) = News(l)
    BY <1>5 DEF News, Live
  <2> QED BY <2>1, <2>2 DEF Said
<1>9. Results(d) = Results(l) /\ OnSnapshots(d) = OnSnapshots(l)
  BY <1>3, <1>5, <1>6, CarriedSame
<1>10. Asked(d, sv)
  BY <1>2, <1>5, <1>8, NoAggIs DEF Asked
<1>11. Looking(d)
  BY <1>4, <1>5, <1>6, <1>7, <1>9 DEF Looking
<1>12. Cached(d)
  BY <1>4, <1>5, <1>6, <1>7 DEF Cached
<1>13. Chain(d, sv) /\ Counted(d, sv)
  BY <1>1, <1>3, <1>5, <1>8, <1>9, NoAggIs DEF Chain, Counted
<1>14. Resume(d, sv)
  <2>1. Gathered(d)
    BY <1>5, NoAggIs DEF Gathered
  <2> QED BY <1>1, <1>2, <1>3, <1>5, <1>7, <1>8, <2>1 DEF Resume
<1> QED BY <1>4, <1>5, <1>10, <1>11, <1>12, <1>13, <1>14 DEF ListenInv, d

-----------------------------------------------------------------------------
(* Tasks that hear nothing of the watch stream.                            *)

\* A task runs, and the server at most loses the connections it closed.
Runs(b, sv, d, tv) ==
  /\ b \in Client /\ b.queue # <<>> /\ ConnInv(b, sv) /\ ListenInv(b, sv)
  /\ d \in Client /\ ConnInv(d, tv) /\ Later(sv, tv) /\ tv.version = sv.version
  /\ Quieter([b EXCEPT !.queue = Tail(@)].queue, d.queue)

\* Nothing but the queue changes when a task is taken off it.
LEMMA PoppedIs ==
  ASSUME NEW b \in Client, b.queue # <<>>
  PROVE  LET c == [b EXCEPT !.queue = Tail(@)] IN
         /\ c \in Client /\ c.failed = b.failed /\ c.doc = b.doc /\ c.target = b.target
         /\ c.view = b.view /\ c.listener = b.listener /\ c.shown = b.shown
         /\ c.wrote = b.wrote /\ c.listens = b.listens /\ c.agg = b.agg
         /\ c.stream = b.stream /\ c.chan = b.chan /\ c.batches = b.batches
         /\ c.pipeline = b.pipeline /\ c.lastSnapshot = b.lastSnapshot
<1>1. [b EXCEPT !.queue = Tail(@)] \in Client
  BY TailQueue
<1> QED BY <1>1 DEF Client

\* A step of the network keeps the cache, the target and the view.
LEMMA NetKept ==
  ASSUME NEW b \in Client, b.queue # <<>>, NEW d,
         NetStep([b EXCEPT !.queue = Tail(@)], d)
  PROVE  Kept(b, d)
<1> DEFINE c == [b EXCEPT !.queue = Tail(@)]
<1>1. /\ c \in Client /\ c.failed = b.failed /\ c.doc = b.doc /\ c.target = b.target
      /\ c.view = b.view /\ c.listener = b.listener /\ c.shown = b.shown
      /\ c.wrote = b.wrote /\ c.listens = b.listens
  BY PoppedIs
<1>2. OnSnapshots(d) # {} => OnSnapshots(b) # {}
  BY TaskLeaves DEF NetStep
<1> HIDE DEF c
<1>3. NetStep(c, d)
  BY DEF c
<1> QED BY <1>1, <1>2, <1>3 DEF NetStep, Kept

\* A step of the write side that leaves the cache alone does so too.
LEMMA PipeKept ==
  ASSUME NEW b \in Client, b.queue # <<>>, NEW d,
         PipeStep([b EXCEPT !.queue = Tail(@)], d),
         d.wrote = "resolved" <=> b.wrote = "resolved"
  PROVE  /\ Kept(b, d) /\ d.agg = b.agg /\ d.chan["listen"] = b.chan["listen"]
         /\ d.stream["listen"] = b.stream["listen"]
<1> DEFINE c == [b EXCEPT !.queue = Tail(@)]
<1>1. /\ c \in Client /\ c.failed = b.failed /\ c.doc = b.doc /\ c.target = b.target
      /\ c.view = b.view /\ c.listener = b.listener /\ c.shown = b.shown
      /\ c.wrote = b.wrote /\ c.listens = b.listens /\ c.agg = b.agg
      /\ c.stream = b.stream /\ c.chan = b.chan
  BY PoppedIs
<1>2. OnSnapshots(d) # {} => OnSnapshots(b) # {}
  BY TaskLeaves DEF PipeStep, WriteStep
<1> HIDE DEF c
<1>3. PipeStep(c, d)
  BY DEF c
<1> QED BY <1>1, <1>2, <1>3 DEF PipeStep, WriteStep, ListenFields, Kept

\* What a run leaves of the answers to the write.
LEMMA RunResults ==
  ASSUME NEW b, NEW sv, NEW d, NEW tv, Runs(b, sv, d, tv)
  PROVE  \A i \in Results(d) : d.queue[i].arg.version \in 1..tv.version
<1>1. \A i \in Results(d) : i + 1 \in Results(b) /\ d.queue[i] = b.queue[i + 1]
  BY TaskLeaves DEF Runs
<1> QED BY <1>1 DEF Runs, ListenInv, Counted

\* A task that leaves the aggregator and the stream alone.
LEMMA TaskSteady ==
  ASSUME NEW b, NEW sv, NEW d, NEW tv, Runs(b, sv, d, tv), Kept(b, d),
         Len(d.queue) = Len([b EXCEPT !.queue = Tail(@)].queue),
         d.stream["listen"].closes = b.stream["listen"].closes,
         1 \notin News(b), d.agg = b.agg,
         d.chan["listen"].out = b.chan["listen"].out,
         b.agg.on => IsOpen(d, "listen")
  PROVE  ListenInv(d, tv) /\ b.shown <= d.shown
<1>1. Carried(b, d, 1)
  BY CarriedByTask DEF Runs
<1>2. \A i \in Results(d) : d.queue[i].arg.version \in 1..tv.version
  BY RunResults
<1>3. b \in Client /\ d \in Client /\ sv \in Server /\ ListenInv(b, sv) /\ Later(sv, tv)
  BY DEF Runs, ConnInv
<1> QED BY <1>1, <1>2, <1>3, Steadily

\* A task after which the watch stream is not open.
LEMMA TaskAnew ==
  ASSUME NEW b, NEW sv, NEW d, NEW tv, Runs(b, sv, d, tv), Kept(b, d),
         d.agg = NoAgg, ~IsOpen(d, "listen")
  PROVE  ListenInv(d, tv) /\ b.shown <= d.shown
<1>1. StreamInv(d, "listen") /\ ~tv.feed.on
  BY DEF Runs, ConnInv, ClientInv, WatchInv, FeedInv
<1>2. News(d) = {} /\ d.chan["listen"].out = <<>>
  BY <1>1, QuietStream DEF Runs
<1>3. \A i \in Results(d) : d.queue[i].arg.version \in 1..tv.version
  BY RunResults
<1>4. b \in Client /\ d \in Client /\ sv \in Server /\ ListenInv(b, sv) /\ Later(sv, tv)
  BY DEF Runs, ConnInv
<1> QED BY <1>1, <1>2, <1>3, <1>4, Anew

\* The server's part of the invariant, when nothing of a target is under way.
LEMMA FeedKept ==
  ASSUME NEW b, NEW sv, NEW d, NEW tv, Runs(b, sv, d, tv)
  PROVE  /\ tv.feed.snap <= tv.feed.sent /\ tv.feed.sent <= tv.version
         /\ tv.feed.current => tv.feed.sent > 0
         /\ Counted(d, tv)
<1>1. sv \in Server /\ Resume(b, sv) /\ Later(sv, tv) /\ tv.version = sv.version
  BY DEF Runs, ConnInv, ListenInv
<1>2. tv.feed = sv.feed \/ tv.feed = NoFeed
  BY <1>1 DEF Later
<1>3. /\ tv.feed.snap <= tv.feed.sent /\ tv.feed.sent <= tv.version
      /\ tv.feed.current => tv.feed.sent > 0
  BY <1>1, <1>2, ServerTypes DEF Resume
<1>4. Counted(d, tv)
  BY <1>1, RunResults DEF Counted, Later
<1> QED BY <1>3, <1>4

\* The page listens: its view shows the cache, and the target is not asked
\* for yet.
LEMMA OnSnapshotKeeps ==
  ASSUME NEW b, NEW sv, NEW d, NEW tv, Runs(b, sv, d, tv),
         Head(b.queue).kind = "onSnapshot",
         d = OnSnapshot([b EXCEPT !.queue = Tail(@)])
  PROVE  ListenInv(d, tv) /\ b.shown <= d.shown
<1> DEFINE c == [b EXCEPT !.queue = Tail(@)]
<1>1. b \in Client /\ b.queue # <<>> /\ ClientInv(b) /\ ListenInv(b, sv) /\ d \in Client
  BY DEF Runs, ConnInv
<1>2. /\ c \in Client /\ c.doc = b.doc /\ c.target = b.target
      /\ c.view = b.view /\ c.shown = b.shown
      /\ c.wrote = b.wrote /\ c.listens = b.listens
  BY <1>1, PoppedIs
<1>3. /\ WatchInv(c) /\ ~c.failed /\ ~c.blocked
      /\ OnSnapshots(c) = {} /\ c.listens /\ AtRest(c)
  BY <1>1, PoppedClient
<1>4. OnSnapshots(b) # {}
  <2>1. b.queue[1].kind = "onSnapshot" /\ 1 \in 1..Len(b.queue)
    BY <1>1, TailQueue
  <2> QED BY <2>1 DEF OnSnapshots
<1>5. Looking(b) /\ Cached(b) /\ Chain(b, sv)
  BY <1>1 DEF ListenInv
<1> HIDE DEF c
<1>6. d = OnSnapshot(c)
  BY DEF c
<1>7. /\ ListenStep(c, d) /\ d.agg = NoAgg /\ ~IsOpen(d, "listen")
      /\ d.target.on /\ d.target.token = c.target.token
      /\ d.doc = c.doc /\ d.failed = c.failed
      /\ d.view.on /\ d.view.synced = c.view.synced
      /\ d.view.doc = ViewDoc(c.view, IF IsFound(c.doc) THEN {c.doc} ELSE {})
      /\ d.view.current => c.view.current
      /\ d.listener.on
      /\ d.shown = c.shown \/ d.shown = d.view.doc.note
  BY <1>2, <1>3, <1>6, OnSnapshotIs DEF AtRest
<1>8. /\ b.wrote = "resolved" /\ IsFound(b.doc) /\ b.doc.version > 0
      /\ b.target.token = 0 /\ ~b.view.synced /\ ~b.view.current
      /\ b.shown <= b.doc.note
  BY <1>2, <1>3, <1>4, <1>5 DEF Looking, Cached, AtRest
<1>9. d.listens /\ d.wrote = "resolved" /\ OnSnapshots(d) = {}
  <2>1. Quieter(c.queue, d.queue)
    BY <1>7 DEF ListenStep
  <2>2. OnSnapshots(d) = {}
    BY <1>1, <1>2, <1>3, <2>1, PageTasksShrink
  <2> QED BY <1>2, <1>3, <1>7, <1>8, <2>2 DEF ListenStep, WriteFields
<1>10. SameData(d.view.doc, d.doc)
  <2>1. b.view \in ViewSet /\ b.doc \in DocSet
    BY <1>1 DEF Client
  <2> QED BY <1>2, <1>7, <1>8, <2>1, ViewTakes
<1>11. b.shown <= d.shown /\ d.shown <= d.doc.note
  <2>1. b.shown \in Nat /\ b.doc.note \in Nat
    BY <1>1, DocTypes
  <2>2. d.shown = b.shown \/ d.shown = b.doc.note
    BY <1>2, <1>7, <1>10 DEF SameData
  <2> QED BY <1>2, <1>7, <1>8, <2>1, <2>2
<1>12. StreamInv(d, "listen") /\ ~tv.feed.on
  BY <1>7 DEF Runs, ConnInv, ClientInv, WatchInv, FeedInv
<1>13. News(d) = {} /\ d.chan["listen"].out = <<>> /\ \A m : Said(d, m) = {}
  BY <1>1, <1>7, <1>12, QuietStream
<1>14. Asked(d, tv)
  BY <1>7, <1>12, <1>13, NoAggIs DEF Asked
<1>15. Looking(d)
  BY <1>2, <1>3, <1>7, <1>8, <1>9 DEF Looking
<1>16. Chain(d, tv)
  <2>1. Pair(d.doc, tv)
    <3>1. Pair(b.doc, sv) /\ Pair(sv, tv) /\ tv \in Server /\ sv \in Server
      BY <1>5 DEF Chain, Runs, Later, ConnInv
    <3> QED BY <1>1, <1>2, <1>7, <3>1, PairTrans, DocTypes, ServerTypes
  <2> QED BY <1>7, <1>13, <2>1, NoAggIs DEF Chain
<1>17. Cached(d)
  BY <1>2, <1>7, <1>8, <1>9, <1>10, <1>11 DEF Cached
<1>18. Resume(d, tv)
  <2>1. Gathered(d)
    BY <1>7, NoAggIs DEF Gathered
  <2>2. d.target.token = 0 /\ d.doc.version \in Nat /\ ~d.view.current
    BY <1>1, <1>2, <1>7, <1>8, DocTypes
  <2>3. d.target.token <= d.doc.version /\ ~(d.target.token > 0)
    BY <2>2
  <2>4. /\ tv.feed.snap <= tv.feed.sent /\ tv.feed.sent <= tv.version
        /\ tv.feed.current => tv.feed.sent > 0
    BY FeedKept
  <2> QED BY <1>12, <1>13, <2>1, <2>2, <2>3, <2>4 DEF Resume
<1> QED BY <1>11, <1>14, <1>15, <1>16, <1>17, <1>18, FeedKept DEF ListenInv

\* The answer to the write: the cache takes the page's own field before
\* anybody listens.
LEMMA ResultKeeps ==
  ASSUME NEW b, NEW sv, NEW d, NEW tv, Runs(b, sv, d, tv),
         WriteStep([b EXCEPT !.queue = Tail(@)], d), d.failed = b.failed,
         b.wrote # "resolved", d.wrote = "resolved",
         NEW v \in 1..sv.version, d.doc = ApplyPatch(b.doc, v)
  PROVE  ListenInv(d, tv) /\ b.shown <= d.shown
<1> DEFINE c == [b EXCEPT !.queue = Tail(@)]
<1>1. /\ b \in Client /\ b.queue # <<>> /\ ListenInv(b, sv) /\ d \in Client
      /\ sv \in Server /\ tv \in Server /\ Pair(sv, tv) /\ tv.version = sv.version
      /\ tv.feed = sv.feed \/ tv.feed = NoFeed
  BY DEF Runs, ConnInv, Later
<1>2. /\ c \in Client /\ c.target = b.target /\ c.view = b.view
      /\ c.listener = b.listener /\ c.shown = b.shown /\ c.listens = b.listens
      /\ c.agg = b.agg /\ c.stream = b.stream /\ c.chan = b.chan
  BY <1>1, PoppedIs
<1>3. /\ Asked(b, sv) /\ Looking(b) /\ Cached(b) /\ Resume(b, sv)
  BY <1>1 DEF ListenInv
<1>4. Len(d.queue) = Len(c.queue) /\ Quieter(c.queue, d.queue)
  BY DEF WriteStep
<1>5. OnSnapshots(d) # {} => OnSnapshots(b) # {}
  BY <1>1, <1>4, TaskLeaves
<1>6. Len(d.queue) = Len([b EXCEPT !.queue = Tail(@)].queue)
      /\ Quieter([b EXCEPT !.queue = Tail(@)].queue, d.queue)
  BY <1>4
<1>7. WriteStep(c, d)
  OBVIOUS
<1> HIDE DEF c
<1>8. /\ d.target = b.target /\ d.view = b.view /\ d.listener = b.listener
      /\ d.shown = b.shown /\ d.listens = b.listens /\ d.agg = b.agg
      /\ d.stream["listen"] = b.stream["listen"] /\ d.chan["listen"] = b.chan["listen"]
  BY <1>2, <1>7 DEF WriteStep, ListenFields
<1>9. /\ ~b.listens /\ ~b.target.on /\ ~b.view.on /\ ~b.listener.on /\ b.target.token = 0
      /\ ~b.view.current /\ b.doc = InvalidDoc /\ ~b.agg.on /\ b.agg = NoAgg
      /\ News(b) = {} /\ ~sv.feed.on
  BY <1>3 DEF Looking, Cached, Asked
<1>10. /\ d.doc.version = v /\ d.doc.note = 0 /\ IsFound(d.doc)
  BY <1>9 DEF ApplyPatch, InvalidDoc, Doc, IsFound
<1>11. News(d) = {} /\ \A m : Said(d, m) = {}
  <2>1. Carried(b, d, 1)
    BY <1>1, <1>6, <1>8, CarriedByTask
  <2> QED BY <1>9, <2>1 DEF Carried, Said
<1>12. ~tv.feed.on
  BY <1>1, <1>9, ServerTypes
<1>13. b.chan["listen"].out = <<>>
  BY <1>3, <1>9, NoAggIs DEF Asked
<1>14. Asked(d, tv)
  BY <1>8, <1>9, <1>11, <1>12, <1>13, NoAggIs DEF Asked
<1>15. Looking(d)
  BY <1>3, <1>5, <1>8, <1>9 DEF Looking
<1>16. Chain(d, tv)
  <2>1. Pair(d.doc, tv)
    BY <1>1, <1>10, ServerTypes DEF Pair
  <2> QED BY <1>8, <1>9, <1>11, <2>1, NoAggIs DEF Chain
<1>17. Cached(d)
  <2>1. b.shown <= 0
    BY <1>3, <1>9 DEF Cached, InvalidDoc, Doc
  <2>2. v > 0
    BY <1>1, ServerTypes
  <2> QED BY <1>8, <1>9, <1>10, <2>1, <2>2 DEF Cached
<1>18. Resume(d, tv)
  <2>1. Gathered(d)
    BY <1>8, <1>9, NoAggIs DEF Gathered
  <2>2. 0 <= v
    BY <1>1, ServerTypes
  <2> QED BY <1>8, <1>9, <1>10, <1>11, <1>12, <2>1, <2>2, FeedKept DEF Resume
<1>19. b.shown <= d.shown
  BY <1>1, <1>8, DocTypes
<1> QED BY <1>14, <1>15, <1>16, <1>17, <1>18, <1>19, FeedKept DEF ListenInv

-----------------------------------------------------------------------------
(* Tasks that hear a message of the watch stream.                          *)

\* Before it listens to a message, the client is online.
LEMMA LiveIs ==
  ASSUME NEW b \in Client, NEW sv, ConnInv(b, sv), ListenInv(b, sv), 1 \in News(b)
  PROVE  LET c == [b EXCEPT !.queue = Tail(@)]
             seen == [c EXCEPT !.stream["listen"].seen = TRUE]
             live == SetOnline(seen, "Online") IN
         /\ Kept(b, live) /\ Carried(b, live, 1) /\ live.agg = b.agg
         /\ live.chan["listen"] = b.chan["listen"] /\ IsOpen(live, "listen")
         /\ live.lastSnapshot = b.lastSnapshot
         /\ \A i \in Results(live) : live.queue[i].arg.version \in 1..sv.version
<1> DEFINE c == [b EXCEPT !.queue = Tail(@)]
           seen == [c EXCEPT !.stream["listen"].seen = TRUE]
           live == SetOnline(seen, "Online")
<1>1. b.queue # <<>> /\ IsOpen(b, "listen")
  <2>1. 1 \in 1..Len(b.queue)
    BY NewsAre
  <2>2. sv \in Server
    BY DEF ConnInv
  <2> QED BY <2>1, <2>2, HeardIs DEF Client
<1>2. /\ c \in Client /\ c.failed = b.failed /\ c.doc = b.doc /\ c.target = b.target
      /\ c.view = b.view /\ c.listener = b.listener /\ c.shown = b.shown
      /\ c.wrote = b.wrote /\ c.listens = b.listens /\ c.agg = b.agg
      /\ c.stream = b.stream /\ c.chan = b.chan /\ c.lastSnapshot = b.lastSnapshot
  BY <1>1, PoppedIs
<1>3. WatchInv(c)
  BY <1>1, PoppedClient DEF ConnInv
<1>4. Quieter(c.queue, c.queue)
  BY <1>2, QuieterSame DEF Client
<1> HIDE DEF c
<1>5. /\ seen \in Client /\ seen.queue = c.queue /\ seen.chan = c.chan
      /\ seen.timers = c.timers /\ seen.stream["listen"].state = c.stream["listen"].state
      /\ seen.stream["listen"].closes = c.stream["listen"].closes
      /\ seen.online = c.online /\ seen.view = c.view /\ seen.failed = c.failed
      /\ seen.doc = c.doc /\ seen.target = c.target /\ seen.listener = c.listener
      /\ seen.shown = c.shown /\ seen.wrote = c.wrote /\ seen.listens = c.listens
      /\ seen.agg = c.agg /\ seen.lastSnapshot = c.lastSnapshot
  BY <1>2, ZenonT(30) DEF Client, StreamSet, Streams
<1> HIDE DEF seen
<1>6. WatchInv(seen) /\ IsOpen(seen, "listen")
  <2>1. StreamInv(seen, "listen")
    BY <1>3, <1>5 DEF WatchInv, StreamInv, Live, Ticks
  <2>2. IsOpen(seen, "listen") /\ IsOpen(c, "listen")
    BY <1>1, <1>2, <1>5 DEF IsOpen
  <2> QED BY <1>3, <1>5, <2>1, <2>2 DEF WatchInv, CurrentInv
<1>7. /\ OnlineStep(seen, live) /\ live.stream = seen.stream /\ live.chan = seen.chan
      /\ live.agg = seen.agg /\ live \in Client /\ IsOpen(live, "listen")
  BY <1>5, <1>6, OnlineNow
<1> HIDE DEF live
<1>8. Quieter(c.queue, live.queue) /\ Len(live.queue) = Len(c.queue)
  BY <1>5, <1>7 DEF OnlineStep
<1>9. /\ \A i \in Results(live) : i + 1 \in Results(b) /\ live.queue[i] = b.queue[i + 1]
      /\ OnSnapshots(live) # {} => OnSnapshots(b) # {}
  BY <1>1, <1>7, <1>8, TaskLeaves DEF c
<1>10. Kept(b, live)
  BY <1>2, <1>5, <1>7, <1>9 DEF OnlineStep, Kept
<1>11. Carried(b, live, 1)
  BY <1>1, <1>2, <1>5, <1>7, <1>8, CarriedByTask DEF c
<1>12. \A i \in Results(live) : live.queue[i].arg.version \in 1..sv.version
  BY <1>9 DEF ListenInv, Counted
<1> QED BY <1>2, <1>5, <1>7, <1>10, <1>11, <1>12 DEF OnlineStep, c, seen, live

\* The aggregator hears a message.
LEMMA HearsIs ==
  ASSUME NEW b \in Client, NEW sv \in Server, ListenInv(b, sv), 1 \in News(b),
         b.queue[1].arg.kind # "refused",
         NEW l, Kept(b, l), Carried(b, l, 1), l.agg = b.agg,
         l.chan["listen"] = b.chan["listen"], IsOpen(l, "listen"),
         \A i \in Results(l) : l.queue[i].arg.version \in 1..sv.version
  PROVE  LET d == [l EXCEPT !.agg = AggAfter(l, b.queue[1].arg)] IN
         /\ ListenInv(d, sv) /\ b.shown <= d.shown /\ d \in Client
         /\ d.agg = AggAfter(b, b.queue[1].arg) /\ d.target.on
         /\ OnSnapshots(d) = OnSnapshots(l)
<1> DEFINE msg == b.queue[1].arg
           agg == AggAfter(b, msg)
           d == [l EXCEPT !.agg = AggAfter(l, msg)]
<1>1. l \in Client /\ l.target = b.target /\ l.view.synced = b.view.synced
  BY DEF Kept
<1>2. b.target.on /\ agg \in AggSet
  BY HeardIs, AggAfterIs
<1>3. AggAfter(l, msg) = agg
  BY <1>1, Zenon DEF AggAfter, IsActiveTarget
<1> HIDE DEF agg
<1>4. d = [l EXCEPT !.agg = agg]
  BY <1>3
<1> HIDE DEF d
<1>5. /\ WatchStep(l, d) /\ d.agg = agg /\ d.stream = l.stream
      /\ d.chan = l.chan /\ d.queue = l.queue
      /\ d.target = l.target /\ d.view = l.view /\ d \in Client
      /\ d.shown = l.shown /\ d.listener = l.listener
  BY <1>1, <1>2, <1>4, AggStep
<1>6. Results(d) = Results(l) /\ OnSnapshots(d) = OnSnapshots(l) /\ Carried(l, d, 0)
  BY <1>1, <1>5, CarriedSame
<1>7. Kept(b, d)
  BY <1>5, <1>6 DEF Kept, WatchStep, ListenStep, WriteFields
<1>8. Carried(b, d, 1)
  <2>1. News(d) = News(l)
    BY <1>5 DEF News, Live
  <2> QED BY <1>5, <2>1 DEF Carried
<1>9. IsOpen(d, "listen") /\ d.chan["listen"] = b.chan["listen"]
      /\ \A i \in Results(d) : d.queue[i].arg.version \in 1..sv.version
  BY <1>5, <1>6 DEF IsOpen
<1>10. d.agg = AggAfter(b, b.queue[1].arg)
  BY <1>5 DEF agg
<1>11. ListenInv(d, sv) /\ b.shown <= d.shown
  BY <1>7, <1>8, <1>9, <1>10, GatherKeeps
<1> QED BY <1>1, <1>2, <1>5, <1>6, <1>10, <1>11 DEF d

\* Whatever the server says of the target.
LEMMA HeardKeeps ==
  ASSUME NEW b \in Client, NEW sv, ConnInv(b, sv), ListenInv(b, sv), 1 \in News(b)
  PROVE  LET c == [b EXCEPT !.queue = Tail(@)]
             d == OnMessage(c, "listen", b.queue[1].arg) IN
         ListenInv(d, sv) /\ b.shown <= d.shown
<1> DEFINE c == [b EXCEPT !.queue = Tail(@)]
           msg == b.queue[1].arg
           d == OnMessage(c, "listen", msg)
           seen == [c EXCEPT !.stream["listen"].seen = TRUE]
           l == SetOnline(seen, "Online")
           told == [l EXCEPT !.agg = AggAfter(l, msg)]
<1> SUFFICES ListenInv(d, sv) /\ b.shown <= d.shown
  OBVIOUS
<1>1. /\ Kept(b, l) /\ Carried(b, l, 1) /\ l.agg = b.agg
      /\ l.chan["listen"] = b.chan["listen"] /\ IsOpen(l, "listen")
      /\ l.lastSnapshot = b.lastSnapshot
      /\ \A i \in Results(l) : l.queue[i].arg.version \in 1..sv.version
  BY LiveIs
<1>2. seen.lastSnapshot = b.lastSnapshot
  BY DEF Client
<1>3. sv \in Server /\ ClientInv(b)
  BY DEF ConnInv
<1>4. /\ msg \in WatchMsg /\ msg.version \in Nat /\ msg.note \in Nat
      /\ b.agg.on /\ b.target.on /\ 1 \in Said(b, msg.kind)
      /\ msg.kind = "added" => b.agg.pending # 0
  BY <1>3, HeardIs, NoAggIs
<1>5. d = OnWatchChange(seen, msg)
  BY DEF OnMessage
<1>6. /\ msg.kind = "added"    => d = TargetAdded(l, msg.version)
      /\ msg.kind = "refused"  => d = TargetError(l)
      /\ msg.kind = "doc"      =>
           d = DocumentChanged(l, Doc("found", msg.version, msg.note, FALSE))
      /\ msg.kind = "current"  => d = TargetCurrent(l, msg.version)
      /\ msg.kind = "reset"    => d = TargetReset(l, 0)
      /\ msg.kind = "snapshot" =>
           \/ d = TargetUnchanged(l, msg.version)
           \/ d = RaiseWatchSnapshot(TargetUnchanged(l, msg.version), msg.version)
  <2> HIDE DEF d, seen, msg
  <2> QED BY <1>5 DEF OnWatchChange
<1> HIDE DEF d, l, seen, c
<1>7. l \in Client
  BY <1>1 DEF Kept
<1>8. /\ msg.kind = "added" => TargetAdded(l, msg.version) = told
      /\ msg.kind = "doc" =>
           DocumentChanged(l, Doc("found", msg.version, msg.note, FALSE)) = told
      /\ msg.kind = "current" => TargetCurrent(l, msg.version) = told
      /\ msg.kind = "reset" => TargetReset(l, 0) = told
      /\ msg.kind = "snapshot" => TargetUnchanged(l, msg.version) = told
  BY <1>1, <1>4, <1>7, GatherIs
<1>9. msg.kind # "refused" =>
        /\ ListenInv(told, sv) /\ b.shown <= told.shown /\ told \in Client
        /\ told.agg = AggAfter(b, msg) /\ told.target.on
        /\ OnSnapshots(told) = OnSnapshots(l)
  BY <1>1, <1>3, HearsIs
<1> HIDE DEF told
<1>10. CASE msg.kind \in {"added", "doc", "current", "reset"}
  <2>1. CASE msg.kind = "added"
    BY <1>6, <1>8, <1>9, <2>1, Zenon
  <2>2. CASE msg.kind = "doc"
    BY <1>6, <1>8, <1>9, <2>2, Zenon
  <2>3. CASE msg.kind = "current"
    BY <1>6, <1>8, <1>9, <2>3, Zenon
  <2>4. CASE msg.kind = "reset"
    BY <1>6, <1>8, <1>9, <2>4, Zenon
  <2> QED BY <1>10, <2>1, <2>2, <2>3, <2>4
<1>11. CASE msg.kind = "refused"
  <2>1. 1 \in Said(b, "refused")
    BY <1>4, <1>11
  <2>2. /\ ListenInv(TargetError(l), sv) /\ b.shown <= TargetError(l).shown
    BY <1>1, <1>3, <2>1, RefusedKeeps
  <2>3. d = TargetError(l)
    BY <1>6, <1>11, Zenon
  <2> QED BY <2>2, <2>3, Zenon
<1>12. CASE msg.kind = "snapshot"
  <2>1. d = told \/ d = RaiseWatchSnapshot(told, msg.version)
    BY <1>6, <1>8, <1>12, Zenon
  <2>2. msg.version > 0
    BY <1>3, <1>12, HeadCovered
  <2>3. /\ told.agg.on /\ told.agg.pending = 0 /\ told.agg.token = msg.version
        /\ told.agg.dirty
    BY <1>3, <1>9, <1>12, <2>2, AggAfterIs
  <2>4. OnSnapshots(told) = {}
    <3>1. OnSnapshots(b) = {} /\ b.listens
      BY <1>3, <1>4 DEF ClientInv, ListenOnce, AtRest
    <3>2. OnSnapshots(l) = {}
      BY <1>1, <3>1 DEF Kept
    <3> QED BY <1>9, <1>12, <3>2
  <2>5. /\ ListenInv(RaiseWatchSnapshot(told, msg.version), sv)
        /\ told.shown <= RaiseWatchSnapshot(told, msg.version).shown
    BY <1>3, <1>4, <1>9, <1>12, <2>2, <2>3, <2>4, RaiseKeeps
  <2>6. b.shown \in Nat /\ told.shown \in Nat
    BY <1>9, <1>12, DocTypes
  <2>7. CASE d = told
    BY <1>9, <1>12, <2>7, Zenon
  <2>8. CASE d = RaiseWatchSnapshot(told, msg.version)
    <3>1. d.shown \in Nat
      <4>1. d \in Client
        BY <1>4, <1>9, <1>12, <2>8, RaiseWatchIs DEF ListenStep
      <4> QED BY <4>1, DocTypes
    <3>2. b.shown <= told.shown
      BY <1>9, <1>12
    <3>3. ListenInv(d, sv) /\ told.shown <= d.shown
      BY <2>5, <2>8, Zenon
    <3>4. b.shown <= d.shown
      BY <2>6, <3>1, <3>2, <3>3
    <3> QED BY <3>3, <3>4
  <2> QED BY <2>1, <2>7, <2>8
<1>13. msg.kind \in {"added", "refused", "doc", "current", "reset", "snapshot"}
  BY <1>4 DEF WatchMsg
<1> QED BY <1>10, <1>11, <1>12, <1>13

-----------------------------------------------------------------------------
(* A task, whatever it is.                                                 *)

\* The server's record, but for the write that strays.
LEMMA SameServer ==
  ASSUME NEW d, NEW sv, NEW tv, ListenInv(d, sv),
         tv.version = sv.version, tv.note = sv.note, tv.listening = sv.listening,
         tv.feed = sv.feed
  PROVE  ListenInv(d, tv)
BY DEF ListenInv, Asked, Chain, Counted, Resume, Pair

\* The watch stream opens: the target is asked for.
LEMMA OpenKeeps ==
  ASSUME NEW b, NEW sv, NEW d, NEW tv, Runs(b, sv, d, tv),
         b.stream["listen"].state = "starting",
         Live([b EXCEPT !.queue = Tail(@)], "listen") = {},
         d = OnOpen([b EXCEPT !.queue = Tail(@)], "listen")
  PROVE  ListenInv(d, tv) /\ b.shown <= d.shown
<1> DEFINE c == [b EXCEPT !.queue = Tail(@)]
<1>1. /\ b \in Client /\ b.queue # <<>> /\ ClientInv(b) /\ ListenInv(b, sv) /\ d \in Client
      /\ sv \in Server /\ Later(sv, tv)
  BY DEF Runs, ConnInv
<1>2. c \in Client /\ c.target = b.target /\ c.agg = b.agg /\ c.stream = b.stream
      /\ c.chan = b.chan
  BY <1>1, PoppedIs
<1>3. WatchInv(c)
  BY <1>1, PoppedClient
<1>4. ~IsOpen(b, "listen") /\ StreamInv(b, "listen") /\ Asked(b, sv)
  BY <1>1 DEF IsOpen, ClientInv, WatchInv, ListenInv
<1>5. ~b.agg.on /\ b.agg = NoAgg /\ ~sv.feed.on /\ News(b) = {}
  BY <1>1, <1>4, QuietStream DEF Asked
<1> HIDE DEF c
<1>6. d = OnOpen(c, "listen")
  BY DEF c
<1>7. /\ WatchStep(c, d) /\ IsOpen(d, "listen") /\ d.target = c.target
      /\ d.stream["listen"].closes = c.stream["listen"].closes
      /\ ~c.target.on => d.agg = c.agg /\ d.chan["listen"].out = <<>>
      /\ c.target.on =>
           /\ d.agg = [(IF c.agg.on THEN c.agg ELSE NewTarget) EXCEPT !.pending = @ + 1]
           /\ d.chan["listen"].out \in {<<>>, <<AddRequest(c.target.token)>>}
  <2>1. /\ c.stream["listen"].state = "starting" /\ Live(c, "listen") = {}
    BY <1>2 DEF c
  <2>2. /\ WatchStep(c, d) /\ IsOpen(d, "listen") /\ d.target = c.target
        /\ d.stream["listen"].closes = c.stream["listen"].closes
        /\ ~c.target.on => d.agg = c.agg /\ d.chan["listen"].out = <<>>
    BY <1>2, <1>3, <1>6, <2>1, OpenListenIs
  <2>3. c.target.on =>
          d.agg = [(IF c.agg.on THEN c.agg ELSE NewTarget) EXCEPT !.pending = @ + 1]
    BY <1>2, <1>3, <1>6, <2>1, OpenListenIs, SMTT(30)
  <2>4. d.chan["listen"].out \in
          {<<>>, <<[kind |-> "add", version |-> c.target.token]>>}
    BY <1>2, <1>3, <1>6, <2>1, OpenListenIs
  <2>5. d.chan["listen"].out \in {<<>>, <<AddRequest(c.target.token)>>}
    BY <2>4 DEF AddRequest
  <2> QED BY <2>2, <2>3, <2>5, Zenon
<1>8. NetStep(c, d)
  BY <1>2, <1>7, SidesAreNetSteps
<1>9. Kept(b, d)
  BY <1>1, <1>8, NetKept DEF c
<1>10. News(d) = {}
  <2>1. /\ Quieter([b EXCEPT !.queue = Tail(@)].queue, d.queue)
        /\ Len(d.queue) = Len([b EXCEPT !.queue = Tail(@)].queue)
    BY <1>8 DEF NetStep, c
  <2>2. Carried(b, d, 1)
    BY <1>1, <1>2, <1>7, <2>1, CarriedByTask
  <2> QED BY <1>5, <2>2 DEF Carried
<1>11. c.target.on => d.agg = Pending
  <2>1. [NewTarget EXCEPT !.pending = @ + 1] = Pending
    BY DEF NewTarget, NoAgg, Pending
  <2> QED BY <1>2, <1>5, <1>7, <2>1
<1>12. ~tv.feed.on
  BY <1>1, <1>5, ServerTypes DEF Later
<1>13. \A i \in Results(d) : d.queue[i].arg.version \in 1..tv.version
  BY RunResults
<1>14. \/ d.agg = NoAgg /\ d.chan["listen"].out = <<>>
       \/ /\ d.agg = Pending /\ d.target.on /\ IsOpen(d, "listen")
          /\ d.chan["listen"].out \in {<<>>, <<AddRequest(d.target.token)>>}
  BY <1>2, <1>5, <1>7, <1>11
<1> QED BY <1>1, <1>9, <1>10, <1>12, <1>13, <1>14, Anew

\* A callback of the watch stream that is not disarmed.
LEMMA WatchTaskKeeps ==
  ASSUME NEW b, NEW sv, NEW d, NEW tv, Runs(b, sv, d, tv),
         tv.note = sv.note, tv.listening = sv.listening,
         d.chan["listen"].gen = b.chan["listen"].gen => tv.feed = sv.feed,
         Head(b.queue).on = "listen", Head(b.queue) \in StreamTask,
         Guarded(b, Head(b.queue)),
         d = OnStreamTask([b EXCEPT !.queue = Tail(@)], Head(b.queue))
  PROVE  ListenInv(d, tv) /\ b.shown <= d.shown
<1> DEFINE c == [b EXCEPT !.queue = Tail(@)]
           task == Head(b.queue)
<1>1. /\ b \in Client /\ b.queue # <<>> /\ ClientInv(b) /\ ListenInv(b, sv) /\ d \in Client
      /\ ConnInv(b, sv) /\ tv.version = sv.version
      /\ StreamInv(b, "listen")
  BY DEF Runs, ConnInv, ClientInv, WatchInv
<1>2. /\ c \in Client /\ c.target = b.target /\ c.agg = b.agg /\ c.stream = b.stream
      /\ c.chan = b.chan
  BY <1>1, PoppedIs
<1>3. WatchInv(c)
  BY <1>1, PoppedClient
<1>4. /\ b.stream["listen"].state \in {"starting", "open"}
      /\ task.kind = "open" => b.stream["listen"].state = "starting"
      /\ b.stream["listen"].state = "starting" =>
           task.kind = "open" /\ Live(c, "listen") = {}
  BY <1>1, PoppedStream DEF Streams
<1>5. /\ task = b.queue[1] /\ 1 \in 1..Len(b.queue)
      /\ task.on = "listen" /\ task \in StreamTask
      /\ task.gen = b.stream["listen"].closes + 1 /\ Guarded(c, task)
  BY <1>1, <1>2, TailQueue DEF Guarded
<1> HIDE DEF c, task
<1>6. d = OnStreamTask(c, task)
  BY DEF c, task
<1>7. /\ task.kind = "open"      => d = OnOpen(c, "listen")
      /\ task.kind = "connected" => d = SetOnline(c, "Online")
      /\ task.kind = "close"     => d = Close(c, "listen", "error", task.arg)
      /\ task.kind = "message"   => d = OnMessage(c, "listen", task.arg)
  BY <1>5, <1>6 DEF OnStreamTask, OnConnected
<1>8. CASE task.kind = "open"
  <2>1. d = OnOpen([b EXCEPT !.queue = Tail(@)], "listen")
    BY <1>7, <1>8 DEF c
  <2>2. Live([b EXCEPT !.queue = Tail(@)], "listen") = {}
    BY <1>4, <1>8 DEF c
  <2> QED BY <1>4, <1>8, <2>1, <2>2, OpenKeeps
<1>9. CASE task.kind = "connected"
  <2>1. IsOpen(c, "listen")
    BY <1>2, <1>4, <1>9 DEF IsOpen
  <2>2. /\ OnlineStep(c, d) /\ d.stream = c.stream /\ d.chan = c.chan /\ d.agg = c.agg
        /\ d.target = c.target /\ IsOpen(d, "listen")
    BY <1>2, <1>3, <1>7, <1>9, <2>1, OnlineNow
  <2>3. NetStep(c, d)
    BY <1>2, <2>2, OnlineIsWatchStep, SidesAreNetSteps
  <2>4. Kept(b, d)
    BY <1>1, <2>3, NetKept DEF c
  <2>5. 1 \notin News(b)
    BY <1>5, <1>9 DEF News
  <2>6. Len(d.queue) = Len([b EXCEPT !.queue = Tail(@)].queue)
    BY <2>3 DEF NetStep, c
  <2> QED BY <1>2, <2>2, <2>4, <2>5, <2>6, TaskSteady
<1>10. CASE task.kind = "close"
  <2>1. /\ WatchStep(c, d) /\ d.agg = NoAgg /\ d.target = c.target
        /\ ~IsOpen(d, "listen")
    BY <1>2, <1>3, <1>7, <1>10, CloseListenIs
  <2>2. NetStep(c, d)
    BY <1>2, <2>1, SidesAreNetSteps
  <2>3. Kept(b, d)
    BY <1>1, <2>2, NetKept DEF c
  <2> QED BY <2>1, <2>3, TaskAnew
<1>11. CASE task.kind = "message"
  <2>1. 1 \in News(b)
    BY <1>5, <1>11 DEF News, Live
  <2>2. d = OnMessage([b EXCEPT !.queue = Tail(@)], "listen", b.queue[1].arg)
    BY <1>5, <1>7, <1>11 DEF c
  <2>3. ListenInv(d, sv) /\ b.shown <= d.shown
    BY <1>1, <2>1, <2>2, HeardKeeps
  <2>4. d.chan["listen"].gen = b.chan["listen"].gen
    <3> DEFINE e == [c EXCEPT !.stream["listen"].seen = TRUE]
    <3>1. d = OnWatchChange(e, task.arg)
      BY <1>7, <1>11 DEF OnMessage
    <3>2. /\ e \in Client /\ e.queue = c.queue /\ e.chan = c.chan /\ e.timers = c.timers
          /\ e.stream["listen"].state = c.stream["listen"].state
          /\ e.stream["listen"].closes = c.stream["listen"].closes
          /\ e.online = c.online /\ e.view = c.view
      BY <1>2 DEF Client, StreamSet, Streams
    <3> HIDE DEF e
    <3>3. c.stream["listen"].state = "open"
      BY <1>2, <1>4, <1>11
    <3>4. StreamInv(e, "listen") /\ IsOpen(e, "listen") /\ IsOpen(c, "listen")
      BY <1>3, <3>2, <3>3 DEF WatchInv, StreamInv, Live, Ticks, IsOpen
    <3>5. WatchInv(e)
      BY <1>3, <3>2, <3>4 DEF WatchInv, CurrentInv
    <3>6. task.arg \in WatchMsg
      BY <1>5, <1>11 DEF StreamTask
    <3>7. d.chan = e.chan
      BY <3>1, <3>2, <3>4, <3>5, <3>6, WatchChangeKeeps
    <3> QED BY <1>2, <3>2, <3>7
  <2> QED BY <1>1, <2>3, <2>4, SameServer
<1>12. task.kind \in {"open", "connected", "close", "message"}
  BY <1>5 DEF StreamTask
<1> QED BY <1>8, <1>9, <1>10, <1>11, <1>12

\* A callback of the write stream that is not disarmed.
LEMMA WriteTaskListens ==
  ASSUME NEW b, NEW sv, NEW d, NEW tv, Runs(b, sv, d, tv),
         Head(b.queue).on = "write", Head(b.queue) \in StreamTask,
         Guarded(b, Head(b.queue)),
         d = OnStreamTask([b EXCEPT !.queue = Tail(@)], Head(b.queue))
  PROVE  ListenInv(d, tv) /\ b.shown <= d.shown
<1> DEFINE c == [b EXCEPT !.queue = Tail(@)]
           task == Head(b.queue)
<1>1. /\ b \in Client /\ b.queue # <<>> /\ ClientInv(b) /\ ListenInv(b, sv) /\ d \in Client
      /\ ~b.blocked /\ WriteKept(b) /\ b.batches \in Few
  BY DEF Runs, ConnInv, ClientInv, Client
<1>2. /\ c \in Client /\ c.doc = b.doc /\ c.wrote = b.wrote /\ c.batches = b.batches
      /\ c.failed = b.failed /\ c.stream = b.stream /\ c.chan = b.chan /\ c.agg = b.agg
      /\ c.target = b.target
  BY <1>1, PoppedIs
<1>3. Looking(b) /\ Cached(b) /\ Counted(b, sv) /\ Asked(b, sv)
  BY <1>1 DEF ListenInv
<1>4. task = b.queue[1] /\ 1 \in 1..Len(b.queue) /\ task.on = "write"
  BY <1>1, TailQueue
<1>5. /\ WriteStep(c, d) /\ d.failed = c.failed
      /\ c.batches = <<>> => d.wrote = c.wrote /\ d.doc = c.doc
      /\ \/ d.doc = c.doc /\ (d.wrote = "resolved" => c.wrote = "resolved")
         \/ /\ task.kind = "message" /\ task.arg.kind = "result" /\ d.wrote = "resolved"
            /\ d.doc = IF c.doc.version < task.arg.version
                         THEN ApplyPatch(c.doc, task.arg.version) ELSE c.doc
  BY <1>1, <1>3, WriteTaskIs DEF Looking
<1>6. b.batches # <<>> => b.wrote = "pending"
  BY <1>1 DEF WriteKept, PipelineInv
<1> HIDE DEF c, task
<1>7. CASE d.doc = c.doc /\ (d.wrote = "resolved" <=> c.wrote = "resolved")
  <2>1. PipeStep(c, d)
    BY <1>5, <1>7 DEF PipeStep
  <2>2. /\ Kept(b, d) /\ d.agg = b.agg /\ d.chan["listen"] = b.chan["listen"]
        /\ d.stream["listen"] = b.stream["listen"]
    BY <1>1, <1>2, <1>7, <2>1, PipeKept, ZenonT(30) DEF c
  <2>3. 1 \notin News(b)
    BY <1>4 DEF News, Live
  <2>4. Len(d.queue) = Len([b EXCEPT !.queue = Tail(@)].queue)
    BY <1>5 DEF WriteStep, c
  <2>5. b.agg.on => IsOpen(d, "listen")
    BY <1>3, <2>2 DEF Asked, IsOpen
  <2> QED BY <2>2, <2>3, <2>4, <2>5, TaskSteady
<1>8. CASE b.batches # <<>> /\ d.wrote = "resolved"
  <2> DEFINE v == task.arg.version
  <2>1. b.wrote = "pending" /\ b.doc = InvalidDoc
    BY <1>3, <1>6, <1>8 DEF Cached
  <2>2. task.kind = "message" /\ task.arg.kind = "result"
        /\ d.doc = IF c.doc.version < v THEN ApplyPatch(c.doc, v) ELSE c.doc
    BY <1>2, <1>5, <1>8, <2>1
  <2>3. 1 \in Results(b)
    BY <1>4, <2>2 DEF Results
  <2>4. v \in 1..sv.version
    BY <1>3, <1>4, <2>3 DEF Counted
  <2>5. b.doc.version = 0 /\ 0 < v
    BY <2>1, <2>4 DEF InvalidDoc, Doc
  <2>6. d.doc = ApplyPatch(b.doc, v)
    BY <1>2, <2>2, <2>5
  <2>7. WriteStep([b EXCEPT !.queue = Tail(@)], d) /\ d.failed = b.failed
    BY <1>2, <1>5 DEF c
  <2>8. b.wrote # "resolved"
    BY <2>1
  <2> HIDE DEF v
  <2> QED BY <1>8, <2>4, <2>6, <2>7, <2>8, ResultKeeps
<1>9. \/ d.doc = c.doc /\ (d.wrote = "resolved" <=> c.wrote = "resolved")
      \/ b.batches # <<>> /\ d.wrote = "resolved"
  BY <1>2, <1>5, <1>6
<1> QED BY <1>7, <1>8, <1>9

\* A delay that is over.
LEMMA TimerListens ==
  ASSUME NEW b, NEW sv, NEW d, NEW tv, Runs(b, sv, d, tv),
         Head(b.queue).kind = "timer", Head(b.queue) \in TaskSet,
         d = OnTimer([b EXCEPT !.queue = Tail(@)], Head(b.queue).on)
  PROVE  ListenInv(d, tv) /\ b.shown <= d.shown
<1> DEFINE c == [b EXCEPT !.queue = Tail(@)]
           task == Head(b.queue)
<1>1. /\ b \in Client /\ b.queue # <<>> /\ ClientInv(b) /\ ListenInv(b, sv) /\ d \in Client
      /\ ~b.blocked /\ WriteKept(b) /\ Asked(b, sv) /\ StreamInv(b, "listen")
      /\ StreamInv(b, "write") /\ ~b.failed
  BY DEF Runs, ConnInv, ClientInv, WriteKept, WriteCore, WatchInv, ListenInv, Looking
<1>2. /\ c \in Client /\ c.wrote = b.wrote /\ c.batches = b.batches
      /\ c.failed = b.failed /\ c.stream = b.stream /\ c.chan = b.chan /\ c.agg = b.agg
      /\ c.target = b.target
  BY <1>1, PoppedIs
<1>3. WatchInv(c) /\ WriteKept(c) /\ ~c.failed /\ ~c.blocked
  BY <1>1, PoppedClient
<1>4. task = b.queue[1] /\ 1 \in 1..Len(b.queue) /\ task.kind = "timer" /\ task.on \in Timers
  BY <1>1, TailQueue DEF TaskSet, StreamTask, TimerTask, PageTask
<1>5. b.batches # <<>> => b.wrote = "pending"
  BY <1>1 DEF WriteKept, PipelineInv
<1>6. 1 \notin News(b)
  BY <1>4 DEF News
<1>7. /\ task.on = "write" => c.stream["write"].state = "backoff" /\ Ticks(c, "write") = {}
      /\ task.on = "listen" => c.stream["listen"].state = "backoff" /\ Ticks(c, "listen") = {}
  BY <1>1, <1>2, PoppedStream DEF Streams
<1>8. b.agg.on => IsOpen(b, "listen")
  BY <1>1 DEF Asked
<1> HIDE DEF c, task
<1>9. d = OnTimer(c, task.on)
  BY DEF c, task
<1>10. ASSUME PipeStep(c, d), d.wrote = "resolved" <=> b.wrote = "resolved"
       PROVE  ListenInv(d, tv) /\ b.shown <= d.shown
  <2>1. /\ Kept(b, d) /\ d.agg = b.agg /\ d.chan["listen"] = b.chan["listen"]
        /\ d.stream["listen"] = b.stream["listen"]
    BY <1>1, <1>10, PipeKept DEF c
  <2>2. Len(d.queue) = Len([b EXCEPT !.queue = Tail(@)].queue)
    BY <1>10 DEF PipeStep, WriteStep, c
  <2>3. b.agg.on => IsOpen(d, "listen")
    BY <1>8, <2>1 DEF IsOpen
  <2> QED BY <1>6, <2>1, <2>2, <2>3, TaskSteady
<1>11. CASE task.on = "write"
  <2>1. PipeStep(c, d) /\ d.wrote = c.wrote
    BY <1>2, <1>3, <1>7, <1>9, <1>11, RestartWriteIs DEF WriteKept, WriteCore
  <2> QED BY <1>2, <1>10, <2>1
<1>12. CASE task.on = "idle"
  <2>1. PipeStep(c, d)
    BY <1>2, <1>3, <1>9, <1>12, IdleIs
  <2>2. d.wrote = "resolved" <=> b.wrote = "resolved"
    BY <1>2, <1>3, <1>5, <1>9, <1>12, IdleIs
  <2> QED BY <1>10, <2>1, <2>2
<1>13. CASE task.on = "listen"
  <2>1. d = Restart([c EXCEPT !.timers["listen"] = "off"], "listen")
    BY <1>9, <1>13 DEF OnTimer, Streams
  <2>2. /\ StreamStep(c, d, "listen")
        /\ d.stream["listen"].state \in {"starting", "backoff"}
    BY <1>2, <1>3, <1>7, <1>13, <2>1, RestartIs DEF WatchInv, Streams
  <2>3. NetStep(c, d)
    <3>1. WatchStep(c, d)
      BY <1>2, <2>2, StreamStepIs
    <3>2. d.target = c.target
      BY <2>2 DEF StreamStep
    <3> QED BY <1>2, <3>1, <3>2, SidesAreNetSteps
  <2>4. Kept(b, d)
    BY <1>1, <2>3, NetKept DEF c
  <2>5. d.agg = NoAgg /\ ~IsOpen(d, "listen")
    BY <1>1, <1>2, <1>7, <1>8, <1>13, <2>2 DEF StreamStep, IsOpen, Asked
  <2> QED BY <2>4, <2>5, TaskAnew
<1>14. CASE task.on = "online"
  <2>1. d = OnlineTimeout(c)
    BY <1>9, <1>14 DEF OnTimer, Streams
  <2>2. OnlineStep(c, d)
    BY <1>2, <1>3, <2>1, OnlineTimeoutIs DEF WatchInv
  <2>3. NetStep(c, d)
    <3>1. WatchStep(c, d)
      BY <1>2, <2>2, OnlineIsWatchStep
    <3>2. d.target = c.target
      BY <2>2 DEF OnlineStep
    <3> QED BY <1>2, <3>1, <3>2, SidesAreNetSteps
  <2>4. Kept(b, d)
    BY <1>1, <2>3, NetKept DEF c
  <2>5. Len(d.queue) = Len([b EXCEPT !.queue = Tail(@)].queue)
    BY <2>3 DEF NetStep, c
  <2>6. d.stream = b.stream /\ d.chan = b.chan /\ d.agg = b.agg
    BY <1>2, <2>2 DEF OnlineStep
  <2>7. b.agg.on => IsOpen(d, "listen")
    BY <1>8, <2>6 DEF IsOpen
  <2> QED BY <1>6, <2>4, <2>5, <2>6, <2>7, TaskSteady
<1> QED BY <1>4, <1>11, <1>12, <1>13, <1>14 DEF Timers, Streams

\* A task of the queue.
LEMMA TaskListens ==
  ASSUME NEW b, NEW sv, NEW d, NEW tv, Runs(b, sv, d, tv),
         tv.note = sv.note, tv.listening = sv.listening,
         d.chan["listen"].gen = b.chan["listen"].gen => tv.feed = sv.feed,
         d = Perform([b EXCEPT !.queue = Tail(@)], Head(b.queue))
  PROVE  ListenInv(d, tv) /\ b.shown <= d.shown
<1> DEFINE c == [b EXCEPT !.queue = Tail(@)]
           task == Head(b.queue)
<1>1. /\ b \in Client /\ b.queue # <<>> /\ ClientInv(b) /\ ListenInv(b, sv) /\ d \in Client
      /\ Asked(b, sv) /\ Cached(b)
  BY DEF Runs, ConnInv, ListenInv
<1>2. /\ c \in Client /\ c.failed = b.failed /\ c.doc = b.doc /\ c.target = b.target
      /\ c.view = b.view /\ c.listener = b.listener /\ c.shown = b.shown
      /\ c.wrote = b.wrote /\ c.listens = b.listens /\ c.agg = b.agg
      /\ c.stream = b.stream /\ c.chan = b.chan /\ c.batches = b.batches
  BY <1>1, PoppedIs
<1>3. /\ WatchInv(c) /\ WriteKept(c) /\ ~c.failed /\ ~c.blocked /\ task \in TaskSet
      /\ task.kind = "setDoc" => SetDocs(c) = {} /\ c.batches = <<>>
  BY <1>1, PoppedClient
<1>4. task = b.queue[1] /\ 1 \in 1..Len(b.queue) /\ Len(c.queue) \in Nat
  BY <1>1, <1>2, TailQueue DEF Client
<1>5. Guarded(c, task) <=> Guarded(b, task)
  BY <1>2 DEF Guarded
<1>6. b.agg.on => IsOpen(b, "listen")
  BY <1>1 DEF Asked
<1>7. Quieter(c.queue, c.queue)
  BY <1>2, QuieterSame DEF Client
<1> HIDE DEF c, task
<1>8. d = Perform(c, task)
  BY DEF c, task
<1>9. CASE task.kind = "setDoc"
  <2>1. PipeStep(c, d) /\ d.wrote = "pending"
    BY <1>2, <1>3, <1>8, <1>9, SetDocIs DEF Perform
  <2>2. b.wrote = "pending"
    <3>1. 1 \in SetDocs(b)
      BY <1>4, <1>9 DEF SetDocs
    <3> QED BY <1>1, <3>1 DEF ClientInv, WriteOnce
  <2>3. /\ Kept(b, d) /\ d.agg = b.agg /\ d.chan["listen"] = b.chan["listen"]
        /\ d.stream["listen"] = b.stream["listen"]
    BY <1>1, <2>1, <2>2, PipeKept DEF c
  <2>4. Len(d.queue) = Len([b EXCEPT !.queue = Tail(@)].queue)
    BY <2>1 DEF PipeStep, WriteStep, c
  <2>5. b.agg.on => IsOpen(d, "listen")
    BY <1>6, <2>3 DEF IsOpen
  <2>6. 1 \notin News(b)
    BY <1>4, <1>9 DEF News
  <2> QED BY <2>3, <2>4, <2>5, <2>6, TaskSteady
<1>10. CASE task.kind = "onSnapshot"
  <2>1. d = OnSnapshot([b EXCEPT !.queue = Tail(@)]) /\ Head(b.queue).kind = "onSnapshot"
    BY <1>8, <1>10 DEF Perform, c, task
  <2> QED BY <2>1, OnSnapshotKeeps
<1>11. CASE task.kind = "network"
  <2>1. NetStep(c, d) /\ d.agg = NoAgg /\ ~IsOpen(d, "listen")
    BY <1>2, <1>3, <1>8, <1>11, RestartNetworkIs DEF Perform
  <2>2. Kept(b, d)
    BY <1>1, <2>1, NetKept DEF c
  <2> QED BY <2>1, <2>2, TaskAnew
<1>12. CASE task.kind = "timer"
  <2>1. /\ d = OnTimer([b EXCEPT !.queue = Tail(@)], Head(b.queue).on)
        /\ Head(b.queue).kind = "timer" /\ Head(b.queue) \in TaskSet
    BY <1>3, <1>8, <1>12 DEF Perform, c, task
  <2> QED BY <2>1, TimerListens
<1>13. CASE d = c /\ 1 \notin News(b)
  <2>1. OnSnapshots(c) # {} => OnSnapshots(b) # {}
    BY <1>1, <1>2, <1>7, TaskLeaves DEF c
  <2>2. Kept(b, d)
    BY <1>2, <1>13, <2>1 DEF Kept
  <2>3. Len(d.queue) = Len([b EXCEPT !.queue = Tail(@)].queue)
    BY <1>13 DEF c
  <2>4. b.agg.on => IsOpen(d, "listen")
    BY <1>2, <1>6, <1>13 DEF IsOpen
  <2> QED BY <1>2, <1>13, <2>2, <2>3, <2>4, TaskSteady
<1>14. CASE task.kind = "cancelled"
  <2>1. d = c
    BY <1>8, <1>14 DEF Perform
  <2>2. 1 \notin News(b)
    BY <1>4, <1>14 DEF News
  <2> QED BY <1>13, <2>1, <2>2
<1>15. CASE task \in StreamTask /\ ~Guarded(c, task)
  <2>1. d = c
    BY <1>8, <1>15 DEF Perform, OnStreamTask, StreamTask
  <2>2. 1 \notin News(b)
    BY <1>4, <1>5, <1>15 DEF News, Live, Guarded
  <2> QED BY <1>13, <2>1, <2>2
<1>16. CASE task \in StreamTask /\ Guarded(c, task)
  <2>1. d = OnStreamTask([b EXCEPT !.queue = Tail(@)], Head(b.queue))
    BY <1>8, <1>16 DEF Perform, StreamTask, c, task
  <2>2. Head(b.queue) \in StreamTask /\ Guarded(b, Head(b.queue))
        /\ Head(b.queue).on \in {"listen", "write"}
    BY <1>5, <1>16 DEF task, StreamTask, Streams
  <2>3. CASE Head(b.queue).on = "listen"
    BY <2>1, <2>2, <2>3, WatchTaskKeeps
  <2>4. CASE Head(b.queue).on = "write"
    BY <2>1, <2>2, <2>4, WriteTaskListens
  <2> QED BY <2>2, <2>3, <2>4
<1>17. task \in StreamTask \/ task.kind \in {"timer", "setDoc", "onSnapshot", "network", "cancelled"}
  BY <1>3 DEF TaskSet, TimerTask, PageTask
<1> QED BY <1>9, <1>10, <1>11, <1>12, <1>14, <1>15, <1>16, <1>17


\* The server after a step of the client: the connections it lost.
LEMMA LeaveLater ==
  ASSUME server \in Server, Counted(client, server), NEW d, Leave(d),
         d.chan["write"].gen \in Nat
  PROVE  /\ client' = d /\ Later(server, server')
         /\ server'.version = server.version /\ server'.note = server.note
         /\ server'.listening = server.listening
         /\ d.chan["listen"].gen = client.chan["listen"].gen => server'.feed = server.feed
<1> DEFINE stray == \/ server.stray
                    \/ d.chan["write"].gen # client.chan["write"].gen /\ Writes(client) # {}
           feed == IF d.chan["listen"].gen # client.chan["listen"].gen THEN NoFeed
                   ELSE server.feed
<1>1. client' = d /\ server' = [server EXCEPT !.stray = stray, !.feed = feed]
  BY DEF Leave
<1>2. feed = server.feed \/ feed = NoFeed
  OBVIOUS
<1>3. d.chan["listen"].gen = client.chan["listen"].gen => feed = server.feed
  OBVIOUS
<1>4. server' \in Server
  BY LeaveIs
<1> HIDE DEF stray, feed
<1>5. /\ server'.version = server.version /\ server'.note = server.note
      /\ server'.listening = server.listening /\ server'.feed = feed
  BY <1>1 DEF Server
<1>6. Pair(server, server')
  BY <1>5, ServerTypes DEF Pair
<1> QED BY <1>1, <1>2, <1>3, <1>4, <1>5, <1>6 DEF Later, Counted

\* The queue runs its first task.
LEMMA RunTaskListens ==
  ASSUME ConnInv(client, server), ListenInv(client, server), RunTask,
         ConnInv(client', server')
  PROVE  /\ ListenInv(client', server') /\ client.shown <= client'.shown
         /\ server'.note = server.note
<1> DEFINE c == [client EXCEPT !.queue = Tail(@)]
           d == Perform(c, Head(client.queue))
<1>1. ClientInv(client) /\ server \in Server /\ client \in Client /\ client.queue # <<>>
      /\ Leave(d) /\ Counted(client, server)
  BY DEF ConnInv, ClientInv, RunTask, ListenInv
<1>2. ClientInv(d) /\ Quieter(c.queue, d.queue)
  BY <1>1, PerformKeeps
<1> HIDE DEF d
<1>3. d \in Client /\ d.chan["write"].gen \in Nat
  BY <1>2 DEF ClientInv, Client, ChannelSet, Streams
<1>4. /\ client' = d /\ Later(server, server')
      /\ server'.version = server.version /\ server'.note = server.note
      /\ server'.listening = server.listening
      /\ d.chan["listen"].gen = client.chan["listen"].gen => server'.feed = server.feed
  BY <1>1, <1>3, LeaveLater
<1>5. Runs(client, server, d, server')
  BY <1>1, <1>2, <1>3, <1>4 DEF Runs
<1>6. d = Perform([client EXCEPT !.queue = Tail(@)], Head(client.queue))
  BY DEF d
<1> QED BY <1>4, <1>5, <1>6, TaskListens

-----------------------------------------------------------------------------
(* Steps between the tasks.                                                *)

\* A call that says nothing of the target.
LEMMA CallListens ==
  ASSUME NEW c, NEW sv, ConnInv(c, sv), ListenInv(c, sv), NEW d, ClientInv(d),
         NEW task, Called(c, d, task), ~(task.on = "listen" /\ task.kind = "message"),
         NEW tv, Later(sv, tv),
         IsOpen(c, "listen") => d.chan["listen"].out \in {<<>>, c.chan["listen"].out},
         task.on = "write" /\ task.kind = "message" /\ task.arg.kind = "result" =>
           task.arg.version \in 1..tv.version,
         \/ d.listens = c.listens /\ task.kind # "onSnapshot"
         \/ ~c.listens /\ c.wrote = "resolved"
  PROVE  ListenInv(d, tv) /\ c.shown <= d.shown
<1>1. /\ c \in Client /\ d \in Client /\ sv \in Server /\ tv \in Server
      /\ StreamInv(d, "listen") /\ d.stream = c.stream /\ d.agg = c.agg
      /\ Asked(c, sv) /\ Counted(c, sv) /\ sv.version <= tv.version
  BY DEF ConnInv, ClientInv, WatchInv, Called, Later, ListenInv, Pair
<1>2. Carried(c, d, 0)
  BY <1>1, CarriedByCall
<1>3. /\ \A i \in Results(d) :
           \/ i \in Results(c) /\ d.queue[i] = c.queue[i]
           \/ /\ d.queue[i] = task /\ task.on = "write"
              /\ task.kind = "message" /\ task.arg.kind = "result"
      /\ OnSnapshots(d) # {} => OnSnapshots(c) # {} \/ task.kind = "onSnapshot"
  BY <1>1, CallLeaves
<1>4. Kept(c, d)
  <2>1. CASE d.listens = c.listens /\ task.kind # "onSnapshot"
    BY <1>3, <2>1 DEF Called, Kept
  <2>2. CASE ~c.listens /\ c.wrote = "resolved"
    BY <2>2 DEF Called, Kept
  <2> QED BY <2>1, <2>2
<1>5. \A i \in Results(d) : d.queue[i].arg.version \in 1..tv.version
  <2>1. sv.version \in Nat /\ tv.version \in Nat
    BY <1>1, ServerTypes
  <2>2. \A i \in Results(c) : c.queue[i].arg.version \in 1..sv.version
    BY <1>1 DEF Counted
  <2>3. \A v \in 1..sv.version : v \in 1..tv.version
    BY <1>1, <2>1
  <2> QED BY <1>3, <2>2, <2>3
<1>6. d.chan["listen"].out \in {<<>>, c.chan["listen"].out}
  <2>1. CASE IsOpen(c, "listen")
    BY <2>1
  <2>2. CASE ~IsOpen(c, "listen")
    <3>1. ~IsOpen(d, "listen")
      BY <1>1, <2>2 DEF IsOpen
    <3> QED BY <1>1, <3>1, QuietStream
  <2> QED BY <2>1, <2>2
<1>7. c.agg.on => IsOpen(d, "listen")
  BY <1>1 DEF Asked, IsOpen
<1> QED BY <1>1, <1>2, <1>4, <1>5, <1>6, <1>7, Steadily

\* A server that does nothing is no older.
LEMMA SameLater ==
  ASSUME NEW c, NEW sv, ConnInv(c, sv), ListenInv(c, sv)
  PROVE  Later(sv, sv)
BY ServerTypes DEF ConnInv, ListenInv, Later, Counted, Pair

\* What the page, the timers, the browser and the channels add.
LEMMA CallsListen ==
  ASSUME ConnInv(client, server), ListenInv(client, server),
         \/ PageListens \/ NetworkChanges
         \/ \E t \in Timers : TimerElapses(t)
         \/ \E s \in Streams : Opens(s) \/ Links(s)
  PROVE  /\ ListenInv(client', server') /\ client.shown <= client'.shown
         /\ server'.note = server.note
<1>1. /\ ClientInv(client) /\ server \in Server /\ Later(server, server)
      /\ client \in Client
  BY SameLater DEF ConnInv, ClientInv
<1>2. CASE PageListens
  <2> DEFINE task == Task("onSnapshot", "page", 0, "none")
  <2>1. task.kind = "onSnapshot" /\ task.on = "page"
    BY DEF Task
  <2> HIDE DEF task
  <2>2. ClientInv(client') /\ Called(client, client', task) /\ client'.chan = client.chan
        /\ server' = server /\ ~client.listens /\ client.wrote = "resolved"
    BY <1>1, <1>2, PageListensIs DEF PageListens, task
  <2> QED BY <1>1, <2>1, <2>2, CallListens
<1>3. CASE NetworkChanges
  <2> DEFINE task == Task("network", "page", 0, "none")
  <2>1. task.kind = "network" /\ task.on = "page"
    BY DEF Task
  <2>2. client'.listens = client.listens /\ server' = server
        /\ client' = EnqueueTask(client, task)
    BY <1>3 DEF NetworkChanges, EnqueueTask
  <2> HIDE DEF task
  <2>3. ClientInv(client') /\ Called(client, client', task) /\ client'.chan = client.chan
    BY <1>1, <2>2, NetworkIs DEF task
  <2> QED BY <1>1, <2>1, <2>2, <2>3, CallListens
<1>4. ASSUME NEW t \in Timers, TimerElapses(t)
      PROVE  /\ ListenInv(client', server') /\ client.shown <= client'.shown
             /\ server'.note = server.note
  <2> DEFINE task == Task("timer", t, 0, "none")
  <2>1. task.kind = "timer"
    BY DEF Task
  <2>2. client'.listens = client.listens /\ server' = server
    BY <1>1, <1>4 DEF TimerElapses, ElapseTimer, EnqueueTask, Client
  <2> HIDE DEF task
  <2>3. ClientInv(client') /\ Called(client, client', task) /\ client'.chan = client.chan
    BY <1>1, <1>4, ElapseIs DEF TimerElapses, task
  <2> QED BY <1>1, <2>1, <2>2, <2>3, CallListens
<1>5. ASSUME NEW s \in Streams, Opens(s)
      PROVE  /\ ListenInv(client', server') /\ client.shown <= client'.shown
             /\ server'.note = server.note
  <2> DEFINE task == Task("open", s, client.stream[s].closes + 1, "none")
  <2>1. task.kind = "open"
    BY DEF Task
  <2>2. client'.listens = client.listens /\ server' = server
    BY <1>1, <1>5 DEF Opens, OpenChannel, Dispatch, EnqueueTask, Client
  <2> HIDE DEF task
  <2>3. ClientInv(client') /\ Called(client, client', task)
        /\ \A r \in Streams : IsOpen(client, r) => client'.chan[r] = client.chan[r]
    BY <1>1, <1>5, OpensIs DEF Opens, task
  <2>4. IsOpen(client, "listen") => client'.chan["listen"] = client.chan["listen"]
    BY <2>3 DEF Streams
  <2> QED BY <1>1, <2>1, <2>2, <2>3, <2>4, CallListens
<1>6. ASSUME NEW s \in Streams, Links(s)
      PROVE  /\ ListenInv(client', server') /\ client.shown <= client'.shown
             /\ server'.note = server.note
  <2> DEFINE task == Task("connected", s, client.chan[s].gen, "none")
  <2>1. task.kind = "connected"
    BY DEF Task
  <2>2. client'.listens = client.listens /\ server' = server
    BY <1>1, <1>6 DEF Links, ChannelLinked, Dispatch, EnqueueTask, Client
  <2> HIDE DEF task
  <2>3. ClientInv(client') /\ Called(client, client', task)
        /\ \A r \in Streams : client'.chan[r].out = client.chan[r].out
    BY <1>1, <1>6, LinksIs DEF Links, task
  <2>4. client'.chan["listen"].out = client.chan["listen"].out
    BY <2>3 DEF Streams
  <2> QED BY <1>1, <2>1, <2>2, <2>3, <2>4, CallListens
<1> QED BY <1>2, <1>3, <1>4, <1>5, <1>6

\* A channel that ends has nothing under way; the other one is as it was.
LEMMA BreaksListen ==
  ASSUME ConnInv(client, server), ListenInv(client, server),
         ServerRefusesWrite \/ \E s \in Streams : Breaks(s)
  PROVE  /\ ListenInv(client', server') /\ client.shown <= client'.shown
         /\ server'.note = server.note
<1>1. /\ ClientInv(client) /\ server \in Server /\ client \in Client
      /\ Later(server, server) /\ Counted(client, server)
  BY SameLater DEF ConnInv, ClientInv, ListenInv
<1>2. ASSUME NEW s \in Streams, Breaks(s)
      PROVE  /\ ListenInv(client', server') /\ client.shown <= client'.shown
             /\ server'.note = server.note
  <2> DEFINE task == Task("close", s, client.chan[s].gen, "transient")
             d == ChannelBreaks(client, s, "transient")
  <2>1. task.kind = "close"
    BY DEF Task
  <2>2. /\ ClientInv(d) /\ Called(client, d, task)
        /\ \A r \in Streams \ {s} : d.chan[r] = client.chan[r]
    BY <1>1, <1>2, BreaksIs DEF Breaks
  <2>3. d.chan[s].out = <<>> /\ d.listens = client.listens
    <3>1. d.chan[s] = NoChannel
      BY <1>1 DEF ChannelBreaks, Dispatch, EnqueueTask, Client
    <3>2. d.listens = client.listens
      BY DEF ChannelBreaks, Dispatch, EnqueueTask
    <3> QED BY <3>1, <3>2, ChannelTypes
  <2> HIDE DEF task, d
  <2>4. d.chan["write"].gen \in Nat
    BY <2>2 DEF ClientInv, Client, ChannelSet, Streams
  <2>5. client' = d /\ Later(server, server') /\ server'.note = server.note
    BY <1>1, <1>2, <2>4, LeaveLater DEF Breaks, d
  <2>6. d.chan["listen"].out \in {<<>>, client.chan["listen"].out}
    BY <2>2, <2>3 DEF Streams
  <2> QED BY <2>1, <2>2, <2>3, <2>5, <2>6, CallListens
<1>3. ASSUME ServerRefusesWrite
      PROVE  /\ ListenInv(client', server') /\ client.shown <= client'.shown
             /\ server'.note = server.note
  <2> DEFINE task == Task("close", "write", client.chan["write"].gen, "permanent")
  <2>1. task.kind = "close"
    BY DEF Task
  <2>2. /\ client.chan["write"].out # <<>> /\ server' = server
        /\ Head(client.chan["write"].out).kind = "write"
        /\ client' = ChannelBreaks(client, "write", "permanent")
    BY <1>3 DEF ServerRefusesWrite, Receives
  <2>3. Exchange(client) /\ StreamInv(client, "write") /\ "write" \in Streams
    BY <1>1, BothStreams DEF Streams
  <2>4. client.stream["write"].seen
    BY <2>2, <2>3 DEF Exchange
  <2>5. IsOpen(client, "write") /\ client.chan["write"].gen # 0
    BY <1>1, <2>2, <2>3, OutIsOpen
  <2>6. client'.listens = client.listens
    BY <2>2 DEF ChannelBreaks, Dispatch, EnqueueTask
  <2> HIDE DEF task
  <2>7. /\ ClientInv(client') /\ Called(client, client', task)
        /\ \A r \in Streams \ {"write"} : client'.chan[r] = client.chan[r]
    BY <1>1, <2>2, <2>3, <2>4, <2>5, BreaksIs DEF task
  <2>8. client'.chan["listen"] = client.chan["listen"]
    BY <2>7 DEF Streams
  <2> QED BY <1>1, <2>1, <2>2, <2>6, <2>7, <2>8, CallListens
<1> QED BY <1>2, <1>3

\* The server's document after the page's write, and after a note.
LEMMA WritesLater ==
  ASSUME NEW c, NEW sv, ConnInv(c, sv), ListenInv(c, sv)
  PROVE  /\ Later(sv, Listening(sv)) /\ Listening(sv).note = sv.note
         /\ Listening(sv).version \in Nat \ {0}
         /\ Later(sv, [Listening(sv) EXCEPT !.stray = FALSE])
         /\ [Listening(sv) EXCEPT !.stray = FALSE].note = sv.note
         /\ sv.note < MaxNotes =>
              /\ Later(sv, [sv EXCEPT !.note = @ + 1, !.version = @ + 1])
              /\ [sv EXCEPT !.note = @ + 1, !.version = @ + 1].note = sv.note + 1
<1>1. /\ sv \in Server /\ sv.version = sv.note + (IF sv.listening THEN 1 ELSE 0)
      /\ sv.note <= MaxNotes /\ sv.version \in Nat /\ sv.note \in Nat /\ MaxNotes \in Nat
      /\ sv.listening \in BOOLEAN
  BY ServerTypes, ClientAssumption DEF ConnInv, ListenInv, Counted
<1> DEFINE one == sv.version + 1
           next == sv.note + 1
           lv == Listening(sv)
           st == [lv EXCEPT !.stray = FALSE]
           nt == [sv EXCEPT !.note = next, !.version = one]
<1>2. /\ lv \in Server /\ lv.listening /\ lv.feed = sv.feed
      /\ st \in Server /\ st.listening /\ st.feed = sv.feed
  BY <1>1, ServerIs
<1>3. one \in Nat /\ next \in Nat /\ one > sv.version /\ next > sv.note
  BY <1>1
<1> HIDE DEF one, next
<1>4. lv.note = sv.note /\ lv.version = IF sv.listening THEN sv.version ELSE one
  <2>1. CASE sv.listening
    BY <2>1 DEF Listening
  <2>2. CASE ~sv.listening
    BY <1>1, <2>2 DEF Listening, Server, one
  <2> QED BY <2>1, <2>2
<1> HIDE DEF lv
<1>5. st.note = lv.note /\ st.version = lv.version
  BY <1>2 DEF Server
<1>6. nt \in Server /\ nt.note = next /\ nt.version = one /\ nt.listening = sv.listening
      /\ nt.feed = sv.feed
  BY <1>1, <1>3 DEF Server
<1> HIDE DEF st, nt
<1>7. /\ lv.version = lv.note + 1 /\ sv.version <= lv.version /\ lv.version > 0
      /\ lv.version \in Nat
  BY <1>1, <1>3, <1>4 DEF one
<1>8. Pair(sv, lv) /\ Pair(sv, st) /\ Pair(sv, nt)
  BY <1>1, <1>3, <1>4, <1>5, <1>6, <1>7 DEF Pair
<1>9. Later(sv, lv) /\ Later(sv, st)
  BY <1>1, <1>2, <1>4, <1>5, <1>7, <1>8 DEF Later
<1>10. sv.note < MaxNotes => Later(sv, nt)
  <2>1. one = next + (IF sv.listening THEN 1 ELSE 0)
    BY <1>1 DEF one, next
  <2>2. sv.note < MaxNotes => next <= MaxNotes
    BY <1>1 DEF next
  <2> QED BY <1>6, <1>8, <2>1, <2>2 DEF Later
<1> QED BY <1>4, <1>5, <1>6, <1>7, <1>9, <1>10 DEF lv, st, nt, one, next

\* The server greets, or takes the page's write.
LEMMA AnswersListen ==
  ASSUME ConnInv(client, server), ListenInv(client, server), ServerGreets \/ ServerWrites
  PROVE  /\ ListenInv(client', server') /\ client.shown <= client'.shown
         /\ server'.note = server.note
<1>1. /\ ClientInv(client) /\ server \in Server /\ client \in Client
      /\ Exchange(client) /\ "write" \in Streams /\ Later(server, server)
  BY BothStreams, SameLater DEF ConnInv, Streams
<1>2. CASE ServerGreets
  <2> DEFINE msg == [kind |-> "token", version |-> 0, note |-> 0]
             task == Task("message", "write", client.chan["write"].gen, msg)
  <2>1. msg \in WriteMsg /\ msg.kind = "token" /\ task.arg = msg /\ task.on = "write"
        /\ task.kind = "message"
    BY DEF WriteMsg, Task
  <2>2. /\ client.chan["write"].out # <<>> /\ server' = server
        /\ Head(client.chan["write"].out).kind = "hello"
        /\ client' = ChannelAnswers(client, "write", msg)
    BY <1>2 DEF ServerGreets, Receives, Answer
  <2>3. client'.listens = client.listens
    BY <1>1, <2>2 DEF ChannelAnswers, Dispatch, EnqueueTask, Client
  <2> HIDE DEF msg, task
  <2>4. ~client.stream["write"].seen
    BY <1>1, <2>2 DEF Exchange
  <2>5. /\ ClientInv(client') /\ Called(client, client', task)
        /\ \A r \in Streams \ {"write"} : client'.chan[r] = client.chan[r]
    BY <1>1, <2>1, <2>2, <2>4, AnswersIs DEF task
  <2>6. client'.chan["listen"] = client.chan["listen"]
    BY <2>5 DEF Streams
  <2> QED BY <1>1, <2>1, <2>2, <2>3, <2>5, <2>6, CallListens
<1>3. CASE ServerWrites
  <2> DEFINE msg == [kind |-> "result", version |-> server'.version, note |-> 0]
             task == Task("message", "write", client.chan["write"].gen, msg)
  <2>1. /\ client.chan["write"].out # <<>> /\ server' = Listening(server)
        /\ Head(client.chan["write"].out).kind = "write"
        /\ client' = ChannelAnswers(client, "write", msg)
    BY <1>3 DEF ServerWrites, Receives, Answer
  <2>2. /\ Later(server, server') /\ server'.note = server.note
        /\ server'.version \in Nat \ {0}
    BY <2>1, WritesLater
  <2>3. /\ msg \in WriteMsg /\ msg.kind = "result" /\ msg.version = server'.version
        /\ task.arg = msg /\ task.on = "write" /\ task.kind = "message"
    BY <2>2 DEF WriteMsg, Task
  <2>4. client'.listens = client.listens
    BY <1>1, <2>1 DEF ChannelAnswers, Dispatch, EnqueueTask, Client
  <2> HIDE DEF msg, task
  <2>5. client.stream["write"].seen
    BY <1>1, <2>1 DEF Exchange
  <2>6. /\ ClientInv(client') /\ Called(client, client', task)
        /\ \A r \in Streams \ {"write"} : client'.chan[r] = client.chan[r]
    BY <1>1, <2>1, <2>3, <2>5, AnswersIs DEF task
  <2>7. client'.chan["listen"] = client.chan["listen"]
    BY <2>6 DEF Streams
  <2>8. task.arg.version \in 1..server'.version
    BY <2>2, <2>3
  <2> QED BY <2>2, <2>3, <2>4, <2>6, <2>7, <2>8, CallListens
<1> QED BY <1>2, <1>3

\* What the server says is one message more, the last of those under way.
LEMMA SaysMore ==
  ASSUME NEW c \in Client, ~c.failed, NEW d, NEW task, Called(c, d, task),
         task.on = "listen", task.kind = "message",
         task.gen = c.stream["listen"].closes + 1
  PROVE  LET n == Len(c.queue) + 1 IN
         /\ n \in Nat /\ News(d) = News(c) \cup {n} /\ d.queue[n] = task
         /\ \A i \in News(c) : i < n /\ d.queue[i] = c.queue[i]
         /\ \A k : Said(d, k) = IF task.arg.kind = k THEN Said(c, k) \cup {n}
                                ELSE Said(c, k)
<1> DEFINE n == Len(c.queue) + 1
<1>1. /\ n \in Nat /\ News(d) = News(c) \cup {n} /\ d.queue[n] = task
      /\ \A i \in News(c) : i < n /\ d.queue[i] = c.queue[i]
  BY NewsGrow
<1> HIDE DEF n
<1>2. ASSUME NEW k
      PROVE  Said(d, k) = IF task.arg.kind = k THEN Said(c, k) \cup {n} ELSE Said(c, k)
  BY <1>1 DEF Said
<1> QED BY <1>1, <1>2 DEF n

\* A message leaves the cache, the view and the page alone.
LEMMA SaysKept ==
  ASSUME NEW c \in Client, NEW d, NEW task, Called(c, d, task), task.kind = "message",
         d.listens = c.listens
  PROVE  /\ Kept(c, d) /\ d.agg = c.agg /\ d.stream = c.stream
         /\ \A v : Have(d, v) <=> Have(c, v)
         /\ ~(task.on = "write") => Results(d) \subseteq Results(c)
              /\ \A i \in Results(d) : d.queue[i] = c.queue[i]
<1>1. /\ \A i \in Results(d) :
           \/ i \in Results(c) /\ d.queue[i] = c.queue[i]
           \/ /\ d.queue[i] = task /\ task.on = "write"
              /\ task.kind = "message" /\ task.arg.kind = "result"
      /\ OnSnapshots(d) # {} => OnSnapshots(c) # {} \/ task.kind = "onSnapshot"
  BY CallLeaves
<1>2. Kept(c, d)
  BY <1>1 DEF Called, Kept
<1>3. \A v : Have(d, v) <=> Have(c, v)
  BY DEF Called, Have
<1> QED BY <1>1, <1>2, <1>3 DEF Called

\* The server adds the target: it goes on from the token it was asked with.
LEMMA TargetListens ==
  ASSUME ConnInv(client, server), ListenInv(client, server), ServerAddsTarget
  PROVE  /\ ListenInv(client', server') /\ client.shown <= client'.shown
         /\ server'.note = server.note
<1> DEFINE msg == [kind |-> "added", version |-> 0, note |-> 0]
           task == Task("message", "listen", client.chan["listen"].gen, msg)
           token == client.target.token
           feed == [on |-> TRUE, current |-> FALSE, snap |-> 0, sent |-> token]
           n == Len(client.queue) + 1
<1>1. /\ ClientInv(client) /\ server \in Server /\ client \in Client
      /\ StreamInv(client, "listen") /\ "listen" \in Streams
      /\ Asked(client, server) /\ Looking(client) /\ Chain(client, server)
      /\ Counted(client, server) /\ Cached(client) /\ Resume(client, server)
  BY BothStreams DEF ConnInv, ListenInv, Streams
<1>2. /\ client.chan["listen"].out # <<>>
      /\ client' = ChannelAnswers(client, "listen", msg)
  BY DEF ServerAddsTarget, Receives, Answer
<1>3. /\ client.chan["listen"].out = <<AddRequest(token)>> /\ client.agg = Pending
      /\ News(client) = {}
  BY <1>1, <1>2 DEF Asked
<1>4. Head(client.chan["listen"].out).version = token
  BY <1>3 DEF AddRequest
<1>5. server' = [server EXCEPT !.feed = feed]
  BY <1>4 DEF ServerAddsTarget
<1>6. token \in Nat /\ token <= client.doc.version /\ client.doc.version <= server.version
  BY <1>1, DocTypes DEF Resume, Chain, Pair
<1>7. /\ msg \in WatchMsg /\ task.on = "listen" /\ task.kind = "message" /\ task.arg = msg
      /\ msg.kind = "added" /\ msg.version = 0 /\ task.gen = client.chan["listen"].gen
  BY DEF WatchMsg, Task
<1>8. client'.listens = client.listens
  BY <1>1, <1>2 DEF ChannelAnswers, Dispatch, EnqueueTask, Client
<1>9. feed \in [on : BOOLEAN, current : BOOLEAN, sent : Nat, snap : Nat]
      /\ feed.on /\ ~feed.current /\ feed.snap = 0 /\ feed.sent = token
  BY <1>6
<1> HIDE DEF msg, task, feed, n, token
<1>10. IsOpen(client, "listen") /\ task.gen = client.stream["listen"].closes + 1
  BY <1>1, <1>2, <1>7, OutIsOpen
<1>11. /\ ClientInv(client') /\ Called(client, client', task)
       /\ client'.chan["listen"].out = Tail(client.chan["listen"].out)
  BY <1>1, <1>2, <1>7, AnswersIs DEF task
<1>12. /\ client' \in Client /\ client'.chan["listen"].out = <<>>
       /\ client'.doc = client.doc /\ client'.target = client.target
       /\ client'.view = client.view
  BY <1>3, <1>11 DEF ClientInv, Called
<1>13. /\ server' \in Server /\ server'.version = server.version
       /\ server'.note = server.note /\ server'.listening = server.listening
       /\ server'.feed = feed
  BY <1>1, <1>5, <1>9 DEF Server
<1>14. /\ Kept(client, client') /\ client'.agg = Pending /\ client'.stream = client.stream
       /\ \A v : Have(client', v) <=> Have(client, v)
       /\ Results(client') \subseteq Results(client)
       /\ \A i \in Results(client') : client'.queue[i] = client.queue[i]
  BY <1>1, <1>3, <1>7, <1>8, <1>11, SaysKept
<1>15. /\ n \in Nat /\ News(client') = {n} /\ client'.queue[n] = task
       /\ \A k : Said(client', k) = IF k = "added" THEN {n} ELSE {}
  <2>1. ~client.failed
    BY <1>1 DEF Looking
  <2>2. \A k : Said(client, k) = {}
    BY <1>3 DEF Said
  <2> QED BY <1>1, <1>3, <1>7, <1>10, <1>11, <2>1, <2>2, SaysMore DEF n
<1>16. Asked(client', server')
  <2>1. /\ Pending.on = TRUE /\ Pending.pending = 1
    BY NoAggIs
  <2>2. IsOpen(client', "listen") /\ client'.target.on
    BY <1>1, <1>3, <1>10, <1>12, <1>14, <2>1 DEF IsOpen, Asked
  <2> HIDE DEF Pending
  <2>3. n <= n
    BY <1>15
  <2> QED BY <1>7, <1>12, <1>14, <1>15, <2>1, <2>2, <2>3 DEF Asked
<1>17. Looking(client') /\ Cached(client') /\ client.shown <= client'.shown
  BY <1>1, <1>14, KeptLooks
<1>18. Chain(client', server')
  <2>1. ~IsValid(client'.agg.doc)
    BY <1>14, NoAggIs
  <2>2. Pair(client'.doc, server')
    BY <1>1, <1>12, <1>13 DEF Chain, Pair
  <2> QED BY <1>15, <2>1, <2>2 DEF Chain
<1>19. Counted(client', server')
  BY <1>1, <1>13, <1>14 DEF Counted
<1>20. Resume(client', server')
  <2>1. client'.agg = client.agg /\ ~(Pending.change = "removed")
    BY <1>3, <1>14, NoAggIs
  <2>2. Gathered(client')
    BY <1>1, <1>12, <1>14, <2>1 DEF Gathered, Resume
  <2>3. /\ client'.target.token <= client'.doc.version
        /\ client'.target.token > 0 =>
             ~client'.doc.committed /\ (client'.target.on => client'.view.synced)
        /\ client'.view.current => client'.view.synced
    BY <1>1, <1>12 DEF Resume
  <2>4. client'.target.on
    BY <1>16, <1>14, NoAggIs DEF Asked
  <2>5. Covers(client', token)
    <3>1. CASE token = 0
      BY <3>1 DEF Covers
    <3>2. CASE token > 0
      <4>1. Have(client', token)
        BY <1>12, <1>14, <2>1, <2>3, <2>4, <3>2 DEF Have, token
      <4> QED BY <1>15, <4>1 DEF Covers
    <3> QED BY <1>6, <3>1, <3>2
  <2>6. token <= server'.version /\ 0 <= token
    BY <1>1, <1>6, <1>13, DocTypes, ServerTypes
  <2> QED BY <1>9, <1>13, <1>15, <2>2, <2>3, <2>5, <2>6 DEF Resume
<1> QED BY <1>13, <1>16, <1>17, <1>18, <1>19, <1>20 DEF ListenInv

\* The server says something of a target it feeds.
LEMMA PushListens ==
  ASSUME ConnInv(client, server), ListenInv(client, server), NEW kind, NEW feed,
         Push(kind, feed), kind \in {"refused", "doc", "current", "reset", "snapshot"},
         feed \in [on : BOOLEAN, current : BOOLEAN, sent : Nat, snap : Nat],
         feed.snap <= feed.sent, feed.sent <= server.version,
         feed.current => feed.sent > 0,
         kind = "refused" => ~feed.on,
         kind = "doc" => feed.sent = server.version,
         kind = "reset" => feed.sent = 0,
         kind \in {"current", "snapshot"} => feed.sent > 0 /\ feed.sent = server.feed.sent
  PROVE  /\ ListenInv(client', server') /\ client.shown <= client'.shown
         /\ server'.note = server.note
<1> DEFINE msg == [kind |-> kind, version |-> feed.sent, note |-> server.note]
           task == Task("message", "listen", client.chan["listen"].gen, msg)
           n == Len(client.queue) + 1
<1>1. /\ ClientInv(client) /\ server \in Server /\ client \in Client
      /\ StreamInv(client, "listen") /\ "listen" \in Streams /\ FeedInv(client, server)
      /\ Asked(client, server) /\ Looking(client) /\ Chain(client, server)
      /\ Counted(client, server) /\ Cached(client) /\ Resume(client, server)
      /\ server.feed.on
  BY BothStreams DEF ConnInv, ListenInv, Streams, Push
<1>2. /\ IsOpen(client, "listen") /\ client.chan["listen"].gen # 0
      /\ client' = ChannelMessage(client, "listen", msg)
      /\ server' = [server EXCEPT !.feed = feed]
  BY <1>1 DEF Push, FeedInv
<1>3. /\ msg \in WatchMsg /\ task.on = "listen" /\ task.kind = "message" /\ task.arg = msg
      /\ msg.kind = kind /\ msg.version = feed.sent /\ msg.note = server.note
      /\ task.gen = client.chan["listen"].gen
  BY <1>1 DEF WatchMsg, Server, Task
<1>4. client'.listens = client.listens
  BY <1>1, <1>2 DEF ChannelMessage, Dispatch, EnqueueTask, Client
<1> HIDE DEF msg, task, n
<1>5. ClientInv(client') /\ Called(client, client', task) /\ client'.chan = client.chan
  BY <1>1, <1>2, <1>3, MessageIs DEF task
<1>6. /\ client' \in Client /\ client'.doc = client.doc
      /\ client'.target = client.target /\ client'.view = client.view
  BY <1>5 DEF ClientInv, Called
<1>7. /\ server' \in Server /\ server'.version = server.version
      /\ server'.note = server.note /\ server'.listening = server.listening
      /\ server'.feed = feed
  BY <1>1, <1>2 DEF Server
<1>8. /\ Kept(client, client') /\ client'.agg = client.agg
      /\ client'.stream = client.stream
      /\ \A v : Have(client', v) <=> Have(client, v)
      /\ Results(client') \subseteq Results(client)
      /\ \A i \in Results(client') : client'.queue[i] = client.queue[i]
  BY <1>1, <1>3, <1>4, <1>5, SaysKept
<1>9. task.gen = client.stream["listen"].closes + 1
  BY <1>1, <1>2, <1>3 DEF StreamInv
<1>10. /\ n \in Nat /\ News(client') = News(client) \cup {n} /\ client'.queue[n] = task
       /\ \A i \in News(client) : i < n /\ client'.queue[i] = client.queue[i]
       /\ \A k : Said(client', k) = IF kind = k THEN Said(client, k) \cup {n}
                                    ELSE Said(client, k)
  <2>1. ~client.failed
    BY <1>1 DEF Looking
  <2> QED BY <1>1, <1>3, <1>5, <1>9, <2>1, SaysMore DEF n
<1>11. /\ News(client) \subseteq Nat /\ \A k : Said(client, k) \subseteq News(client)
       /\ \A i \in News(client) :
            client.queue[i].arg.version \in Nat /\ client.queue[i].arg.note \in Nat
  BY <1>1, NewsAre
<1>12. /\ client.agg.on /\ client.chan["listen"].out = <<>>
       /\ Said(client, "refused") = {} /\ client.target.on
       /\ client.agg.pending = 1 => News(client) # {}
  BY <1>1 DEF Asked
<1>13. Asked(client', server')
  <2>1. ASSUME NEW i \in News(client')
        PROVE  i \in Said(client', "added")
                 <=> client'.agg.pending = 1 /\ \A j \in News(client') : i <= j
    <3>1. CASE i \in News(client)
      <4>1. i \in Said(client', "added") <=> i \in Said(client, "added")
        BY <1>10, <3>1
      <4>2. (\A j \in News(client') : i <= j) <=> \A j \in News(client) : i <= j
        BY <1>10, <1>11, <3>1
      <4> QED BY <1>1, <1>8, <3>1, <4>1, <4>2 DEF Asked
    <3>2. CASE i = n
      <4>1. n \notin Said(client', "added")
        BY <1>10, <1>11
      <4>2. client.agg.pending = 1 => \E j \in News(client') : ~(n <= j)
        BY <1>10, <1>11, <1>12
      <4> QED BY <1>8, <3>2, <4>1, <4>2
    <3> QED BY <1>10, <3>1, <3>2
  <2>2. \A i \in Said(client', "added") : client'.queue[i].arg.version = 0
    BY <1>1, <1>10, <1>11 DEF Asked
  <2>3. \A i \in Said(client', "refused") : \A j \in News(client') : j <= i
    BY <1>10, <1>11, <1>12
  <2>4. feed.on => Said(client', "refused") = {}
    BY <1>10, <1>12
  <2>5. IsOpen(client', "listen") /\ News(client') # {}
    BY <1>2, <1>8, <1>10 DEF IsOpen
  <2>6. client'.agg.pending = 0 \/ client'.agg = Pending
    BY <1>1, <1>8 DEF Asked
  <2>7. client'.chan["listen"].out = <<>> /\ client'.agg.on /\ client'.target.on
    BY <1>5, <1>6, <1>8, <1>12
  <2> HIDE DEF Pending
  <2> QED BY <1>7, <2>1, <2>2, <2>3, <2>4, <2>5, <2>6, <2>7 DEF Asked
<1>14. Looking(client') /\ Cached(client') /\ client.shown <= client'.shown
  BY <1>1, <1>8, KeptLooks
<1>15. Chain(client', server')
  <2>1. \A x : Pair(x, server') <=> Pair(x, server)
    BY <1>7 DEF Pair
  <2>2. kind = "doc" => \A x : Pair(x, msg) <=> Pair(x, server)
    BY <1>3 DEF Pair
  <2>3. kind = "doc" => Pair(msg, server)
    BY <1>1, <1>3, ServerTypes DEF Pair
  <2>4. \A i \in Said(client', "doc") :
          \/ i \in Said(client, "doc") /\ i < n /\ client'.queue[i] = client.queue[i]
          \/ i = n /\ kind = "doc" /\ client'.queue[i].arg = msg
    BY <1>3, <1>10, <1>11
  <2>5. ASSUME NEW i \in Said(client', "doc")
        PROVE  /\ Pair(client'.doc, client'.queue[i].arg)
               /\ Pair(client'.queue[i].arg, server')
               /\ IsValid(client'.agg.doc) => Pair(client'.agg.doc, client'.queue[i].arg)
    BY <1>1, <1>6, <1>8, <2>1, <2>2, <2>3, <2>4 DEF Chain
  <2>6. ASSUME NEW i \in Said(client', "doc"), NEW j \in Said(client', "doc"), i < j
        PROVE  Pair(client'.queue[i].arg, client'.queue[j].arg)
    <3>1. CASE j = n /\ kind = "doc" /\ client'.queue[j].arg = msg
      BY <2>1, <2>2, <2>5, <3>1
    <3>2. CASE j \in Said(client, "doc") /\ j < n /\ client'.queue[j] = client.queue[j]
      <4>1. i \in Said(client, "doc") /\ client'.queue[i] = client.queue[i]
        BY <1>10, <1>11, <2>4, <2>6, <3>2
      <4> QED BY <1>1, <2>6, <3>2, <4>1 DEF Chain
    <3> QED BY <2>4, <3>1, <3>2
  <2> QED BY <1>1, <1>6, <1>8, <2>1, <2>5, <2>6 DEF Chain
<1>16. Counted(client', server')
  BY <1>1, <1>7, <1>8 DEF Counted
<1>17. Resume(client', server')
  <2>1. Gathered(client')
    BY <1>1, <1>6, <1>8 DEF Gathered, Resume
  <2>2. /\ client'.target.token <= client'.doc.version
        /\ client'.target.token > 0 =>
             ~client'.doc.committed /\ (client'.target.on => client'.view.synced)
        /\ client'.view.current => client'.view.synced
    BY <1>1, <1>6 DEF Resume
  <2>3. Covers(client, server.feed.sent)
    BY <1>1 DEF Resume
  <2>4. \A r \in Said(client', "reset") :
          r \in Said(client, "reset") \/ (r = n /\ kind = "reset")
    BY <1>10
  <2>5. \A j \in Said(client, "doc") :
          j \in Said(client', "doc") /\ j < n /\ client'.queue[j] = client.queue[j]
    BY <1>10, <1>11
  <2>6. ASSUME NEW i \in News(client), NEW v, Cov(client, i, v) PROVE Cov(client', i, v)
    <3>1. i < n /\ i \in Nat
      BY <1>10, <1>11
    <3>2. CASE v = 0
      BY <3>2 DEF Cov
    <3>3. ASSUME NEW j \in Said(client, "doc"), j < i, v <= client.queue[j].arg.version,
                 \A r \in Said(client, "reset") : r < j \/ i < r
          PROVE  Cov(client', i, v)
      <4>1. \A r \in Said(client', "reset") : r < j \/ i < r
        BY <2>4, <3>1, <3>3
      <4> QED BY <2>5, <3>3, <4>1 DEF Cov
    <3>4. CASE (\A r \in Said(client, "reset") : i < r) /\ Have(client, v)
      BY <1>8, <2>4, <3>1, <3>4 DEF Cov
    <3> QED BY <2>6, <3>2, <3>3, <3>4 DEF Cov
  <2>7. ASSUME kind \in {"current", "snapshot"}
        PROVE  /\ feed.sent > 0 /\ Covers(client', feed.sent)
               /\ Cov(client', n, feed.sent)
    <3> DEFINE v == feed.sent
    <3>1. v = server.feed.sent /\ Said(client', "reset") = Said(client, "reset")
      BY <1>10, <2>7
    <3>2. Covers(client', v) /\ Cov(client', n, v)
      <4>1. CASE v = 0
        BY <4>1 DEF Covers, Cov
      <4>2. ASSUME NEW j \in Said(client, "doc"), v <= client.queue[j].arg.version,
                   \A r \in Said(client, "reset") : r < j
            PROVE  Covers(client', v) /\ Cov(client', n, v)
        BY <2>5, <3>1, <4>2 DEF Covers, Cov
      <4>3. CASE Said(client, "reset") = {} /\ Have(client, v)
        BY <1>8, <3>1, <4>3 DEF Covers, Cov
      <4> QED BY <2>3, <3>1, <4>1, <4>2, <4>3 DEF Covers
    <3> QED BY <2>7, <3>2
  <2>8. feed.on => Covers(client', feed.sent)
    <3>1. CASE kind = "reset" \/ kind = "refused"
      BY <3>1 DEF Covers
    <3>2. CASE kind = "doc"
      <4>1. n \in Said(client', "doc") /\ client'.queue[n].arg = msg
        BY <1>3, <1>10, <3>2
      <4>2. feed.sent <= client'.queue[n].arg.version
        BY <1>3, <4>1
      <4>3. \A r \in Said(client', "reset") : r < n
        BY <1>10, <1>11, <3>2
      <4> QED BY <4>1, <4>2, <4>3 DEF Covers
    <3> QED BY <2>7, <3>1, <3>2
  <2>9. ASSUME NEW i \in Said(client', "current") \cup Said(client', "snapshot")
        PROVE  /\ client'.queue[i].arg.version > 0
               /\ Cov(client', i, client'.queue[i].arg.version)
    <3>1. CASE i \in Said(client, "current") \cup Said(client, "snapshot")
      <4>1. i \in News(client) /\ client'.queue[i] = client.queue[i]
        BY <1>10, <1>11, <3>1
      <4> QED BY <1>1, <2>6, <3>1, <4>1 DEF Resume
    <3>2. CASE i = n /\ kind \in {"current", "snapshot"}
      <4>1. client'.queue[i].arg.version = feed.sent
        BY <1>3, <1>10, <3>2
      <4> QED BY <2>7, <3>2, <4>1
    <3> QED BY <1>10, <3>1, <3>2
  <2> QED BY <1>7, <2>1, <2>2, <2>8, <2>9 DEF Resume
<1> QED BY <1>7, <1>13, <1>14, <1>15, <1>16, <1>17 DEF ListenInv

\* The server's feed: a state of the document, that the target is current,
\* a snapshot, a refusal, or that it starts over.
LEMMA PushesListen ==
  ASSUME ConnInv(client, server), ListenInv(client, server),
         \/ ServerPushesDoc \/ ServerPushesCurrent \/ ServerPushesSnapshot
         \/ ServerRefusesTarget \/ ServerResets
  PROVE  /\ ListenInv(client', server') /\ client.shown <= client'.shown
         /\ server'.note = server.note
<1> DEFINE Feed == [on : BOOLEAN, current : BOOLEAN, sent : Nat, snap : Nat]
           feed == server.feed
<1>1. /\ server \in Server /\ feed \in Feed /\ server.version \in Nat /\ server.note \in Nat
      /\ feed.sent \in Nat /\ feed.snap \in Nat
      /\ Asked(client, server) /\ Looking(client) /\ Counted(client, server)
      /\ StoredInv(client, server) /\ feed.snap <= feed.sent /\ feed.sent <= server.version
      /\ feed.current => feed.sent > 0
  BY DEF ConnInv, ListenInv, Server, Resume
<1>2. feed.on => server.version > 0
  <2>1. feed.on => server.listening
    BY <1>1 DEF Asked, Looking, StoredInv
  <2> QED BY <1>1, <2>1 DEF Counted
<1>3. CASE ServerPushesDoc
  <2> DEFINE f == [feed EXCEPT !.sent = server.version]
  <2>1. f \in Feed /\ f.sent = server.version /\ f.snap = feed.snap
        /\ f.current = feed.current
    BY <1>1
  <2>2. Push("doc", f) /\ feed.sent < server.version
    BY <1>3 DEF ServerPushesDoc
  <2> HIDE DEF f
  <2>3. f.snap <= f.sent /\ f.sent <= server.version /\ (f.current => f.sent > 0)
    BY <1>1, <2>1, <2>2
  <2> QED BY <2>1, <2>2, <2>3, PushListens
<1>4. CASE ServerPushesCurrent
  <2> DEFINE f == [feed EXCEPT !.current = TRUE]
  <2>1. f \in Feed /\ f.sent = feed.sent /\ f.snap = feed.snap
    BY <1>1
  <2>2. Push("current", f) /\ feed.sent = server.version
    BY <1>4 DEF ServerPushesCurrent
  <2>3. feed.on
    BY <2>2 DEF Push
  <2> HIDE DEF f
  <2>4. f.snap <= f.sent /\ f.sent <= server.version /\ f.sent > 0
    BY <1>1, <1>2, <2>1, <2>2, <2>3
  <2> QED BY <2>1, <2>2, <2>4, PushListens
<1>5. CASE ServerPushesSnapshot
  <2> DEFINE f == [feed EXCEPT !.snap = server.feed.sent]
  <2>1. f \in Feed /\ f.sent = feed.sent /\ f.snap = feed.sent /\ f.current = feed.current
    BY <1>1
  <2>2. Push("snapshot", f) /\ feed.current
    BY <1>5 DEF ServerPushesSnapshot
  <2> HIDE DEF f
  <2>3. f.snap <= f.sent /\ f.sent <= server.version /\ f.sent > 0
    BY <1>1, <2>1, <2>2
  <2> QED BY <2>1, <2>2, <2>3, PushListens
<1>6. CASE ServerRefusesTarget
  <2>1. /\ NoFeed \in Feed /\ ~NoFeed.on /\ ~NoFeed.current
        /\ NoFeed.sent = 0 /\ NoFeed.snap = 0
    BY DEF NoFeed
  <2>2. Push("refused", NoFeed)
    BY <1>6 DEF ServerRefusesTarget
  <2> HIDE DEF NoFeed
  <2>3. NoFeed.snap <= NoFeed.sent /\ NoFeed.sent <= server.version
    BY <1>1, <2>1
  <2> QED BY <2>1, <2>2, <2>3, PushListens
<1>7. CASE ServerResets
  <2> DEFINE f == [NoFeed EXCEPT !.on = TRUE]
  <2>1. f \in Feed /\ ~f.current /\ f.sent = 0 /\ f.snap = 0
    BY DEF NoFeed
  <2>2. Push("reset", f)
    BY <1>7 DEF ServerResets
  <2> HIDE DEF f
  <2>3. f.snap <= f.sent /\ f.sent <= server.version
    BY <1>1, <2>1
  <2> QED BY <2>1, <2>2, <2>3, PushListens
<1> QED BY <1>3, <1>4, <1>5, <1>6, <1>7

\* The server's own writes: the client has nothing of them yet.
LEMMA NotesListen ==
  ASSUME ConnInv(client, server), ListenInv(client, server), StrayArrives \/ ServerNotes
  PROVE  /\ ListenInv(client', server') /\ client' = client
         /\ StrayArrives => server'.note = server.note
         /\ ServerNotes => server'.note = server.note + 1
<1>1. /\ client \in Client /\ server \in Server /\ Asked(client, server)
      /\ Counted(client, server) /\ Looking(client)
  BY DEF ConnInv, ClientInv, ListenInv
<1>2. client' = client /\ Later(server, server')
      /\ (StrayArrives => server'.note = server.note)
      /\ (ServerNotes => server'.note = server.note + 1)
  BY WritesLater, ZenonT(30) DEF StrayArrives, ServerNotes
<1>3. Carried(client, client, 0)
  BY <1>1, CarriedSame
<1>4. Kept(client, client)
  BY <1>1 DEF Kept, Looking
<1>5. \A i \in Results(client) : client.queue[i].arg.version \in 1..server'.version
  <2>1. server.version \in Nat /\ server'.version \in Nat
        /\ server.version <= server'.version
    BY <1>1, <1>2, ServerTypes DEF Later, Pair
  <2>2. \A v \in 1..server.version : v \in 1..server'.version
    BY <2>1
  <2> QED BY <1>1, <2>2 DEF Counted
<1>6. client.agg.on => IsOpen(client, "listen")
  BY <1>1 DEF Asked
<1>7. ListenInv(client, server')
  BY <1>1, <1>2, <1>3, <1>4, <1>5, <1>6, Steadily
<1> QED BY <1>2, <1>7

\* Nobody has said or cached anything yet.
LEMMA InitListens ==
  ASSUME Init
  PROVE  ListenInv(client, server) /\ client.shown = 0 /\ server.note \in Nat
<1> DEFINE task == Task("setDoc", "page", 0, "none")
           c == InitClient
<1>1. client = c
  BY DEF Init
<1>2. PICK n \in {0, 1} \cap 0..MaxNotes :
        server = [version |-> n, note |-> n, listening |-> FALSE, stray |-> FALSE,
                  feed |-> NoFeed]
  BY DEF Init
<1>3. task.kind = "setDoc" /\ task.on = "page"
  BY DEF Task
<1> HIDE DEF task
<1>4. Len(<<task>>) = 1 /\ <<task>>[1] = task
  OBVIOUS
<1>5. /\ c.queue = <<task>> /\ c.failed = FALSE /\ c.agg = NoAgg /\ c.doc = InvalidDoc
      /\ c.view = NoView /\ c.listener = NewListener /\ c.listens = FALSE /\ c.shown = 0
      /\ c.wrote = "pending" /\ c.chan["listen"] = NoChannel
      /\ c.target = NewRemote.target
  BY DEF InitClient, task, Streams
<1>6. /\ NewRemote.target.on = FALSE /\ NewRemote.target.token = 0
      /\ NoView.on = FALSE /\ NoView.doc = InvalidDoc /\ NoView.synced = FALSE
      /\ NoView.current = FALSE /\ NewListener.on = FALSE
  BY DEF NewRemote, NoView, NewListener
<1>7. InvalidDoc.version = 0 /\ InvalidDoc.note = 0
  BY DEF InvalidDoc, Doc
<1> HIDE DEF c
<1>8. /\ News(c) = {} /\ Results(c) = {} /\ OnSnapshots(c) = {}
  BY <1>3, <1>4, <1>5 DEF News, Live, Results, OnSnapshots
<1>9. \A k : Said(c, k) = {}
  BY <1>8 DEF Said
<1>10. /\ server.version = n /\ server.note = n /\ ~server.listening /\ server.feed = NoFeed
       /\ n \in Nat /\ n <= MaxNotes
  BY <1>2, ClientAssumption
<1>11. /\ ~NoFeed.on /\ ~NoFeed.current /\ NoFeed.sent = 0 /\ NoFeed.snap = 0
  BY DEF NoFeed
<1>12. Asked(c, server)
  BY <1>5, <1>8, <1>9, <1>10, <1>11, NoAggIs, ChannelTypes DEF Asked
<1>13. Looking(c)
  BY <1>5, <1>6, <1>8 DEF Looking
<1>14. Chain(c, server)
  BY <1>5, <1>7, <1>9, <1>10, NoAggIs DEF Chain, Pair
<1>15. Counted(c, server)
  BY <1>8, <1>10 DEF Counted
<1>16. Cached(c)
  BY <1>5, <1>6, <1>7 DEF Cached
<1>17. Resume(c, server)
  <2>1. Gathered(c)
    BY <1>5, NoAggIs DEF Gathered
  <2> QED BY <1>5, <1>6, <1>7, <1>9, <1>10, <1>11, <2>1 DEF Resume
<1> QED BY <1>1, <1>5, <1>10, <1>12, <1>13, <1>14, <1>15, <1>16, <1>17 DEF ListenInv

\* Any step but the server's own notes: what is shown is no older, the note
\* is as it was.
LEMMA NextListens ==
  ASSUME ConnInv(client, server), ListenInv(client, server), ConnInv(client', server'),
         [Next]_vars
  PROVE  /\ ListenInv(client', server') /\ client.shown <= client'.shown
         /\ \/ server'.note = server.note
            \/ server'.note = server.note + 1 /\ client'.shown = client.shown
<1>1. CASE UNCHANGED vars
  <2>1. client.shown \in Nat
    BY DEF ConnInv, ClientInv, Client
  <2> QED BY <1>1, <2>1 DEF vars
<1>2. CASE RunTask
  BY <1>2, RunTaskListens
<1>3. CASE PageListens \/ (\E t \in Timers : TimerElapses(t)) \/ Channels
  BY <1>3, CallsListen DEF Channels
<1>4. CASE ServerStep
  BY <1>4, AnswersListen, TargetListens, PushesListen DEF ServerStep
<1>5. CASE StrayArrives \/ ServerNotes
  <2>1. client.shown \in Nat
    BY DEF ConnInv, ClientInv, Client
  <2> QED BY <1>5, <2>1, NotesListen
<1>6. CASE Faults
  BY <1>6, CallsListen, BreaksListen, PushesListen DEF Faults
<1> QED BY <1>1, <1>2, <1>3, <1>4, <1>5, <1>6 DEF Next

-----------------------------------------------------------------------------
(* The theorems.                                                           *)

\* Whatever breaks, what the watch stream says is in order, everything up to
\* the tokens is in the cache or on its way, and the page sees the cache.
THEOREM ListenInvariant == Spec => []ListenInv(client, server)
<1>1. Init => ListenInv(client, server)
  BY InitListens
<1>2. /\ ConnInv(client, server) /\ ConnInv(client, server)' /\ ListenInv(client, server)
      /\ [Next]_vars
      => ListenInv(client, server)'
  BY NextListens
<1> QED BY <1>1, <1>2, ConnectionInvariant, PTL DEF Spec

\* The client's queue never fails: every acknowledgement has its request.
THEOREM NoInternalErrorAlways == Spec => []NoInternalError
<1>1. ListenInv(client, server) => NoInternalError
  BY DEF ListenInv, Looking, NoInternalError
<1> QED BY <1>1, ListenInvariant, PTL

\* The cache holds everything up to the target's resume token.
THEOREM TokenCoveredAlways == Spec => []TokenCovered
<1>1. ListenInv(client, server) => TokenCovered
  BY DEF ListenInv, Resume, TokenCovered
<1> QED BY <1>1, ListenInvariant, PTL

\* Between two tasks the view shows the cached document.
THEOREM ViewIsCacheAlways == Spec => []ViewIsCache
<1>1. ListenInv(client, server) => ViewIsCache
  BY DEF ListenInv, Cached, ViewIsCache
<1> QED BY <1>1, ListenInvariant, PTL

\* No view in step with the server has a document the server did not list.
THEOREM NoLimboAlways == Spec => []NoLimbo
<1>1. ListenInv(client, server) => NoLimbo
  BY DEF ListenInv, Resume, NoLimbo
<1> QED BY <1>1, ListenInvariant, PTL

\* The types of the client, its counters bounded by the server's.
THEOREM TypeCorrect == Spec => []TypeOK
<1>1. ConnInv(client, server) /\ ListenInv(client, server) => TypeOK
  <2> SUFFICES ASSUME ConnInv(client, server), ListenInv(client, server) PROVE TypeOK
    OBVIOUS
  <2>1. /\ client \in Client /\ ~client.blocked /\ server \in Server
        /\ Chain(client, server) /\ Counted(client, server) /\ Cached(client)
        /\ Resume(client, server) /\ MaxNotes \in Nat
    BY ClientAssumption DEF ConnInv, ClientInv, ListenInv
  <2>2. \A s \in Streams : StreamInv(client, s)
    BY BothStreams DEF ConnInv
  <2>3. /\ client.timers \in [Timers -> TimerState]
        /\ \A s \in Streams : /\ client.stream[s] \in StreamSet
                              /\ client.chan[s] \in ChannelSet
        /\ client.agg \in AggSet /\ client.blocked \in BOOLEAN
        /\ client.target \in [on : BOOLEAN, token : Nat] /\ client.shown \in Nat
        /\ client.online \in {"Unknown", "Online", "Offline"}
        /\ client.wrote \in {"pending", "resolved", "rejected"}
    BY <2>1 DEF Client, OnlineState
  <2>4. ASSUME NEW s \in Streams
        PROVE  /\ client.stream[s].state \in StreamState
               /\ client.stream[s].seen \in BOOLEAN
               /\ client.chan[s].gen \in 0..(client.stream[s].closes + 1)
    <3>1. client.chan[s].gen \in {0, client.stream[s].closes + 1}
      BY <2>2 DEF StreamInv
    <3>2. /\ client.stream[s].closes \in Nat /\ client.stream[s].state \in StreamState
          /\ client.stream[s].seen \in BOOLEAN
      BY <2>3 DEF StreamSet
    <3> QED BY <3>1, <3>2
  <2>5. /\ client.doc.version \in Nat /\ client.doc.note \in Nat
        /\ client.target.token \in Nat /\ server.version \in Nat /\ server.note \in Nat
        /\ server.feed.sent \in Nat /\ server.feed.snap \in Nat
    BY <2>1, DocTypes, ServerTypes
  <2>6. server.version <= MaxNotes + 1 /\ server.note <= MaxNotes
    BY <2>1, <2>5 DEF Counted
  <2>7. /\ client.target.token \in Version /\ client.shown \in 0..MaxNotes
        /\ server.version \in Version /\ server.note \in 0..MaxNotes
        /\ server.feed.sent \in Version /\ server.feed.snap \in Version
    <3>1. /\ client.target.token <= client.doc.version
          /\ client.doc.version <= server.version /\ client.doc.note <= server.note
          /\ client.shown <= client.doc.note
          /\ server.feed.snap <= server.feed.sent /\ server.feed.sent <= server.version
      BY <2>1 DEF Chain, Pair, Cached, Resume
    <3> QED BY <2>1, <2>3, <2>5, <2>6, <3>1 DEF Version
  <2>8. client.target \in [on : BOOLEAN, token : Version]
    BY <2>3, <2>7
  <2>9. server.feed \in [on : BOOLEAN, current : BOOLEAN, sent : Version, snap : Version]
    BY <2>1, <2>7 DEF Server
  <2>10. client.agg.change \in {"none", "added", "modified", "removed"}
    BY <2>3 DEF AggSet, TargetChange
  <2>11. client.blocked = FALSE
    BY <2>1, <2>3
  <2> QED BY <2>3, <2>4, <2>7, <2>8, <2>9, <2>10, <2>11 DEF TypeOK
<1> QED BY <1>1, ListenInvariant, ConnectionInvariant, PTL

\* The page is shown states the document has been in, never an older one
\* after a newer one: the client implements the document's listener.
THEOREM ClientImplementsListener == Spec => Contract
<1>1. Init => Listener!Init
  BY InitListens DEF Listener!Init
<1>2. /\ ConnInv(client, server) /\ ConnInv(client, server)'
      /\ ListenInv(client, server) /\ ListenInv(client, server)' /\ [Next]_vars
      => [Listener!Next]_<<server.note, client.shown>>
  <2> SUFFICES ASSUME ConnInv(client, server), ConnInv(client', server'),
                      ListenInv(client, server), ListenInv(client', server'), [Next]_vars
               PROVE  Listener!Write \/ Listener!Show
    BY DEF Listener!Next
  <2>1. /\ client.shown <= client'.shown
        /\ \/ server'.note = server.note
           \/ server'.note = server.note + 1 /\ client'.shown = client.shown
    BY NextListens
  <2>2. /\ client'.shown \in Nat /\ client.shown \in Nat /\ server'.note \in Nat
        /\ client'.doc.note \in Nat
    BY DocTypes, ServerTypes DEF ConnInv, ClientInv
  <2>3. client'.shown <= client'.doc.note /\ client'.doc.note <= server'.note
    BY DEF ListenInv, Cached, Chain, Pair
  <2>4. CASE server'.note = server.note
    <3>1. client'.shown \in client.shown..server.note
      BY <2>1, <2>2, <2>3, <2>4
    <3> QED BY <2>4, <3>1 DEF Listener!Show
  <2>5. CASE server'.note = server.note + 1 /\ client'.shown = client.shown
    BY <2>5 DEF Listener!Write
  <2> QED BY <2>1, <2>4, <2>5
<1> QED BY <1>1, <1>2, ListenInvariant, ConnectionInvariant, PTL
        DEF Spec, Contract, Listener!Spec
=============================================================================
