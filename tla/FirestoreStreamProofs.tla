----------------------- MODULE FirestoreStreamProofs -----------------------
(***************************************************************************)
(* Proofs about the Firestore client: the types of its record, what each   *)
(* operator changes and leaves alone, and the discipline of its streams:   *)
(* which callbacks may still be under way in which state.                  *)
(***************************************************************************)
EXTENDS FirestoreClient, SequenceTheorems, TLAPS

-----------------------------------------------------------------------------
(* Types.                                                                  *)

WatchMsg == [kind : {"added", "refused", "doc", "current", "reset", "snapshot"},
             version : Nat, note : Nat]
WriteMsg == [kind : {"token", "result"}, version : Nat, note : Nat]
Request  == [kind : {"add", "hello", "write"}, version : Nat]

StreamTask ==
  [kind : {"open", "connected", "close"}, on : Streams, gen : Nat,
   arg : {"none", "transient", "permanent"}]
  \cup [kind : {"message"}, on : {"listen"}, gen : Nat, arg : WatchMsg]
  \cup [kind : {"message"}, on : {"write"}, gen : Nat, arg : WriteMsg]

TimerTask == [kind : {"timer"}, on : Timers, gen : {0}, arg : {"none"}]

PageTask == [kind : {"setDoc", "onSnapshot", "network", "cancelled"},
             on : {"page"}, gen : {0}, arg : {"none"}]

TaskSet == StreamTask \cup TimerTask \cup PageTask

DocSet == [kind : {"found", "no", "invalid"}, version : Nat, note : Nat,
           committed : BOOLEAN]

ViewSet == [on : BOOLEAN, doc : DocSet, synced : BOOLEAN, current : BOOLEAN,
            fromCache : BOOLEAN]

ListenerSet == [on : BOOLEAN, got : BOOLEAN, raised : BOOLEAN]

TargetChange == {"none", "added", "modified", "removed"}

AggSet == [on : BOOLEAN, pending : Nat, current : BOOLEAN, token : Nat,
           dirty : BOOLEAN, change : TargetChange, doc : DocSet]

ChangeSet == [docs : TargetChange, state : {"current", "not current", "as it was"}]

OnlineState == {"Unknown", "Online", "Offline"}

\* The page writes one batch.
Few == {<<>>, <<1>>}

StreamSet  == [state : StreamState, closes : Nat, seen : BOOLEAN]
ChannelSet == [gen : Nat, linked : BOOLEAN, out : Seq(Request)]

Client ==
  [queue    : Seq(TaskSet), failed : BOOLEAN,
   timers   : [Timers -> TimerState],
   stream   : [Streams -> StreamSet], chan : [Streams -> ChannelSet],
   online   : OnlineState, failures : {0, 1},
   agg      : AggSet,
   batches  : Few, wrote : {"pending", "resolved", "rejected"},
   doc      : DocSet, lastSnapshot : Nat,
   view     : ViewSet, listener : ListenerSet,
   listens  : BOOLEAN, shown : Nat,
   pipeline : Few, target : [on : BOOLEAN, token : Nat],
   blocked  : BOOLEAN]

-----------------------------------------------------------------------------
(* The queue during a task: tasks are not added, and of those there only   *)
(* timers are cancelled; one that failed is emptied.                       *)

Quieter(q, r) ==
  /\ Len(r) \in {0, Len(q)}
  /\ \A i \in 1..Len(r) :
       r[i] = q[i] \/ (q[i].kind = "timer" /\ r[i].kind = "cancelled")

\* A queue is as quiet as itself.
LEMMA QuieterSame ==
  ASSUME NEW q \in Seq(TaskSet)
  PROVE  Quieter(q, q)
BY DEF Quieter

\* What two steps of a task do to the queue, the task does.
LEMMA QuieterTrans ==
  ASSUME NEW q \in Seq(TaskSet), NEW r \in Seq(TaskSet), NEW s \in Seq(TaskSet),
         Quieter(q, r), Quieter(r, s)
  PROVE  Quieter(q, s)
<1>1. Len(q) \in Nat /\ Len(r) \in Nat /\ Len(s) \in Nat
  OBVIOUS
<1>2. Len(s) \in {0, Len(q)}
  BY DEF Quieter
<1>3. ASSUME NEW i \in 1..Len(s)
      PROVE  s[i] = q[i] \/ (q[i].kind = "timer" /\ s[i].kind = "cancelled")
  <2>1. i \in 1..Len(r) /\ i \in 1..Len(q)
    BY <1>1 DEF Quieter
  <2> QED BY <2>1 DEF Quieter
<1> QED BY <1>2, <1>3 DEF Quieter

\* The empty queue is one.
LEMMA EmptyQueue == <<>> \in Seq(TaskSet) /\ Len(<<>>) = 0
OBVIOUS

\* Cancelling a timer's task leaves the other tasks alone.
LEMMA CancelledIs ==
  ASSUME NEW q \in Seq(TaskSet), NEW t \in Timers
  PROVE  /\ Cancelled(q, t) \in Seq(TaskSet)
         /\ Quieter(q, Cancelled(q, t)) /\ Len(Cancelled(q, t)) = Len(q)
         /\ \A i \in 1..Len(Cancelled(q, t)) :
              ~(Cancelled(q, t)[i].kind = "timer" /\ Cancelled(q, t)[i].on = t)
<1> DEFINE r == Cancelled(q, t)
<1>1. Task("cancelled", "page", 0, "none") \in TaskSet
  BY DEF Task, TaskSet, PageTask
<1>2. Len(q) \in Nat /\ DOMAIN q = 1..Len(q)
  OBVIOUS
<1>3. r \in [1..Len(q) -> TaskSet]
  BY <1>1, <1>2 DEF Cancelled
<1>4. r \in Seq(TaskSet) /\ Len(r) = Len(q)
  BY <1>2, <1>3
<1> QED BY <1>2, <1>3, <1>4 DEF Cancelled, Quieter, Task

-----------------------------------------------------------------------------
(* Frames: what an operator leaves alone.                                  *)

\* The write side's fields.
WriteFields(c, d) ==
  /\ d.stream["write"] = c.stream["write"] /\ d.chan["write"] = c.chan["write"]
  /\ d.timers["write"] = c.timers["write"] /\ d.timers["idle"] = c.timers["idle"]
  /\ d.batches = c.batches /\ d.pipeline = c.pipeline /\ d.wrote = c.wrote

\* The listen side's fields; the cached document belongs to both sides.
ListenFields(c, d) ==
  /\ d.stream["listen"] = c.stream["listen"] /\ d.chan["listen"] = c.chan["listen"]
  /\ d.timers["listen"] = c.timers["listen"]
  /\ d.timers["online"] = c.timers["online"]
  /\ d.online = c.online /\ d.failures = c.failures /\ d.agg = c.agg
  /\ d.lastSnapshot = c.lastSnapshot /\ d.view = c.view
  /\ d.listener = c.listener /\ d.listens = c.listens /\ d.shown = c.shown
  /\ d.target = c.target

\* A step of the listen side of a task, and one of the write side.
ListenStep(c, d) ==
  /\ d \in Client /\ Quieter(c.queue, d.queue) /\ WriteFields(c, d)
  /\ c.failed => d.failed
  /\ d.failed \/ Len(d.queue) = Len(c.queue)
  /\ d.blocked = c.blocked /\ d.listens = c.listens

WriteStep(c, d) ==
  /\ d \in Client /\ Quieter(c.queue, d.queue) /\ ListenFields(c, d)
  /\ Len(d.queue) = Len(c.queue)
  /\ d.blocked = c.blocked

\* A change of the view and of what the page is shown, and of nothing else.
ViewStep(c, d) ==
  /\ d \in Client
  /\ d.queue = c.queue /\ d.failed = c.failed /\ d.timers = c.timers
  /\ d.stream = c.stream /\ d.chan = c.chan
  /\ d.online = c.online /\ d.failures = c.failures /\ d.agg = c.agg
  /\ d.batches = c.batches /\ d.wrote = c.wrote /\ d.doc = c.doc
  /\ d.lastSnapshot = c.lastSnapshot /\ d.listens = c.listens
  /\ d.pipeline = c.pipeline /\ d.target = c.target /\ d.blocked = c.blocked

\* A change of what the page is shown: it is the view's document.
ShownStep(c, d) ==
  /\ ViewStep(c, d)
  /\ d.view = c.view /\ d.listener.on = c.listener.on
  /\ d.shown = c.shown \/ (d.listener.on /\ d.shown = c.view.doc.note)

\* A change of the online state, with what the views make of it.
OnlineStep(c, d) ==
  /\ d \in Client /\ Quieter(c.queue, d.queue) /\ Len(d.queue) = Len(c.queue)
  /\ \A t \in Timers \ {"online"} : d.timers[t] = c.timers[t]
  /\ d.stream = c.stream /\ d.chan = c.chan /\ d.agg = c.agg
  /\ d.failed = c.failed
  /\ d.batches = c.batches /\ d.wrote = c.wrote /\ d.doc = c.doc
  /\ d.lastSnapshot = c.lastSnapshot /\ d.listens = c.listens
  /\ d.pipeline = c.pipeline /\ d.target = c.target /\ d.blocked = c.blocked
  /\ d.view.on = c.view.on /\ d.view.doc = c.view.doc
  /\ d.view.synced = c.view.synced
  /\ d.view.current => c.view.current
  /\ d.listener.on = c.listener.on
  /\ d.shown = c.shown \/ (c.listener.on /\ d.shown = c.view.doc.note)

\* Each kind of step is reflexive and transitive.
LEMMA ListenStepTrans ==
  ASSUME NEW c \in Client, NEW d, NEW e, ListenStep(c, d), ListenStep(d, e)
  PROVE  ListenStep(c, e)
BY QuieterTrans DEF ListenStep, WriteFields, Client

\* Write-side steps compose.
LEMMA WriteStepTrans ==
  ASSUME NEW c \in Client, NEW d, NEW e, WriteStep(c, d), WriteStep(d, e)
  PROVE  WriteStep(c, e)
BY QuieterTrans DEF WriteStep, ListenFields, Client

\* Changes of the online state compose.
LEMMA OnlineStepTrans ==
  ASSUME NEW c \in Client, NEW d, NEW e, OnlineStep(c, d), OnlineStep(d, e)
  PROVE  OnlineStep(c, e)
BY QuieterTrans DEF OnlineStep, Client

\* A client stands in every step relation to itself.
LEMMA StepsReflexive ==
  ASSUME NEW c \in Client
  PROVE  /\ ListenStep(c, c) /\ WriteStep(c, c) /\ OnlineStep(c, c)
         /\ ShownStep(c, c) /\ ViewStep(c, c)
BY QuieterSame DEF ListenStep, WriteStep, OnlineStep, ShownStep, ViewStep,
                   WriteFields, ListenFields, Client

\* The smaller steps are steps of the listen side.
LEMMA ViewIsListenStep ==
  ASSUME NEW c \in Client, NEW d, ViewStep(c, d)
  PROVE  ListenStep(c, d)
BY QuieterSame DEF ViewStep, ListenStep, WriteFields, Client

\* Raising a snapshot is such a change.
LEMMA ShownIsOnlineStep ==
  ASSUME NEW c \in Client, NEW d, ShownStep(c, d)
  PROVE  OnlineStep(c, d)
BY QuieterSame DEF ViewStep, ShownStep, OnlineStep, Client

\* A change of the online state is a step of the listen side.
LEMMA OnlineIsListenStep ==
  ASSUME NEW c \in Client, NEW d, OnlineStep(c, d)
  PROVE  ListenStep(c, d)
BY DEF OnlineStep, ListenStep, WriteFields, Client, Timers, Streams

-----------------------------------------------------------------------------
(* Listener, view and online state.                                        *)

\* The page is shown the view's document.
LEMMA RaiseIs ==
  ASSUME NEW c \in Client, c.listener.on
  PROVE  ShownStep(c, RaiseSnapshot(c))
<1>1. [c.listener EXCEPT !.raised = TRUE] \in ListenerSet
  BY DEF Client, ListenerSet
<1>2. c.view.doc.note \in Nat
  BY DEF Client, ViewSet, DocSet
<1>3. [c.listener EXCEPT !.raised = TRUE].on = c.listener.on
  BY DEF Client, ListenerSet
<1> QED BY <1>1, <1>2, <1>3 DEF RaiseSnapshot, ShownStep, ViewStep, Client

\* onViewSnapshot: only the listener and what is shown change.
LEMMA ViewSnapshotIs ==
  ASSUME NEW c \in Client, NEW moved \in BOOLEAN
  PROVE  ShownStep(c, OnViewSnapshot(c, moved))
<1> DEFINE g == [c EXCEPT !.listener.got = TRUE]
<1>1. [c.listener EXCEPT !.got = TRUE] \in ListenerSet
  BY DEF Client, ListenerSet
<1>2. [c.listener EXCEPT !.got = TRUE].on = c.listener.on
  BY DEF Client, ListenerSet
<1>3. ShownStep(c, g)
  BY <1>1, <1>2 DEF ShownStep, ViewStep, Client
<1>4. c.listener.on => ShownStep(g, RaiseSnapshot(g))
  BY <1>3, RaiseIs DEF ShownStep, ViewStep
<1>5. c.listener.on => ShownStep(c, RaiseSnapshot(g))
  BY <1>3, <1>4 DEF ShownStep, ViewStep
<1> QED BY <1>3, <1>5, StepsReflexive DEF OnViewSnapshot

\* onOnlineStateChange of the listener: a cached view may be raised, nothing else.
LEMMA OnlineStateIs ==
  ASSUME NEW c \in Client
  PROVE  ShownStep(c, OnOnlineState(c))
BY RaiseIs, StepsReflexive DEF OnOnlineState

\* What a change makes of the view's document.
LEMMA ViewDocIs ==
  ASSUME NEW view \in ViewSet, NEW docs \in SUBSET DocSet
  PROVE  ViewDoc(view, docs) \in DocSet
<1> DEFINE changed == {d \in docs : ~(IsFound(view.doc) /\ SameData(d, view.doc))}
<1>1. InvalidDoc \in DocSet
  BY DEF InvalidDoc, Doc, DocSet
<1>2. changed # {} => (CHOOSE d \in changed : TRUE) \in DocSet
  OBVIOUS
<1> QED BY <1>1, <1>2 DEF ViewDoc, ViewSet

\* The view after a change, and what is shown of it.
LEMMA ViewChangesAre ==
  ASSUME NEW c \in Client, NEW docs \in SUBSET DocSet, NEW change \in ChangeSet,
         NEW first \in BOOLEAN
  PROVE  LET d == ApplyViewChanges(c, docs, change, first) IN
         /\ ViewStep(c, d)
         /\ d.view.on /\ d.view.doc = ViewDoc(c.view, docs)
         /\ d.view.synced = (CASE change.docs = "added"   -> TRUE
                               [] change.docs = "removed" -> FALSE
                               [] OTHER                   -> c.view.synced)
         /\ d.view.current = (CASE change.state = "current"     -> TRUE
                                [] change.state = "not current" -> FALSE
                                [] OTHER                        -> c.view.current)
         /\ d.listener.on = c.listener.on
         /\ d.shown = c.shown \/ (d.listener.on /\ d.shown = d.view.doc.note)
<1> DEFINE doc  == ViewDoc(c.view, docs)
           synced  == CASE change.docs = "added"   -> TRUE
                        [] change.docs = "removed" -> FALSE
                        [] OTHER                   -> c.view.synced
           current == CASE change.state = "current"     -> TRUE
                        [] change.state = "not current" -> FALSE
                        [] OTHER                        -> c.view.current
           view == [c.view EXCEPT !.on = TRUE, !.doc = doc, 
                      !.synced  = CASE change.docs = "added"   -> TRUE
                                    [] change.docs = "removed" -> FALSE
                                    [] OTHER                   -> @,
                      !.current = CASE change.state = "current"     -> TRUE
                                    [] change.state = "not current" -> FALSE
                                    [] OTHER                        -> @]
           full == [view EXCEPT !.fromCache = ~view.current]
           next == [c EXCEPT !.view = full]
           moved == doc # c.view.doc
<1>1. c.view \in ViewSet /\ doc \in DocSet
  BY ViewDocIs DEF Client
<1>2. synced \in BOOLEAN /\ current \in BOOLEAN
  BY <1>1 DEF ViewSet
<1>3. full \in ViewSet
  <2>1. view \in ViewSet
    BY <1>1, <1>2 DEF ViewSet
  <2> QED BY <2>1 DEF ViewSet
<1>4. full.on /\ full.doc = doc /\ full.synced = synced /\ full.current = current
  BY <1>1, <1>2 DEF ViewSet
<1> HIDE DEF full
<1>5. ViewStep(c, next) /\ next.view = full /\ next.listener = c.listener /\ next.shown = c.shown
  BY <1>3 DEF ViewStep, Client
<1>6. ShownStep(next, OnViewSnapshot(next, moved))
  BY <1>5, ViewSnapshotIs DEF ViewStep
<1>7. ApplyViewChanges(c, docs, change, first) \in {next, OnViewSnapshot(next, moved)}
  BY DEF ApplyViewChanges, full
<1> DEFINE d == ApplyViewChanges(c, docs, change, first)
<1>8. ViewStep(c, d) /\ d.view = full /\ d.listener.on = c.listener.on
      /\ (d.shown = c.shown \/ (d.listener.on /\ d.shown = d.view.doc.note))
  <2>1. CASE d = next
    BY <1>5, <2>1
  <2>2. CASE d = OnViewSnapshot(next, moved)
    <3> HIDE DEF moved
    <3> QED BY <1>5, <1>6, <2>2 DEF ShownStep, ViewStep
  <2> HIDE DEF d
  <2> QED BY <1>7, <2>1, <2>2 DEF d
<1> QED BY <1>4, <1>8

\* The empty target change is a change.
LEMMA NoChangeType ==
  /\ NoChange \in ChangeSet
  /\ NoChange.docs = "none" /\ NoChange.state = "as it was"
  /\ [NoChange EXCEPT !.state = "not current"] \in ChangeSet
  /\ [NoChange EXCEPT !.state = "not current"].docs = "none"
  /\ [NoChange EXCEPT !.state = "not current"].state = "not current"
BY DEF NoChange, ChangeSet, TargetChange

\* Without documents the view keeps its own.
LEMMA ViewDocSame ==
  ASSUME NEW view \in ViewSet
  PROVE  ViewDoc(view, {}) = view.doc
BY DEF ViewDoc

\* The view that goes offline is no longer current.
LEMMA ViewOfflineIs ==
  ASSUME NEW c \in Client
  PROVE  /\ OnlineStep(c, ViewOffline(c))
         /\ c.view.on => ~ViewOffline(c).view.current
         /\ ViewOffline(c).online = c.online
         /\ ViewOffline(c).failures = c.failures
         /\ ViewOffline(c).timers = c.timers
<1> DEFINE d == ApplyViewChanges(c, {}, [NoChange EXCEPT !.state = "not current"], FALSE)
<1>1. /\ ViewStep(c, d) /\ d.view.on /\ d.view.doc = c.view.doc
      /\ d.view.synced = c.view.synced /\ ~d.view.current
      /\ d.listener.on = c.listener.on
      /\ d.shown = c.shown \/ (d.listener.on /\ d.shown = d.view.doc.note)
  <2>1. c.view \in ViewSet /\ {} \in SUBSET DocSet /\ FALSE \in BOOLEAN
    BY DEF Client
  <2> QED BY <2>1, ViewChangesAre, NoChangeType, ViewDocSame, ZenonT(30)
<1>2. CASE c.view.on /\ c.view.current
  <2>1. ViewOffline(c) = d
    BY <1>2 DEF ViewOffline
  <2> QED BY <1>1, <1>2, <2>1, QuieterSame, ZenonT(30) DEF ViewStep, OnlineStep, Client
<1>3. CASE ~(c.view.on /\ c.view.current)
  <2>1. ViewOffline(c) = c
    BY <1>3 DEF ViewOffline
  <2> QED BY <1>3, <2>1, StepsReflexive
<1> QED BY <1>2, <1>3

\* A view that is current belongs to a client that is not offline.
CurrentInv(c) == c.view.current => c.view.on /\ c.online # "Offline"

\* A new online state, told to the view and the listener, leaves the cache alone.
LEMMA BecomeIs ==
  ASSUME NEW c \in Client, NEW state \in OnlineState, CurrentInv(c)
  PROVE  /\ OnlineStep(c, Become(c, state)) /\ CurrentInv(Become(c, state))
         /\ Become(c, state).online = state
         /\ Become(c, state).failures = c.failures
         /\ Become(c, state).timers = c.timers
<1> DEFINE b == [c EXCEPT !.online = state]
           told == OnOnlineState(b)
<1>1. OnlineStep(c, b) /\ b.online = state /\ b.failures = c.failures /\ b.view = c.view
      /\ b.timers = c.timers
  BY QuieterSame DEF OnlineStep, Client
<1>2. ShownStep(b, told)
  BY <1>1, OnlineStateIs DEF OnlineStep
<1>3. OnlineStep(b, told) /\ told.online = state /\ told.failures = c.failures
      /\ told.view = c.view /\ told \in Client /\ told.timers = c.timers
  BY <1>1, <1>2, ShownIsOnlineStep DEF OnlineStep, ShownStep, ViewStep
<1>4. OnlineStep(c, told)
  BY <1>1, <1>3, OnlineStepTrans
<1>5. OnlineStep(c, ViewOffline(told))
  BY <1>3, <1>4, ViewOfflineIs, OnlineStepTrans
<1>6. CASE c.online = state
  BY <1>6, StepsReflexive DEF Become
<1>7. CASE c.online # state /\ state = "Offline"
  <2>1. Become(c, state) = ViewOffline(told)
    BY <1>7 DEF Become
  <2>2. ViewOffline(told).view.current => told.view.current
    BY <1>3, ViewOfflineIs DEF OnlineStep
  <2>3. CurrentInv(ViewOffline(told))
    BY <1>3, <2>2, ViewOfflineIs DEF CurrentInv
  <2> QED BY <1>3, <1>5, <2>1, <2>3, ViewOfflineIs
<1>8. CASE c.online # state /\ state # "Offline"
  <2>1. Become(c, state) = told
    BY <1>8 DEF Become
  <2> QED BY <1>3, <1>4, <1>8, <2>1 DEF CurrentInv
<1> QED BY <1>6, <1>7, <1>8

\* A timer that is set or cancelled, of the online state's.
LEMMA OnlineTimer ==
  ASSUME NEW c \in Client
  PROVE  /\ OnlineStep(c, CancelTimer(c, "online"))
         /\ CancelTimer(c, "online").view = c.view
         /\ CancelTimer(c, "online").online = c.online
         /\ CancelTimer(c, "online").failures = c.failures
         /\ OnlineStep(c, SetTimer(c, "online"))
         /\ SetTimer(c, "online").view = c.view
         /\ SetTimer(c, "online").online = c.online
<1>1. "online" \in Timers /\ "set" \in TimerState /\ "off" \in TimerState
  BY DEF Timers, TimerState
<1>2. CancelTimer(c, "online") \in Client /\ SetTimer(c, "online") \in Client
  BY <1>1, CancelledIs DEF CancelTimer, SetTimer, Client
<1> QED BY <1>1, <1>2, CancelledIs, QuieterSame DEF CancelTimer, SetTimer, OnlineStep, Client

\* OnlineStateTracker.set: the timer is cleared, then the state is told.
LEMMA SetOnlineIs ==
  ASSUME NEW c \in Client, NEW state \in OnlineState, CurrentInv(c)
  PROVE  /\ OnlineStep(c, SetOnline(c, state)) /\ CurrentInv(SetOnline(c, state))
         /\ SetOnline(c, state).online = state
<1> DEFINE k == CancelTimer(c, "online")
           b == [k EXCEPT !.failures = 0]
<1>0. k \in Client
  BY OnlineTimer DEF OnlineStep
<1>1. OnlineStep(k, b) /\ b.view = k.view /\ b.online = k.online
  BY <1>0, QuieterSame DEF OnlineStep, Client
<1>2. OnlineStep(c, b) /\ CurrentInv(b)
  BY <1>1, OnlineTimer, OnlineStepTrans DEF CurrentInv
<1>3. b \in Client
  BY <1>2 DEF OnlineStep
<1>4. OnlineStep(b, Become(b, state)) /\ CurrentInv(Become(b, state)) /\ Become(b, state).online = state
  BY <1>2, <1>3, BecomeIs
<1>5. OnlineStep(c, Become(b, state))
  BY <1>2, <1>4, OnlineStepTrans
<1> QED BY <1>4, <1>5 DEF SetOnline

\* handleWatchStreamStart of the tracker.
LEMMA WatchStartsIs ==
  ASSUME NEW c \in Client, CurrentInv(c)
  PROVE  /\ OnlineStep(c, WatchStarts(c)) /\ CurrentInv(WatchStarts(c))
         /\ WatchStarts(c).online \in {c.online, "Unknown"}
<1> DEFINE b == Become(c, "Unknown")
<1>1. OnlineStep(c, b) /\ CurrentInv(b) /\ b.online = "Unknown"
  BY BecomeIs DEF OnlineState
<1>2. OnlineStep(b, SetTimer(b, "online")) /\ SetTimer(b, "online").view = b.view
      /\ SetTimer(b, "online").online = b.online
  BY <1>1, OnlineTimer DEF OnlineStep
<1>3. OnlineStep(c, SetTimer(b, "online"))
  BY <1>1, <1>2, OnlineStepTrans
<1> QED BY <1>1, <1>2, <1>3, StepsReflexive DEF WatchStarts, CurrentInv

\* handleWatchStreamFailure of the tracker.
LEMMA WatchFailsIs ==
  ASSUME NEW c \in Client, CurrentInv(c)
  PROVE  /\ OnlineStep(c, WatchFails(c)) /\ CurrentInv(WatchFails(c))
         /\ WatchFails(c).online # "Online"
<1> DEFINE k == CancelTimer(c, "online")
           b == [k EXCEPT !.failures = 1]
<1>0. k \in Client
  BY OnlineTimer DEF OnlineStep
<1>1. OnlineStep(k, b) /\ b.view = k.view /\ b.online = k.online
  BY <1>0, QuieterSame DEF OnlineStep, Client
<1>2. OnlineStep(c, b) /\ CurrentInv(b)
  BY <1>1, OnlineTimer, OnlineStepTrans DEF CurrentInv
<1>3. b \in Client
  BY <1>2 DEF OnlineStep
<1>4. OnlineStep(b, Become(b, "Offline")) /\ CurrentInv(Become(b, "Offline"))
      /\ Become(b, "Offline").online = "Offline"
  BY <1>2, <1>3, BecomeIs DEF OnlineState
<1>5. OnlineStep(c, Become(b, "Offline"))
  BY <1>2, <1>4, OnlineStepTrans
<1>6. OnlineStep(c, Become(c, "Unknown")) /\ CurrentInv(Become(c, "Unknown"))
      /\ Become(c, "Unknown").online = "Unknown"
  BY BecomeIs DEF OnlineState
<1> QED BY <1>4, <1>5, <1>6 DEF WatchFails

\* The online-state timer.
LEMMA OnlineTimeoutIs ==
  ASSUME NEW c \in Client, CurrentInv(c)
  PROVE  /\ OnlineStep(c, OnlineTimeout(c)) /\ CurrentInv(OnlineTimeout(c))
         /\ OnlineTimeout(c).online = "Offline"
<1> DEFINE b == [c EXCEPT !.timers["online"] = "off"]
<1>1. OnlineStep(c, b) /\ b.view = c.view /\ b.online = c.online
  BY QuieterSame DEF OnlineStep, Client, Timers, TimerState
<1>2. b \in Client /\ CurrentInv(b)
  BY <1>1 DEF OnlineStep, CurrentInv
<1>3. OnlineStep(b, Become(b, "Offline")) /\ CurrentInv(Become(b, "Offline"))
      /\ Become(b, "Offline").online = "Offline"
  BY <1>2, BecomeIs DEF OnlineState
<1>4. OnlineStep(c, Become(b, "Offline"))
  BY <1>1, <1>3, OnlineStepTrans
<1> QED BY <1>3, <1>4 DEF OnlineTimeout

-----------------------------------------------------------------------------
(* The streams.                                                            *)

\* The callbacks of a stream that will run: those of its present channel.
Live(c, s) ==
  {i \in 1..Len(c.queue) :
     c.queue[i].on = s /\ c.queue[i].gen = c.stream[s].closes + 1}

Ticks(c, t) ==
  {i \in 1..Len(c.queue) : c.queue[i].kind = "timer" /\ c.queue[i].on = t}

\* A stream that does not run has no channel, and no callback of an earlier
\* one will run.  One that starts waits for the channel's first event only.
\* The backoff's timer runs, or its task waits, only in the backoff.
StreamInv(c, s) ==
  /\ c.chan[s].gen \in {0, c.stream[s].closes + 1}
  /\ c.chan[s].gen = 0 => c.chan[s].out = <<>>
  /\ \A i \in 1..Len(c.queue) :
       c.queue[i].on = s => c.queue[i].gen <= c.stream[s].closes + 1
  /\ c.stream[s].state \notin {"starting", "open"} =>
       c.chan[s].gen = 0 /\ Live(c, s) = {}
  /\ c.stream[s].state = "starting" =>
       /\ c.chan[s].out = <<>>
       /\ \A i \in Live(c, s) : c.queue[i].kind = "open" /\ c.chan[s].gen # 0
       /\ \A i, j \in Live(c, s) : i = j
  /\ c.stream[s].state = "open" => \A i \in Live(c, s) : c.queue[i].kind # "open"
  /\ c.timers[s] # "off" => c.stream[s].state = "backoff"
  /\ Ticks(c, s) # {} => c.timers[s] = "elapsed"
  /\ \A i, j \in Ticks(c, s) : i = j

\* A change of one stream, its channel and its timers.
StreamStep(c, d, s) ==
  /\ d \in Client /\ Quieter(c.queue, d.queue) /\ Len(d.queue) = Len(c.queue)
  /\ \A t \in Streams \ {s} : d.stream[t] = c.stream[t] /\ d.chan[t] = c.chan[t]
  /\ \A t \in Timers \ {s, "idle"} : d.timers[t] = c.timers[t]
  /\ s = "listen" => d.timers["idle"] = c.timers["idle"]
  /\ d.failed = c.failed /\ d.online = c.online /\ d.failures = c.failures
  /\ d.agg = c.agg /\ d.batches = c.batches /\ d.wrote = c.wrote
  /\ d.doc = c.doc /\ d.lastSnapshot = c.lastSnapshot /\ d.view = c.view
  /\ d.listener = c.listener /\ d.listens = c.listens /\ d.shown = c.shown
  /\ d.pipeline = c.pipeline /\ d.target = c.target /\ d.blocked = c.blocked

\* What the connection of the listen side may change: not the cache, not the
\* target's token, and of the view only whether it is current.
WatchStep(c, d) ==
  /\ ListenStep(c, d) /\ Len(d.queue) = Len(c.queue)
  /\ d.doc = c.doc /\ d.lastSnapshot = c.lastSnapshot /\ d.failed = c.failed
  /\ d.target.token = c.target.token
  /\ d.view.on = c.view.on /\ d.view.doc = c.view.doc
  /\ d.view.synced = c.view.synced
  /\ d.view.current => c.view.current
  /\ d.listener.on = c.listener.on
  /\ d.shown = c.shown \/ (c.listener.on /\ d.shown = c.view.doc.note)

\* Changes of one stream compose.
LEMMA StreamStepTrans ==
  ASSUME NEW c \in Client, NEW d, NEW e, NEW s \in Streams,
         StreamStep(c, d, s), StreamStep(d, e, s)
  PROVE  StreamStep(c, e, s)
BY QuieterTrans DEF StreamStep, Client

\* A change of one stream is a step of its side.
LEMMA StreamStepIs ==
  ASSUME NEW c \in Client, NEW d
  PROVE  /\ StreamStep(c, d, "listen") => WatchStep(c, d)
         /\ StreamStep(c, d, "write") => WriteStep(c, d)
BY DEF StreamStep, WatchStep, ListenStep, WriteStep, WriteFields, ListenFields,
       Streams, Timers

\* A change of the online state is a step of the watch connection.
LEMMA OnlineIsWatchStep ==
  ASSUME NEW c \in Client, NEW d, OnlineStep(c, d)
  PROVE  WatchStep(c, d)
BY OnlineIsListenStep DEF OnlineStep, WatchStep

\* Steps of the watch connection compose.
LEMMA WatchStepTrans ==
  ASSUME NEW c \in Client, NEW d, NEW e, WatchStep(c, d), WatchStep(d, e)
  PROVE  WatchStep(c, e)
BY ListenStepTrans DEF WatchStep

\* What the queue loses, no stream's invariant misses.
LEMMA StreamInvKept ==
  ASSUME NEW c \in Client, NEW d \in Client, NEW s \in Streams,
         StreamInv(c, s), Quieter(c.queue, d.queue),
         d.stream[s] = c.stream[s], d.chan[s] = c.chan[s], d.timers[s] = c.timers[s]
  PROVE  StreamInv(d, s)
<1>1. Len(c.queue) \in Nat /\ Len(d.queue) \in Nat /\ c.stream[s].closes \in Nat
  BY DEF Client, StreamSet
<1>2. \A i \in 1..Len(d.queue) : i \in 1..Len(c.queue) /\
        (d.queue[i] = c.queue[i] \/ (d.queue[i].kind = "cancelled" /\ d.queue[i].on = "page"))
  <2>1. ASSUME NEW i \in 1..Len(d.queue), d.queue[i].kind = "cancelled"
        PROVE  d.queue[i].on = "page"
    <3>1. d.queue[i] \in TaskSet
      BY DEF Client
    <3> QED BY <2>1, <3>1 DEF TaskSet, PageTask, StreamTask, TimerTask
  <2> QED BY <1>1, <2>1 DEF Quieter
<1>3. s # "page"
  BY DEF Streams
<1>4. Live(d, s) \subseteq Live(c, s) /\ Ticks(d, s) \subseteq Ticks(c, s)
      /\ \A i \in Live(d, s) : d.queue[i] = c.queue[i]
  BY <1>2, <1>3 DEF Live, Ticks
<1>5. \A i \in 1..Len(d.queue) :
        d.queue[i].on = s => d.queue[i].gen <= d.stream[s].closes + 1
  BY <1>2, <1>3 DEF StreamInv
<1> QED BY <1>4, <1>5 DEF StreamInv

\* A stream's first task, with the rest of the queue.
LEMMA TailQueue ==
  ASSUME NEW c \in Client, c.queue # <<>>
  PROVE  LET d == [c EXCEPT !.queue = Tail(@)] IN
         /\ d \in Client /\ Head(c.queue) = c.queue[1] /\ Head(c.queue) \in TaskSet
         /\ 1 \in 1..Len(c.queue)
         /\ Len(d.queue) = Len(c.queue) - 1
         /\ \A i \in 1..Len(d.queue) :
              d.queue[i] = c.queue[i + 1] /\ i + 1 \in 1..Len(c.queue)
<1>1. c.queue \in Seq(TaskSet) /\ Len(c.queue) \in Nat /\ Len(c.queue) # 0
  BY EmptySeq DEF Client
<1>2. Head(c.queue) = c.queue[1] /\ Head(c.queue) \in TaskSet
      /\ Tail(c.queue) \in Seq(TaskSet)
      /\ Len(Tail(c.queue)) = Len(c.queue) - 1
      /\ \A i \in 1..Len(Tail(c.queue)) : Tail(c.queue)[i] = c.queue[i + 1]
  BY <1>1, HeadTailProperties
<1>3. [c EXCEPT !.queue = Tail(@)] \in Client
      /\ [c EXCEPT !.queue = Tail(@)].queue = Tail(c.queue)
  BY <1>2 DEF Client
<1> QED BY <1>1, <1>2, <1>3

\* Taking the head off the queue keeps the discipline of the callbacks.
LEMMA PoppedStream ==
  ASSUME NEW c \in Client, NEW s \in Streams, StreamInv(c, s), c.queue # <<>>
  PROVE  LET d == [c EXCEPT !.queue = Tail(@)]
             task == Head(c.queue) IN
         /\ StreamInv(d, s)
         /\ task.on = s /\ Guarded(c, task) =>
              /\ c.stream[s].state \in {"starting", "open"}
              /\ task.kind = "open" => c.stream[s].state = "starting"
              /\ c.stream[s].state = "starting" =>
                   task.kind = "open" /\ Live(d, s) = {}
         /\ task.kind = "timer" /\ task.on = s =>
              c.stream[s].state = "backoff" /\ Ticks(d, s) = {}
<1> DEFINE d == [c EXCEPT !.queue = Tail(@)]
           task == Head(c.queue)
<1>1. /\ d \in Client /\ task = c.queue[1] /\ 1 \in 1..Len(c.queue)
      /\ \A i \in 1..Len(d.queue) :
           d.queue[i] = c.queue[i + 1] /\ i + 1 \in 1..Len(c.queue)
  BY TailQueue
<1>2. d.stream = c.stream /\ d.chan = c.chan /\ d.timers = c.timers
  BY DEF Client
<1> HIDE DEF d, task
<1>3. \A i \in Live(d, s) : i + 1 \in Live(c, s) /\ d.queue[i] = c.queue[i + 1]
  BY <1>1, <1>2 DEF Live
<1>4. \A i \in Ticks(d, s) : i + 1 \in Ticks(c, s)
  BY <1>1, <1>2 DEF Ticks
<1>5. \A i, j \in Nat : i + 1 = j + 1 => i = j
  OBVIOUS
<1>6. Live(d, s) \subseteq Nat \ {0} /\ Ticks(d, s) \subseteq Nat \ {0}
  BY DEF Live, Ticks
<1>7. \A i \in 1..Len(d.queue) :
        d.queue[i].on = s => d.queue[i].gen <= d.stream[s].closes + 1
  BY <1>1, <1>2 DEF StreamInv
<1>8. /\ Live(c, s) = {} => Live(d, s) = {}
      /\ Ticks(d, s) # {} => Ticks(c, s) # {}
      /\ (\A i, j \in Live(c, s) : i = j) => \A i, j \in Live(d, s) : i = j
      /\ \A i, j \in Ticks(d, s) : i = j
  BY <1>3, <1>4, <1>5, <1>6 DEF StreamInv
<1>9. StreamInv(d, s)
  BY <1>2, <1>3, <1>7, <1>8 DEF StreamInv
<1>10. ASSUME task.on = s, Guarded(c, task)
       PROVE  /\ c.stream[s].state \in {"starting", "open"}
              /\ task.kind = "open" => c.stream[s].state = "starting"
              /\ c.stream[s].state = "starting" =>
                   task.kind = "open" /\ Live(d, s) = {}
  <2>1. 1 \in Live(c, s)
    BY <1>1, <1>10 DEF Live, Guarded
  <2>2. c.stream[s].state = "starting" => Live(d, s) = {}
    <3>1. \A i \in Live(d, s) : i + 1 # 1
      BY <1>6
    <3> QED BY <1>3, <2>1, <3>1 DEF StreamInv
  <2> QED BY <1>1, <2>1, <2>2 DEF StreamInv
<1>11. ASSUME task.kind = "timer", task.on = s
       PROVE  c.stream[s].state = "backoff" /\ Ticks(d, s) = {}
  <2>1. 1 \in Ticks(c, s)
    BY <1>1, <1>11 DEF Ticks
  <2>2. \A i \in Ticks(d, s) : i + 1 # 1
    BY <1>6
  <2> QED BY <1>4, <2>1, <2>2 DEF StreamInv
<1> QED BY <1>9, <1>10, <1>11 DEF d, task

-----------------------------------------------------------------------------
(* What the streams' operators do.                                         *)

\* Cancelling one of a stream's timers.
LEMMA CancelTimerIs ==
  ASSUME NEW c \in Client, NEW s \in Streams, NEW t \in Timers,
         t = s \/ (t = "idle" /\ s = "write")
  PROVE  /\ StreamStep(c, CancelTimer(c, t), s)
         /\ CancelTimer(c, t).timers[t] = "off"
         /\ \A u \in Timers \ {t} : CancelTimer(c, t).timers[u] = c.timers[u]
         /\ CancelTimer(c, t).stream = c.stream /\ CancelTimer(c, t).chan = c.chan
         /\ Ticks(CancelTimer(c, t), t) = {}
<1>1. "off" \in TimerState
  BY DEF TimerState
<1>2. CancelTimer(c, t) \in Client
  BY <1>1, CancelledIs DEF CancelTimer, Client
<1>3. CancelTimer(c, t).queue = Cancelled(c.queue, t)
  BY DEF CancelTimer, Client
<1>4. Ticks(CancelTimer(c, t), t) = {}
  BY <1>3, CancelledIs DEF Ticks, Client
<1> QED BY <1>2, <1>3, <1>4, CancelledIs DEF CancelTimer, StreamStep, Client, Timers, Streams

\* A closed stream: nothing of it is under way.
Closed(c, s) ==
  /\ StreamInv(c, s) /\ c.stream[s].state \in {"initial", "error"}
  /\ c.chan[s] = NoChannel

\* The initial channels are channels.
LEMMA ChannelTypes ==
  /\ NoChannel \in ChannelSet /\ NoChannel.gen = 0 /\ NoChannel.out = <<>>
  /\ "initial" \in StreamState /\ "error" \in StreamState /\ "open" \in StreamState
  /\ "starting" \in StreamState /\ "backoff" \in StreamState
BY DEF NoChannel, ChannelSet, StreamState

\* PersistentStream.close: no callback of the old connection is live any more.
LEMMA CloseStreamIs ==
  ASSUME NEW c \in Client, NEW s \in Streams, StreamInv(c, s),
         NEW final \in {"initial", "error"}
  PROVE  LET d == CloseStream(c, s, final) IN
         /\ StreamStep(c, d, s) /\ Closed(d, s)
         /\ d.stream[s].state = final /\ d.stream[s].seen = c.stream[s].seen
<1> DEFINE k == CancelTimer(c, s)
           still == IF s = "write" THEN CancelTimer(k, "idle") ELSE k
           d == CloseStream(c, s, final)
<1>1. s \in Timers /\ "idle" \in Timers /\ s # "idle"
  BY DEF Timers, Streams
<1>2. /\ StreamStep(c, k, s) /\ k.timers[s] = "off" /\ k.stream = c.stream
      /\ Ticks(k, s) = {} /\ k \in Client
  BY <1>1, CancelTimerIs DEF StreamStep
<1>3. /\ StreamStep(c, still, s) /\ still.timers[s] = "off"
      /\ still.stream = c.stream /\ Ticks(still, s) = {} /\ still \in Client
  <2>1. CASE s = "write"
    <3>1. /\ StreamStep(k, still, s) /\ still.timers[s] = "off"
          /\ still.stream = c.stream
      BY <1>1, <1>2, <2>1, CancelTimerIs
    <3>2. Quieter(k.queue, still.queue) /\ still \in Client
      BY <3>1 DEF StreamStep
    <3>3. Ticks(still, s) = {}
      <4>1. Len(k.queue) \in Nat
        BY <1>2 DEF Client
      <4>2. Ticks(still, s) \subseteq Ticks(k, s)
        BY <4>1, <3>2 DEF Quieter, Ticks
      <4> QED BY <4>2, <1>2
    <3> QED BY <1>2, <3>1, <3>2, <3>3, StreamStepTrans
  <2>2. CASE s # "write"
    BY <1>2, <2>2
  <2> QED BY <2>1, <2>2
<1> HIDE DEF still, k
<1>4. d = [still EXCEPT !.stream[s].closes = @ + 1, !.stream[s].state = final,
                        !.chan[s] = NoChannel]
  BY DEF CloseStream, still, k
<1>5. /\ d \in Client /\ d.stream[s].state = final
      /\ d.stream[s].closes = c.stream[s].closes + 1
      /\ d.stream[s].seen = c.stream[s].seen
      /\ d.chan[s] = NoChannel /\ d.timers = still.timers /\ d.queue = still.queue
  <2> DEFINE rec == [still.stream[s] EXCEPT !.closes = @ + 1, !.state = final]
             strs == [still.stream EXCEPT ![s] = rec]
             chans == [still.chan EXCEPT ![s] = NoChannel]
  <2>1. still.stream \in [Streams -> StreamSet] /\ still.chan \in [Streams -> ChannelSet]
    BY <1>3 DEF Client
  <2>2. /\ rec \in StreamSet /\ rec.state = final
        /\ rec.closes = c.stream[s].closes + 1 /\ rec.seen = c.stream[s].seen
    <3>1. final \in StreamState /\ still.stream[s] \in StreamSet
      BY <2>1, ChannelTypes
    <3>2. still.stream[s] = c.stream[s] /\ still.stream[s].closes + 1 \in Nat
      BY <1>3, <3>1 DEF StreamSet
    <3> QED BY <3>1, <3>2 DEF StreamSet
  <2>3. /\ strs \in [Streams -> StreamSet] /\ strs[s] = rec
        /\ chans \in [Streams -> ChannelSet] /\ chans[s] = NoChannel
    BY <2>1, <2>2, ChannelTypes
  <2>4. d = [still EXCEPT !.stream = strs, !.chan = chans]
    BY <1>4, <2>1, <1>3, ZenonT(30) DEF Client
  <2> HIDE DEF d, rec, strs, chans
  <2> QED BY <1>3, <2>2, <2>3, <2>4 DEF Client
<1>6. StreamStep(still, d, s)
  <2>1. Quieter(still.queue, d.queue) /\ Len(d.queue) = Len(still.queue)
    BY <1>3, <1>5, QuieterSame DEF Client
  <2>2. \A t \in Streams \ {s} : d.stream[t] = still.stream[t] /\ d.chan[t] = still.chan[t]
    BY <1>3, <1>4 DEF Client
  <2>3. /\ d.failed = still.failed /\ d.online = still.online
        /\ d.failures = still.failures /\ d.agg = still.agg
        /\ d.batches = still.batches /\ d.wrote = still.wrote
        /\ d.doc = still.doc /\ d.lastSnapshot = still.lastSnapshot
        /\ d.view = still.view /\ d.listener = still.listener
        /\ d.listens = still.listens /\ d.shown = still.shown
        /\ d.pipeline = still.pipeline /\ d.target = still.target
        /\ d.blocked = still.blocked
    BY <1>3, <1>4 DEF Client
  <2> QED BY <1>5, <2>1, <2>2, <2>3 DEF StreamStep
<1>7. StreamStep(c, d, s)
  BY <1>3, <1>6, StreamStepTrans
<1>8. \A i \in 1..Len(d.queue) :
        d.queue[i].on = s => d.queue[i].gen <= c.stream[s].closes + 1
  <2>1. Len(c.queue) \in Nat /\ Quieter(c.queue, d.queue)
    BY <1>7 DEF StreamStep, Client
  <2> SUFFICES ASSUME NEW i \in 1..Len(d.queue), d.queue[i].on = s
               PROVE  d.queue[i].gen <= c.stream[s].closes + 1
    OBVIOUS
  <2>2. d.queue[i] \in TaskSet
    BY <1>5 DEF Client
  <2>3. d.queue[i].kind # "cancelled"
    BY <2>2 DEF TaskSet, StreamTask, TimerTask, PageTask, Streams
  <2>4. d.queue[i] = c.queue[i] /\ i \in 1..Len(c.queue)
    BY <2>1, <2>3 DEF Quieter
  <2> QED BY <2>4 DEF StreamInv
<1>9. c.stream[s].closes \in Nat /\ \A i \in 1..Len(d.queue) : d.queue[i].gen \in Nat
  <2>1. \A i \in 1..Len(d.queue) : d.queue[i] \in TaskSet
    BY <1>5 DEF Client
  <2>2. \A t \in TaskSet : t.gen \in Nat
    BY DEF TaskSet, StreamTask, TimerTask, PageTask
  <2>3. c.stream[s].closes \in Nat
    BY DEF Client, StreamSet
  <2> QED BY <2>1, <2>2, <2>3
<1>10. Live(d, s) = {} /\ Ticks(d, s) = {}
  BY <1>3, <1>5, <1>8, <1>9, SMTT(30) DEF Live, Ticks
<1>11. StreamInv(d, s)
  BY <1>3, <1>5, <1>8, <1>9, <1>10, ChannelTypes DEF StreamInv
<1> QED BY <1>5, <1>7, <1>11 DEF Closed

\* A change of one stream keeps the discipline of the other.
LEMMA StreamStepKeeps ==
  ASSUME NEW c \in Client, NEW d, NEW s \in Streams, NEW t \in Streams,
         StreamStep(c, d, s), StreamInv(c, t), s # t
  PROVE  StreamInv(d, t)
BY StreamInvKept DEF StreamStep, Streams, Timers

\* The state and the flag of a stream change, with its backoff timer.
LEMMA StartIs ==
  ASSUME NEW c \in Client, NEW s \in Streams, StreamInv(c, s), ~IsStarted(c, s)
  PROVE  LET d == Start(c, s) IN
         /\ StreamStep(c, d, s) /\ StreamInv(d, s)
         /\ d.stream[s].state \in {"starting", "backoff"}
         /\ d.stream[s].seen = FALSE /\ d.chan = c.chan /\ d.queue = c.queue
<1> DEFINE fresh == [c EXCEPT !.stream[s].seen = FALSE]
           a == [fresh EXCEPT !.stream[s].state = "starting"]
           b == [fresh EXCEPT !.stream[s].state = "backoff"]
           e == SetTimer(b, s)
<1>0. c.stream[s].state \in {"initial", "error"}
  BY DEF IsStarted, IsOpen, Client, StreamSet, StreamState
<1>1. s \in Timers /\ "set" \in TimerState
  BY DEF Timers, Streams, TimerState
<1>2. /\ c.chan[s].gen = 0 /\ c.chan[s].out = <<>> /\ Live(c, s) = {}
      /\ c.timers[s] = "off" /\ Ticks(c, s) = {}
  BY <1>0, <1>1 DEF StreamInv
<1>3. /\ a \in Client /\ a.stream[s].state = "starting" /\ ~a.stream[s].seen
      /\ a.stream[s].closes = c.stream[s].closes /\ a.queue = c.queue
      /\ a.timers = c.timers /\ a.chan = c.chan /\ a.stream[s].seen \in BOOLEAN
  BY ChannelTypes, ZenonT(30) DEF Client, StreamSet
<1>4. /\ b \in Client /\ b.stream[s].state = "backoff" /\ ~b.stream[s].seen
      /\ b.stream[s].closes = c.stream[s].closes /\ b.queue = c.queue
      /\ b.timers = c.timers /\ b.chan = c.chan /\ b.stream[s].seen \in BOOLEAN
  BY ChannelTypes, ZenonT(30) DEF Client, StreamSet
<1>5. StreamStep(c, a, s) /\ StreamStep(c, b, s)
  BY <1>3, <1>4, QuieterSame DEF StreamStep, Client
<1>6. /\ e \in Client /\ e.timers[s] = "set" /\ e.stream = b.stream
      /\ e.queue = b.queue /\ e.chan = b.chan
  BY <1>1, <1>4 DEF SetTimer, Client
<1>7. StreamStep(b, e, s)
  BY <1>4, <1>6, QuieterSame DEF StreamStep, SetTimer, Client
<1>8. StreamStep(c, e, s)
  BY <1>4, <1>5, <1>7, StreamStepTrans
<1>9. StreamInv(a, s)
  BY <1>2, <1>3 DEF StreamInv, Live, Ticks
<1>10. StreamInv(e, s)
  <2>1. /\ e.stream[s].state = "backoff" /\ e.stream[s].closes = c.stream[s].closes
        /\ e.chan = c.chan /\ e.queue = c.queue /\ e.timers[s] = "set"
    BY <1>4, <1>6
  <2>2. Live(e, s) = Live(c, s) /\ Ticks(e, s) = Ticks(c, s)
    BY <2>1 DEF Live, Ticks
  <2> HIDE DEF e
  <2> QED BY <1>2, <2>1, <2>2 DEF StreamInv
<1>11. Start(c, s) \in {a, e}
  BY DEF Start
<1>12. ~Start(c, s).stream[s].seen /\ Start(c, s).stream[s].seen \in BOOLEAN
  BY <1>3, <1>4, <1>6, <1>11
<1> HIDE DEF a, b, e
<1> QED BY <1>3, <1>4, <1>5, <1>6, <1>8, <1>9, <1>10, <1>11, <1>12

\* A stream at rest counts as new.
LEMMA InhibitIs ==
  ASSUME NEW c \in Client, NEW s \in Streams, StreamInv(c, s),
         ~IsStarted(c, s) \/ (c.stream[s].state = "backoff" /\ c.timers[s] = "off")
  PROVE  LET d == Inhibit(c, s) IN
         /\ StreamStep(c, d, s) /\ StreamInv(d, s)
         /\ d.stream[s].state = "initial" /\ d.chan = c.chan
         /\ d.stream[s].seen = c.stream[s].seen /\ d.queue = c.queue
<1> DEFINE d == Inhibit(c, s)
<1>1. /\ d \in Client /\ d.stream[s].state = "initial" /\ d.queue = c.queue
      /\ d.stream[s].closes = c.stream[s].closes /\ d.stream[s].seen = c.stream[s].seen
      /\ d.timers = c.timers /\ d.chan = c.chan
  BY ChannelTypes, ZenonT(30) DEF Inhibit, Client, StreamSet
<1>2. StreamStep(c, d, s)
  BY <1>1, QuieterSame DEF StreamStep, Inhibit, Client
<1>3. c.stream[s].state \notin {"starting", "open"} /\ c.timers[s] = "off"
  BY DEF IsStarted, IsOpen, StreamInv
<1>4. StreamInv(d, s)
  BY <1>1, <1>3 DEF StreamInv, Live, Ticks
<1> QED BY <1>1, <1>2, <1>4

\* The backoff's timer has elapsed.
LEMMA RestartIs ==
  ASSUME NEW c \in Client, NEW s \in Streams, StreamInv(c, s),
         c.stream[s].state = "backoff", Ticks(c, s) = {}
  PROVE  LET d == Restart([c EXCEPT !.timers[s] = "off"], s) IN
         /\ StreamStep(c, d, s) /\ StreamInv(d, s)
         /\ d.stream[s].state \in {"starting", "backoff"}
         /\ d.stream[s].seen = FALSE /\ d.chan = c.chan
<1> DEFINE off == [c EXCEPT !.timers[s] = "off"]
           i == Inhibit(off, s)
<1>1. s \in Timers /\ "off" \in TimerState
  BY DEF Timers, Streams, TimerState
<1>2. /\ off \in Client /\ off.timers[s] = "off" /\ off.stream = c.stream
      /\ off.chan = c.chan /\ off.queue = c.queue
  BY <1>1 DEF Client
<1>3. StreamStep(c, off, s)
  BY <1>1, <1>2, QuieterSame, SMTT(30) DEF StreamStep, Client
<1>4. StreamInv(off, s)
  BY <1>2 DEF StreamInv, Live, Ticks
<1> HIDE DEF off
<1>5. /\ StreamStep(off, i, s) /\ StreamInv(i, s) /\ i.stream[s].state = "initial"
      /\ i.chan = c.chan /\ i \in Client
  BY <1>2, <1>4, InhibitIs DEF StreamStep
<1>6. /\ StreamStep(i, Start(i, s), s) /\ StreamInv(Start(i, s), s)
      /\ Start(i, s).stream[s].state \in {"starting", "backoff"}
      /\ Start(i, s).chan = i.chan /\ Start(i, s).stream[s].seen = FALSE
  <2>1. ~IsStarted(i, s)
    BY <1>5 DEF IsStarted, IsOpen
  <2> QED BY <1>5, <2>1, StartIs
<1>7. Restart(off, s) = Start(i, s)
  BY DEF Restart, Inhibit
<1>8. StreamStep(c, Start(i, s), s)
  BY <1>2, <1>3, <1>5, <1>6, StreamStepTrans
<1> QED BY <1>5, <1>6, <1>7, <1>8 DEF off

\* Messages go into the channel there is.
LEMMA SendAllIs ==
  ASSUME NEW c \in Client, NEW s \in Streams, StreamInv(c, s), IsOpen(c, s),
         NEW msgs \in Seq(Request)
  PROVE  LET d == SendAll(c, s, msgs) IN
         /\ StreamStep(c, d, s) /\ StreamInv(d, s)
         /\ d.stream = c.stream
         /\ d.chan[s].gen = c.chan[s].gen /\ d.chan[s].linked = c.chan[s].linked
         /\ d.chan[s].out = IF c.chan[s].gen = 0 THEN c.chan[s].out
                            ELSE c.chan[s].out \o msgs
<1> DEFINE k == CancelTimer(c, "idle")
           busy == IF s = "write" /\ msgs # <<>> THEN k ELSE c
           d == [busy EXCEPT !.chan[s].out = @ \o msgs]
<1>1. "idle" \in Timers /\ s \in Timers /\ s # "idle"
  BY DEF Timers, Streams
<1>2. StreamStep(c, c, s)
  BY QuieterSame DEF StreamStep, Client
<1>3. /\ StreamStep(c, busy, s) /\ busy \in Client
      /\ busy.stream = c.stream /\ busy.chan = c.chan
      /\ busy.timers[s] = c.timers[s]
  <2>1. CASE s = "write" /\ msgs # <<>>
    BY <1>1, <2>1, CancelTimerIs DEF StreamStep
  <2>2. CASE ~(s = "write" /\ msgs # <<>>)
    BY <1>2, <2>2
  <2> QED BY <2>1, <2>2
<1>4. StreamInv(busy, s)
  BY <1>3, StreamInvKept DEF StreamStep
<1> HIDE DEF busy
<1>5. busy.chan[s].out \o msgs \in Seq(Request)
  BY <1>3 DEF Client, ChannelSet
<1>6. /\ d \in Client /\ d.stream = c.stream /\ d.queue = busy.queue
      /\ d.timers = busy.timers
      /\ d.chan[s].gen = c.chan[s].gen /\ d.chan[s].linked = c.chan[s].linked
      /\ d.chan[s].out = c.chan[s].out \o msgs
  BY <1>3, <1>5, ZenonT(30) DEF Client, ChannelSet
<1>7. StreamStep(busy, d, s)
  BY <1>3, <1>6, QuieterSame DEF StreamStep, Client
<1>8. StreamStep(c, d, s)
  BY <1>3, <1>7, StreamStepTrans
<1>9. c.chan[s].gen # 0 => StreamInv(d, s)
  BY <1>3, <1>4, <1>6, SMTT(30) DEF StreamInv, Live, Ticks, IsOpen
<1>10. SendAll(c, s, msgs) = IF c.chan[s].gen = 0 THEN busy ELSE d
  BY DEF SendAll, busy
<1> HIDE DEF d
<1> QED BY <1>3, <1>4, <1>6, <1>8, <1>9, <1>10

\* The write stream's idle timer is nobody else's.
LEMMA MarkIdleIs ==
  ASSUME NEW c \in Client, StreamInv(c, "write")
  PROVE  LET d == MarkIdle(c) IN
         /\ StreamStep(c, d, "write") /\ StreamInv(d, "write")
         /\ d.stream = c.stream /\ d.chan = c.chan
<1> DEFINE e == SetTimer(c, "idle")
<1>1. "idle" \in Timers /\ "write" \in Timers /\ "set" \in TimerState /\ "write" \in Streams
  BY DEF Timers, Streams, TimerState
<1>2. e \in Client /\ e.stream = c.stream /\ e.chan = c.chan /\ e.queue = c.queue
      /\ e.timers["write"] = c.timers["write"]
  BY <1>1 DEF SetTimer, Client
<1>3. StreamStep(c, c, "write") /\ StreamStep(c, e, "write")
  BY <1>1, <1>2, QuieterSame DEF StreamStep, SetTimer, Client
<1>4. StreamInv(e, "write")
  BY <1>2, <1>1, QuieterSame, StreamInvKept DEF Client
<1> HIDE DEF e
<1> QED BY <1>2, <1>3, <1>4 DEF MarkIdle, e

-----------------------------------------------------------------------------
(* The watch stream's side.                                                *)

\* The client is online only while its watch stream is open, and calls a
\* view current only while it is not offline.
WatchInv(c) ==
  /\ StreamInv(c, "listen") /\ CurrentInv(c)
  /\ c.online = "Online" => IsOpen(c, "listen")

\* What a step that leaves the watch stream alone makes of its invariant.
LEMMA OnlineStepKeeps ==
  ASSUME NEW c \in Client, NEW d, OnlineStep(c, d), StreamInv(c, "listen")
  PROVE  /\ StreamInv(d, "listen") /\ d.stream = c.stream /\ d.chan = c.chan
         /\ d.agg = c.agg /\ d.target = c.target /\ d \in Client
         /\ d.blocked = c.blocked
BY StreamInvKept DEF OnlineStep, Streams, Timers

\* What sendWatchRequest writes has its type.
LEMMA AddRequestType ==
  ASSUME NEW c \in Client
  PROVE  /\ <<[kind |-> "add", version |-> c.target.token]>> \in Seq(Request)
         /\ [(IF c.agg.on THEN c.agg ELSE NewTarget) EXCEPT !.pending = @ + 1] \in AggSet
         /\ NoAgg \in AggSet
         /\ NewTarget \in AggSet
<1>1. NoAgg \in AggSet /\ NewTarget \in AggSet
  BY DEF NoAgg, NewTarget, AggSet, InvalidDoc, Doc, DocSet, TargetChange
<1>2. c.agg \in AggSet /\ c.target.token \in Nat
  BY DEF Client
<1>3. [kind |-> "add", version |-> c.target.token] \in Request
  BY <1>2 DEF Request
<1>4. \A a \in AggSet : [a EXCEPT !.pending = @ + 1] \in AggSet
  BY DEF AggSet
<1> QED BY <1>1, <1>2, <1>3, <1>4

\* The aggregator gathers anew.
LEMMA AggStep ==
  ASSUME NEW c \in Client, NEW agg \in AggSet
  PROVE  LET d == [c EXCEPT !.agg = agg] IN
         /\ WatchStep(c, d) /\ d.agg = agg /\ d.stream = c.stream
         /\ d.chan = c.chan /\ d.timers = c.timers /\ d.queue = c.queue
         /\ d.target = c.target /\ d.online = c.online /\ d.view = c.view
         /\ (StreamInv(c, "listen") => StreamInv(d, "listen"))
         /\ (CurrentInv(c) => CurrentInv(d)) /\ d \in Client
         /\ d.shown = c.shown /\ d.listener = c.listener
<1> DEFINE d == [c EXCEPT !.agg = agg]
<1>1. d \in Client
  BY DEF Client
<1>2. /\ d.agg = agg /\ d.stream = c.stream
      /\ d.chan = c.chan /\ d.timers = c.timers /\ d.queue = c.queue
      /\ d.target = c.target /\ d.online = c.online /\ d.view = c.view
      /\ d.shown = c.shown /\ d.listener = c.listener
  BY DEF Client
<1>3. WatchStep(c, d)
  BY <1>1, QuieterSame DEF WatchStep, ListenStep, WriteFields, Client
<1>4. StreamInv(c, "listen") => StreamInv(d, "listen")
  BY <1>2 DEF StreamInv, Live, Ticks
<1>5. CurrentInv(c) => CurrentInv(d)
  BY <1>2 DEF CurrentInv
<1> QED BY <1>1, <1>2, <1>3, <1>4, <1>5

\* sendWatchRequest: one more answer is pending.
LEMMA SendWatchRequestIs ==
  ASSUME NEW c \in Client, WatchInv(c), IsOpen(c, "listen")
  PROVE  LET d == SendWatchRequest(c) IN
         /\ WatchStep(c, d) /\ WatchInv(d) /\ d.stream = c.stream
         /\ d.agg = [(IF c.agg.on THEN c.agg ELSE NewTarget) EXCEPT !.pending = @ + 1]
         /\ d.target = c.target
         /\ d.chan["listen"].gen = c.chan["listen"].gen
         /\ d.chan["listen"].linked = c.chan["listen"].linked
         /\ d.chan["listen"].out =
              IF c.chan["listen"].gen = 0 THEN c.chan["listen"].out
              ELSE c.chan["listen"].out \o <<[kind |-> "add", version |-> c.target.token]>>
<1> DEFINE agg  == [(IF c.agg.on THEN c.agg ELSE NewTarget) EXCEPT !.pending = @ + 1]
           msgs == <<[kind |-> "add", version |-> c.target.token]>>
           b == [c EXCEPT !.agg = agg]
           d == SendAll(b, "listen", msgs)
<1>1. agg \in AggSet /\ msgs \in Seq(Request) /\ "listen" \in Streams
  BY AddRequestType DEF Streams
<1> HIDE DEF agg, msgs
<1>2. /\ WatchStep(c, b) /\ b.agg = agg /\ b.stream = c.stream /\ b.chan = c.chan
      /\ b.target = c.target /\ b.online = c.online /\ b.view = c.view /\ b \in Client
      /\ StreamInv(b, "listen") /\ CurrentInv(b) /\ IsOpen(b, "listen")
  BY <1>1, AggStep DEF WatchInv, IsOpen
<1> HIDE DEF b
<1>3. /\ StreamStep(b, d, "listen") /\ StreamInv(d, "listen") /\ d.stream = c.stream
      /\ d.chan["listen"].gen = c.chan["listen"].gen
      /\ d.chan["listen"].linked = c.chan["listen"].linked
      /\ d.chan["listen"].out =
           IF c.chan["listen"].gen = 0 THEN c.chan["listen"].out
           ELSE c.chan["listen"].out \o msgs
  BY <1>1, <1>2, SendAllIs
<1>4. WatchStep(c, d)
  BY <1>2, <1>3, StreamStepIs, WatchStepTrans
<1>5. d.agg = agg /\ d.target = c.target /\ CurrentInv(d) /\ d.online = c.online
  BY <1>2, <1>3 DEF StreamStep, CurrentInv
<1>6. WatchInv(d)
  BY <1>3, <1>5 DEF WatchInv, IsOpen
<1>7. SendWatchRequest(c) = d
  BY DEF SendWatchRequest, Send, b, agg, msgs
<1> HIDE DEF d
<1> QED BY <1>3, <1>4, <1>5, <1>6, <1>7 DEF agg, msgs

\* startWatchStream.
LEMMA StartWatchIs ==
  ASSUME NEW c \in Client, StreamInv(c, "listen"), CurrentInv(c),
         c.online # "Online", ~IsStarted(c, "listen")
  PROVE  LET d == StartWatch(c) IN
         /\ WatchStep(c, d) /\ WatchInv(d) /\ d.agg = NoAgg
         /\ d.target = c.target /\ d.chan = c.chan
         /\ IsStarted(d, "listen") /\ ~IsOpen(d, "listen")
<1> DEFINE b == [c EXCEPT !.agg = NoAgg]
           e == Start(b, "listen")
           d == WatchStarts(e)
<1>1. NoAgg \in AggSet /\ "listen" \in Streams
  BY AddRequestType DEF Streams
<1>2. /\ WatchStep(c, b) /\ b.agg = NoAgg /\ b.stream = c.stream /\ b.chan = c.chan
      /\ b.target = c.target /\ b.online = c.online /\ b \in Client
      /\ StreamInv(b, "listen") /\ CurrentInv(b) /\ ~IsStarted(b, "listen")
  BY <1>1, AggStep DEF IsStarted, IsOpen
<1> HIDE DEF b
<1>3. /\ StreamStep(b, e, "listen") /\ StreamInv(e, "listen") /\ e.chan = c.chan
      /\ e.stream["listen"].state \in {"starting", "backoff"}
  BY <1>1, <1>2, StartIs
<1>4. e \in Client /\ CurrentInv(e) /\ e.agg = NoAgg /\ e.target = c.target /\ e.online = c.online
  BY <1>2, <1>3 DEF StreamStep, CurrentInv
<1> HIDE DEF e
<1>5. OnlineStep(e, d) /\ CurrentInv(d) /\ d.online \in {c.online, "Unknown"}
  BY <1>4, WatchStartsIs
<1>6. /\ StreamInv(d, "listen") /\ d.stream = e.stream /\ d.chan = c.chan
      /\ d.agg = NoAgg /\ d.target = c.target
  BY <1>3, <1>4, <1>5, OnlineStepKeeps
<1>7. WatchStep(c, d)
  BY <1>2, <1>3, <1>4, <1>5, StreamStepIs, OnlineIsWatchStep, WatchStepTrans
<1>8. StartWatch(c) = d
  BY DEF StartWatch, b, e
<1> HIDE DEF d
<1> QED BY <1>3, <1>5, <1>6, <1>7, <1>8 DEF WatchInv, IsStarted, IsOpen

\* remoteStoreListen: the target is on and its stream runs.
LEMMA RemoteStoreListenIs ==
  ASSUME NEW c \in Client, WatchInv(c), ~c.blocked, ~c.target.on
  PROVE  LET d == RemoteStoreListen(c) IN
         /\ WatchStep(c, d) /\ WatchInv(d) /\ d.target.on /\ IsStarted(d, "listen")
         /\ ~IsStarted(c, "listen") => d.agg = NoAgg /\ d.chan = c.chan /\ ~IsOpen(d, "listen")
<1> DEFINE b == [c EXCEPT !.target.on = TRUE]
<1>1. /\ b \in Client /\ b.target.on /\ b.target.token = c.target.token
      /\ b.queue = c.queue
      /\ b.stream = c.stream /\ b.chan = c.chan /\ b.timers = c.timers
      /\ b.online = c.online /\ b.view = c.view /\ b.blocked = c.blocked
  BY DEF Client
<1>2. WatchStep(c, b)
  BY <1>1, QuieterSame DEF WatchStep, ListenStep, WriteFields, Client
<1>3. WatchInv(b)
  BY <1>1 DEF WatchInv, StreamInv, Live, Ticks, IsOpen, CurrentInv
<1>4. RemoteStoreListen(c) =
        IF ShouldStartWatch(b) THEN StartWatch(b)
        ELSE IF IsOpen(c, "listen") THEN SendWatchRequest(b) ELSE b
  BY DEF RemoteStoreListen
<1> HIDE DEF b
<1>5. CASE ~IsStarted(c, "listen")
  <2>1. ShouldStartWatch(b) /\ ~IsStarted(b, "listen") /\ b.online # "Online"
    BY <1>1, <1>3, <1>5 DEF ShouldStartWatch, IsStarted, IsOpen, WatchInv
  <2>2. RemoteStoreListen(c) = StartWatch(b)
    BY <1>4, <2>1
  <2>3. /\ WatchStep(b, StartWatch(b)) /\ WatchInv(StartWatch(b))
        /\ StartWatch(b).agg = NoAgg /\ StartWatch(b).target = b.target
        /\ StartWatch(b).chan = b.chan /\ IsStarted(StartWatch(b), "listen")
        /\ ~IsOpen(StartWatch(b), "listen")
    BY <1>1, <1>3, <2>1, StartWatchIs DEF WatchInv
  <2>4. WatchStep(c, StartWatch(b))
    BY <1>1, <1>2, <2>3, WatchStepTrans
  <2> QED BY <1>1, <2>2, <2>3, <2>4
<1>6. CASE IsStarted(c, "listen")
  <2>1. ~ShouldStartWatch(b) /\ IsStarted(b, "listen")
    BY <1>1, <1>6 DEF ShouldStartWatch, IsStarted, IsOpen
  <2>2. CASE IsOpen(c, "listen")
    <3>1. IsOpen(b, "listen")
      BY <1>1, <2>2 DEF IsOpen
    <3>2. /\ WatchStep(b, SendWatchRequest(b)) /\ WatchInv(SendWatchRequest(b))
          /\ SendWatchRequest(b).stream = b.stream /\ SendWatchRequest(b).target = b.target
      BY <1>1, <1>3, <3>1, SendWatchRequestIs
    <3>3. WatchStep(c, SendWatchRequest(b))
      BY <1>1, <1>2, <3>2, WatchStepTrans
    <3>4. RemoteStoreListen(c) = SendWatchRequest(b)
      BY <1>4, <2>1, <2>2
    <3> QED BY <1>1, <1>6, <2>1, <3>2, <3>3, <3>4 DEF IsStarted, IsOpen
  <2>3. CASE ~IsOpen(c, "listen")
    BY <1>1, <1>2, <1>3, <1>4, <1>6, <2>1, <2>3
  <2> QED BY <2>2, <2>3
<1> QED BY <1>5, <1>6

\* onWatchStreamClose: the aggregator is forgotten and the stream restarts when it is needed.
LEMMA OnWatchCloseIs ==
  ASSUME NEW c \in Client, Closed(c, "listen"), CurrentInv(c)
  PROVE  LET d == OnWatchClose(c) IN
         /\ WatchStep(c, d) /\ WatchInv(d) /\ d.agg = NoAgg /\ d.target = c.target
         /\ d.chan = c.chan /\ ~IsOpen(d, "listen")
         /\ c.target.on /\ ~c.blocked => IsStarted(d, "listen")
         /\ IsStarted(d, "listen") => c.target.on /\ ~c.blocked
<1> DEFINE b == [c EXCEPT !.agg = NoAgg]
<1>1. NoAgg \in AggSet /\ "listen" \in Streams
  BY AddRequestType DEF Streams
<1>2. /\ WatchStep(c, b) /\ b.agg = NoAgg /\ b.stream = c.stream /\ b.chan = c.chan
      /\ b.target = c.target /\ b.online = c.online /\ b \in Client
      /\ StreamInv(b, "listen") /\ CurrentInv(b)
      /\ ~IsStarted(b, "listen") /\ ~IsOpen(b, "listen") /\ b.blocked = c.blocked
  <2>1. ~IsStarted(c, "listen")
    BY DEF Closed, IsStarted, IsOpen
  <2>2. WatchStep(c, b) /\ b.stream = c.stream /\ b \in Client
    BY <1>1, AggStep
  <2>3. b.blocked = c.blocked
    BY <2>2 DEF WatchStep, ListenStep
  <2> QED BY <1>1, <2>1, <2>2, <2>3, AggStep DEF Closed, IsStarted, IsOpen
<1>3. OnWatchClose(c) = IF ShouldStartWatch(b) THEN StartWatch(WatchFails(b))
                        ELSE SetOnline(b, "Unknown")
  BY DEF OnWatchClose
<1> HIDE DEF b
<1>4. CASE ShouldStartWatch(b)
  <2> DEFINE w == WatchFails(b)
             d == StartWatch(w)
  <2>1. OnlineStep(b, w) /\ CurrentInv(w) /\ w.online # "Online"
    BY <1>2, WatchFailsIs
  <2>2. /\ StreamInv(w, "listen") /\ w.stream = b.stream /\ w.chan = b.chan
        /\ w.agg = b.agg /\ w.target = b.target /\ w \in Client
    BY <1>2, <2>1, OnlineStepKeeps
  <2>3. ~IsStarted(w, "listen")
    BY <1>2, <2>2 DEF IsStarted, IsOpen
  <2> HIDE DEF w
  <2>4. /\ WatchStep(w, d) /\ WatchInv(d) /\ d.agg = NoAgg /\ d.target = w.target
        /\ d.chan = w.chan /\ IsStarted(d, "listen") /\ ~IsOpen(d, "listen")
    BY <2>1, <2>2, <2>3, StartWatchIs
  <2>5. WatchStep(b, d) /\ WatchStep(c, d)
    BY <1>2, <2>1, <2>2, <2>4, OnlineIsWatchStep, WatchStepTrans
  <2>6. OnWatchClose(c) = d
    BY <1>3, <1>4 DEF w
  <2> HIDE DEF d
  <2> QED BY <1>2, <1>4, <2>2, <2>4, <2>5, <2>6 DEF ShouldStartWatch
<1>5. CASE ~ShouldStartWatch(b)
  <2> DEFINE d == SetOnline(b, "Unknown")
  <2>1. OnlineStep(b, d) /\ CurrentInv(d) /\ d.online = "Unknown"
    BY <1>2, SetOnlineIs DEF OnlineState
  <2>2. /\ StreamInv(d, "listen") /\ d.stream = b.stream /\ d.chan = b.chan
        /\ d.agg = b.agg /\ d.target = b.target /\ d \in Client
    BY <1>2, <2>1, OnlineStepKeeps
  <2>3. WatchStep(c, d)
    BY <1>2, <2>1, OnlineIsWatchStep, WatchStepTrans
  <2>4. OnWatchClose(c) = d
    BY <1>3, <1>5
  <2>5. ~IsStarted(d, "listen") /\ ~IsOpen(d, "listen") /\ ~(c.target.on /\ ~c.blocked)
    BY <1>2, <1>5, <2>2 DEF ShouldStartWatch, IsStarted, IsOpen
  <2> HIDE DEF d
  <2> QED BY <1>2, <2>1, <2>2, <2>3, <2>4, <2>5 DEF WatchInv
<1> QED BY <1>4, <1>5

\* The watch stream closes, and starts again if it is needed.
LEMMA CloseListenIs ==
  ASSUME NEW c \in Client, WatchInv(c), NEW final \in {"initial", "error"}, NEW err
  PROVE  LET d == Close(c, "listen", final, err) IN
         /\ WatchStep(c, d) /\ WatchInv(d) /\ d.agg = NoAgg /\ d.target = c.target
         /\ d.chan["listen"] = NoChannel /\ ~IsOpen(d, "listen")
         /\ c.target.on /\ ~c.blocked => IsStarted(d, "listen")
         /\ IsStarted(d, "listen") => c.target.on /\ ~c.blocked
<1> DEFINE b == CloseStream(c, "listen", final)
           d == OnWatchClose(b)
<1>1. "listen" \in Streams
  BY DEF Streams
<1>2. StreamStep(c, b, "listen") /\ Closed(b, "listen")
  BY <1>1, CloseStreamIs DEF WatchInv
<1>3. /\ b \in Client /\ CurrentInv(b) /\ b.target = c.target /\ b.blocked = c.blocked
      /\ WatchStep(c, b)
  BY <1>2, StreamStepIs DEF StreamStep, WatchInv, CurrentInv
<1> HIDE DEF b
<1>4. /\ WatchStep(b, d) /\ WatchInv(d) /\ d.agg = NoAgg /\ d.target = b.target
      /\ d.chan = b.chan /\ ~IsOpen(d, "listen")
      /\ b.target.on /\ ~b.blocked => IsStarted(d, "listen")
      /\ IsStarted(d, "listen") => b.target.on /\ ~b.blocked
  BY <1>2, <1>3, OnWatchCloseIs
<1>5. WatchStep(c, d)
  BY <1>3, <1>4, WatchStepTrans
<1>6. Close(c, "listen", final, err) = d
  BY DEF Close, b
<1> HIDE DEF d
<1> QED BY <1>2, <1>3, <1>4, <1>5, <1>6 DEF Closed

\* Stopping the watch stream.
LEMMA StopListenIs ==
  ASSUME NEW c \in Client, WatchInv(c)
  PROVE  LET d == Stop(c, "listen") IN
         /\ WatchStep(c, d) /\ WatchInv(d) /\ d.target = c.target
         /\ d.chan["listen"].gen = 0 /\ ~IsOpen(d, "listen")
         /\ c.blocked => ~IsStarted(d, "listen")
         /\ IsStarted(c, "listen") => d.agg = NoAgg
<1>1. CASE IsStarted(c, "listen")
  <2>1. Stop(c, "listen") = Close(c, "listen", "initial", "none")
    BY <1>1 DEF Stop
  <2> QED BY <2>1, <1>1, CloseListenIs, ChannelTypes
<1>2. CASE ~IsStarted(c, "listen")
  <2>1. Stop(c, "listen") = c
    BY <1>2 DEF Stop
  <2>2. WatchStep(c, c)
    BY StepsReflexive, OnlineIsWatchStep
  <2> QED BY <1>2, <2>1, <2>2 DEF WatchInv, StreamInv, IsStarted, IsOpen
<1> QED BY <1>1, <1>2

\* The watch side of enableNetworkInternal.
LEMMA EnableWatchIs ==
  ASSUME NEW c \in Client, WatchInv(c), ~IsStarted(c, "listen"), ~c.blocked
  PROVE  LET d == EnableWatch(c) IN
         /\ WatchStep(c, d) /\ WatchInv(d) /\ d.target = c.target
         /\ d.chan = c.chan /\ ~IsOpen(d, "listen")
         /\ IsStarted(d, "listen") <=> c.target.on
         /\ d.agg \in {c.agg, NoAgg}
<1> DEFINE b == Inhibit(c, "listen")
<1>1. "listen" \in Streams
  BY DEF Streams
<1>2. /\ StreamStep(c, b, "listen") /\ StreamInv(b, "listen")
      /\ b.stream["listen"].state = "initial" /\ b.chan = c.chan
  BY <1>1, InhibitIs DEF WatchInv
<1>3. /\ b \in Client /\ CurrentInv(b) /\ b.target = c.target /\ ~b.blocked
      /\ WatchStep(c, b) /\ b.agg = c.agg
      /\ ~IsStarted(b, "listen") /\ b.online # "Online"
  BY <1>2, StreamStepIs DEF StreamStep, WatchInv, CurrentInv, IsStarted, IsOpen
<1>4. EnableWatch(c) = IF ShouldStartWatch(b) THEN StartWatch(b) ELSE SetOnline(b, "Unknown")
  BY DEF EnableWatch
<1> HIDE DEF b
<1>5. CASE c.target.on
  <2>1. EnableWatch(c) = StartWatch(b)
    BY <1>3, <1>4, <1>5 DEF ShouldStartWatch
  <2>2. /\ WatchStep(b, StartWatch(b)) /\ WatchInv(StartWatch(b))
        /\ StartWatch(b).agg = NoAgg /\ StartWatch(b).target = b.target
        /\ StartWatch(b).chan = b.chan /\ IsStarted(StartWatch(b), "listen")
        /\ ~IsOpen(StartWatch(b), "listen")
    BY <1>2, <1>3, StartWatchIs
  <2>3. WatchStep(c, StartWatch(b))
    BY <1>3, <2>2, WatchStepTrans
  <2> QED BY <1>2, <1>3, <1>5, <2>1, <2>2, <2>3
<1>6. CASE ~c.target.on
  <2> DEFINE d == SetOnline(b, "Unknown")
  <2>1. EnableWatch(c) = d
    BY <1>3, <1>4, <1>6 DEF ShouldStartWatch
  <2>2. OnlineStep(b, d) /\ CurrentInv(d) /\ d.online = "Unknown"
    BY <1>3, SetOnlineIs DEF OnlineState
  <2>3. /\ StreamInv(d, "listen") /\ d.stream = b.stream /\ d.chan = b.chan
        /\ d.agg = b.agg /\ d.target = b.target /\ d \in Client
    BY <1>2, <1>3, <2>2, OnlineStepKeeps
  <2>4. WatchStep(c, d)
    BY <1>3, <2>2, OnlineIsWatchStep, WatchStepTrans
  <2>5. ~IsStarted(d, "listen") /\ ~IsOpen(d, "listen")
    BY <1>3, <2>3 DEF IsStarted, IsOpen
  <2> HIDE DEF d
  <2> QED BY <1>2, <1>3, <1>6, <2>1, <2>2, <2>3, <2>4, <2>5 DEF WatchInv
<1> QED BY <1>5, <1>6

-----------------------------------------------------------------------------
(* The listen side's tasks.                                                *)

\* The stream opens: its target is asked for.
LEMMA OpenListenIs ==
  ASSUME NEW c \in Client, WatchInv(c), c.stream["listen"].state = "starting",
         Live(c, "listen") = {}
  PROVE  LET d == OnOpen(c, "listen") IN
         /\ WatchStep(c, d) /\ WatchInv(d) /\ IsOpen(d, "listen")
         /\ d.target = c.target
         /\ d.stream["listen"].closes = c.stream["listen"].closes
         /\ d.chan["listen"].gen = c.chan["listen"].gen
         /\ ~c.target.on => d.agg = c.agg /\ d.chan["listen"].out = <<>>
         /\ c.target.on =>
              d.agg = [(IF c.agg.on THEN c.agg ELSE NewTarget) EXCEPT !.pending = @ + 1]
         /\ d.chan["listen"].out \in
              {<<>>, <<[kind |-> "add", version |-> c.target.token]>>}
<1> DEFINE b == [c EXCEPT !.stream["listen"].state = "open"]
           d == OnOpen(c, "listen")
<1>1. "listen" \in Streams
  BY DEF Streams
<1>2. /\ b \in Client /\ b.stream["listen"].state = "open"
      /\ b.stream["listen"].closes = c.stream["listen"].closes
      /\ b.stream["write"] = c.stream["write"]
      /\ b.chan = c.chan /\ b.timers = c.timers /\ b.queue = c.queue
      /\ b.online = c.online /\ b.view = c.view /\ b.target = c.target /\ b.agg = c.agg
  <2> DEFINE rec == [c.stream["listen"] EXCEPT !.state = "open"]
             strs == [c.stream EXCEPT !["listen"] = rec]
  <2>1. rec \in StreamSet /\ rec.state = "open" /\ rec.closes = c.stream["listen"].closes
    BY <1>1, ChannelTypes DEF Client, StreamSet, StreamState
  <2>2. /\ strs \in [Streams -> StreamSet] /\ strs["listen"] = rec
        /\ strs["write"] = c.stream["write"]
    BY <1>1, <2>1 DEF Client, Streams
  <2>3. b = [c EXCEPT !.stream = strs]
    BY <1>1 DEF Client
  <2> HIDE DEF b, rec, strs
  <2> QED BY <2>1, <2>2, <2>3 DEF Client
<1>3. StreamStep(c, b, "listen")
  BY <1>1, <1>2, QuieterSame DEF StreamStep, Client
<1>4. WatchStep(c, b) /\ IsOpen(b, "listen") /\ CurrentInv(b)
  BY <1>2, <1>3, StreamStepIs DEF IsOpen, WatchInv, CurrentInv
<1>5. Live(b, "listen") = {} /\ Ticks(b, "listen") = Ticks(c, "listen")
  BY <1>2 DEF Live, Ticks
<1>6. StreamInv(b, "listen") /\ c.chan["listen"].out = <<>>
  BY <1>2, <1>5 DEF StreamInv, WatchInv
<1>7. WatchInv(b)
  BY <1>4, <1>6 DEF WatchInv
<1>8. d = IF b.target.on THEN SendWatchRequest(b) ELSE b
  BY DEF OnOpen, OnWatchOpen
<1> HIDE DEF b, d
<1>9. CASE ~c.target.on
  BY <1>2, <1>4, <1>6, <1>7, <1>8, <1>9 DEF d
<1>10. CASE c.target.on
  <2> DEFINE e == SendWatchRequest(b)
             msg == [kind |-> "add", version |-> c.target.token]
  <2>1. d = e
    BY <1>2, <1>8, <1>10
  <2>2. /\ WatchStep(b, e) /\ WatchInv(e) /\ e.stream = b.stream
        /\ e.agg = [(IF b.agg.on THEN b.agg ELSE NewTarget) EXCEPT !.pending = @ + 1]
        /\ e.target = b.target
        /\ e.chan["listen"].gen = b.chan["listen"].gen
        /\ e.chan["listen"].out =
             IF b.chan["listen"].gen = 0 THEN b.chan["listen"].out
             ELSE b.chan["listen"].out \o <<[kind |-> "add", version |-> b.target.token]>>
    BY <1>2, <1>4, <1>7, SendWatchRequestIs
  <2>3. WatchStep(c, e)
    BY <1>2, <1>4, <2>2, WatchStepTrans
  <2>4. <<>> \o <<msg>> = <<msg>>
    BY DEF msg
  <2> HIDE DEF e
  <2> QED BY <1>2, <1>4, <1>6, <1>10, <2>1, <2>2, <2>3, <2>4 DEF IsOpen, d
<1> QED BY <1>9, <1>10

\* The page listens: a view of the cache, a target, the first snapshot.
LEMMA OnSnapshotIs ==
  ASSUME NEW c \in Client, WatchInv(c), ~c.blocked, ~c.target.on,
         ~IsStarted(c, "listen"), ~c.listener.on
  PROVE  LET d == OnSnapshot(c) IN
         /\ ListenStep(c, d) /\ WatchInv(d)
         /\ d.agg = NoAgg /\ d.chan = c.chan /\ IsStarted(d, "listen") /\ ~IsOpen(d, "listen")
         /\ d.target.on /\ d.target.token = c.target.token
         /\ d.doc = c.doc /\ d.lastSnapshot = c.lastSnapshot /\ d.failed = c.failed
         /\ d.view.on /\ d.view.synced = c.view.synced
         /\ d.view.doc = ViewDoc(c.view, IF IsFound(c.doc) THEN {c.doc} ELSE {})
         /\ d.view.current => c.view.current
         /\ d.listener.on
         /\ d.shown = c.shown \/ d.shown = d.view.doc.note
<1> DEFINE docs == IF IsFound(c.doc) THEN {c.doc} ELSE {}
           b == InitializeView(c)
           e == RemoteStoreListen(b)
           f == [e EXCEPT !.listener.on = TRUE]
           d == OnViewSnapshot(f, IsFound(e.view.doc))
<1>1. docs \in SUBSET DocSet /\ NoChange \in ChangeSet /\ TRUE \in BOOLEAN
  BY NoChangeType DEF Client
<1>2. /\ ViewStep(c, b) /\ b.view.on /\ b.view.doc = ViewDoc(c.view, docs)
      /\ b.view.synced = c.view.synced /\ b.view.current = c.view.current
      /\ b.listener.on = c.listener.on
      /\ b.shown = c.shown \/ (b.listener.on /\ b.shown = b.view.doc.note)
  <2>1. b = ApplyViewChanges(c, docs, NoChange, TRUE)
    BY DEF InitializeView
  <2> HIDE DEF docs, b
  <2>2. LET g == ApplyViewChanges(c, docs, NoChange, TRUE) IN
        /\ ViewStep(c, g)
        /\ g.view.on /\ g.view.doc = ViewDoc(c.view, docs)
        /\ g.view.synced = (CASE NoChange.docs = "added"   -> TRUE
                              [] NoChange.docs = "removed" -> FALSE
                              [] OTHER                     -> c.view.synced)
        /\ g.view.current = (CASE NoChange.state = "current"     -> TRUE
                               [] NoChange.state = "not current" -> FALSE
                               [] OTHER                          -> c.view.current)
        /\ g.listener.on = c.listener.on
        /\ (g.shown = c.shown \/ (g.listener.on /\ g.shown = g.view.doc.note))
    BY <1>1, ViewChangesAre
  <2> QED BY <2>1, <2>2, NoChangeType
<1> HIDE DEF docs, b
<1>3. /\ b \in Client /\ WatchInv(b) /\ ~b.blocked /\ ~b.target.on
      /\ ~IsStarted(b, "listen") /\ ListenStep(c, b)
  <2>1. WatchInv(b)
    BY <1>2 DEF ViewStep, WatchInv, StreamInv, Live, Ticks, IsOpen, CurrentInv
  <2> QED BY <1>2, <2>1, ViewIsListenStep DEF ViewStep, IsStarted, IsOpen
<1>4. /\ WatchStep(b, e) /\ WatchInv(e) /\ e.target.on /\ IsStarted(e, "listen")
      /\ e.agg = NoAgg /\ e.chan = b.chan /\ ~IsOpen(e, "listen")
  BY <1>3, RemoteStoreListenIs
<1> HIDE DEF e
<1>5. e \in Client
  BY <1>4 DEF WatchStep, ListenStep
<1>6. /\ f \in Client /\ f.listener.on /\ ViewStep(e, f) /\ f.view = e.view /\ f.shown = e.shown
  BY <1>5 DEF ViewStep, Client, ListenerSet
<1> HIDE DEF f
<1>7. ShownStep(f, d)
  <2>1. IsFound(e.view.doc) \in BOOLEAN
    BY DEF IsFound
  <2> QED BY <1>6, <2>1, ViewSnapshotIs
<1>8. ViewStep(e, d) /\ d.view = e.view /\ d.listener.on
      /\ (d.shown = e.shown \/ d.shown = e.view.doc.note)
  BY <1>6, <1>7 DEF ShownStep, ViewStep
<1>9. OnSnapshot(c) = d
  BY DEF OnSnapshot, AttachListener, b, e, f
<1> HIDE DEF d
<1>10. ListenStep(c, d)
  BY <1>3, <1>4, <1>5, <1>8, ViewIsListenStep, ListenStepTrans DEF WatchStep
<1>11. WatchInv(d)
  BY <1>4, <1>8 DEF ViewStep, WatchInv, StreamInv, Live, Ticks, IsOpen, CurrentInv
<1> QED BY <1>2, <1>4, <1>8, <1>9, <1>10, <1>11, ZenonT(30) DEF WatchStep, ViewStep, IsStarted, IsOpen, docs

-----------------------------------------------------------------------------
(* The watch stream's messages.                                            *)

\* Any message makes the client online.
LEMMA OnlineNow ==
  ASSUME NEW c \in Client, WatchInv(c), IsOpen(c, "listen")
  PROVE  LET live == SetOnline(c, "Online") IN
         /\ OnlineStep(c, live) /\ WatchInv(live) /\ live.online = "Online"
         /\ live.stream = c.stream /\ live.chan = c.chan /\ live.agg = c.agg
         /\ live.target = c.target /\ live \in Client /\ IsOpen(live, "listen")
<1>1. OnlineStep(c, SetOnline(c, "Online")) /\ CurrentInv(SetOnline(c, "Online"))
      /\ SetOnline(c, "Online").online = "Online"
  BY SetOnlineIs DEF WatchInv, OnlineState
<1> QED BY <1>1, OnlineStepKeeps DEF WatchInv, IsOpen

\* The aggregator takes a change's token when it has one.
LEMMA UpdateTokenIs ==
  ASSUME NEW agg \in AggSet, NEW token \in Nat
  PROVE  /\ UpdateToken(agg, token) \in AggSet
         /\ UpdateToken(agg, token).on = agg.on
         /\ UpdateToken(agg, token).pending = agg.pending
         /\ UpdateToken(agg, token).current = agg.current
         /\ UpdateToken(agg, token).change = agg.change
         /\ UpdateToken(agg, token).doc = agg.doc
         /\ UpdateToken(agg, token).token = IF token = 0 THEN agg.token ELSE token
         /\ agg.dirty => UpdateToken(agg, token).dirty
         /\ token > 0 => UpdateToken(agg, token).dirty
<1>1. CASE token = 0
  BY <1>1 DEF UpdateToken
<1>2. CASE token # 0
  <2> DEFINE a == [agg EXCEPT !.token = token, !.dirty = TRUE]
  <2>1. UpdateToken(agg, token) = a
    BY <1>2 DEF UpdateToken
  <2>2. a \in AggSet /\ a.on = agg.on /\ a.pending = agg.pending
        /\ a.current = agg.current /\ a.change = agg.change /\ a.doc = agg.doc
        /\ a.token = token /\ a.dirty
    BY DEF AggSet
  <2> HIDE DEF a
  <2> QED BY <1>2, <2>1, <2>2
<1> QED BY <1>1, <1>2

\* What each message makes of the aggregator.
AggAfter(c, msg) ==
  CASE msg.kind = "added" ->
         IF c.agg.pending > 1 THEN [c.agg EXCEPT !.pending = @ - 1]
         ELSE UpdateToken([c.agg EXCEPT !.pending = 0, !.dirty = FALSE,
                                        !.change = "none"], msg.version)
    [] msg.kind = "doc" ->
         IF ~IsActiveTarget(c) THEN c.agg
         ELSE [c.agg EXCEPT !.doc = Doc("found", msg.version, msg.note, FALSE),
                            !.dirty = TRUE,
                            !.change = IF c.view.synced THEN "modified" ELSE "added"]
    [] msg.kind = "current" ->
         IF ~IsActiveTarget(c) THEN c.agg
         ELSE UpdateToken([c.agg EXCEPT !.current = TRUE, !.dirty = TRUE], msg.version)
    [] msg.kind = "reset" ->
         IF ~IsActiveTarget(c) THEN c.agg
         ELSE [NewTarget EXCEPT !.change = IF c.view.synced THEN "removed" ELSE "none",
                                !.doc    = c.agg.doc]
    [] msg.kind = "snapshot" ->
         IF ~c.agg.on \/ ~IsActiveTarget(c) THEN c.agg
         ELSE UpdateToken(c.agg, msg.version)

\* The aggregator after a change has its type.
LEMMA AggAfterType ==
  ASSUME NEW c \in Client, NEW msg \in WatchMsg, msg.kind # "refused",
         msg.kind = "added" => c.agg.pending # 0
  PROVE  AggAfter(c, msg) \in AggSet
<1>1. c.agg \in AggSet /\ msg.version \in Nat /\ msg.note \in Nat /\ NewTarget \in AggSet
      /\ c.agg.doc \in DocSet /\ c.agg.pending \in Nat
  BY AddRequestType DEF Client, WatchMsg, AggSet
<1>2. CASE msg.kind = "added"
  <2>1. [c.agg EXCEPT !.pending = 0, !.dirty = FALSE, !.change = "none"] \in AggSet
    BY <1>1 DEF AggSet, TargetChange
  <2>2. c.agg.pending > 1 => [c.agg EXCEPT !.pending = @ - 1] \in AggSet
    BY <1>1 DEF AggSet
  <2> QED BY <1>1, <1>2, <2>1, <2>2, UpdateTokenIs DEF AggAfter
<1>3. CASE msg.kind = "doc"
  <2>1. Doc("found", msg.version, msg.note, FALSE) \in DocSet
    BY <1>1 DEF Doc, DocSet
  <2>2. [c.agg EXCEPT !.doc = Doc("found", msg.version, msg.note, FALSE), !.dirty = TRUE,
                      !.change = IF c.view.synced THEN "modified" ELSE "added"] \in AggSet
    BY <1>1, <2>1 DEF AggSet, TargetChange
  <2> QED BY <1>1, <1>3, <2>2 DEF AggAfter
<1>4. CASE msg.kind = "current"
  <2>1. [c.agg EXCEPT !.current = TRUE, !.dirty = TRUE] \in AggSet
    BY <1>1 DEF AggSet
  <2> QED BY <1>1, <1>4, <2>1, UpdateTokenIs DEF AggAfter
<1>5. CASE msg.kind = "reset"
  <2>1. [NewTarget EXCEPT !.change = IF c.view.synced THEN "removed" ELSE "none",
                          !.doc = c.agg.doc] \in AggSet
    BY <1>1 DEF AggSet, TargetChange
  <2> QED BY <1>1, <1>5, <2>1 DEF AggAfter
<1>6. CASE msg.kind = "snapshot"
  BY <1>1, <1>6, UpdateTokenIs DEF AggAfter
<1> QED BY <1>2, <1>3, <1>4, <1>5, <1>6 DEF WatchMsg

\* Messages that only the aggregator hears.
LEMMA GatherIs ==
  ASSUME NEW c \in Client, NEW msg \in WatchMsg,
         msg.kind = "added" => c.agg.pending # 0
  PROVE  /\ msg.kind = "added" =>
              TargetAdded(c, msg.version) = [c EXCEPT !.agg = AggAfter(c, msg)]
         /\ msg.kind = "doc" =>
              DocumentChanged(c, Doc("found", msg.version, msg.note, FALSE))
                = [c EXCEPT !.agg = AggAfter(c, msg)]
         /\ msg.kind = "current" =>
              TargetCurrent(c, msg.version) = [c EXCEPT !.agg = AggAfter(c, msg)]
         /\ msg.kind = "reset" =>
              TargetReset(c, 0) = [c EXCEPT !.agg = AggAfter(c, msg)]
         /\ msg.kind = "snapshot" =>
              TargetUnchanged(c, msg.version) = [c EXCEPT !.agg = AggAfter(c, msg)]
<1>1. [c EXCEPT !.agg = c.agg] = c
  BY DEF Client
<1>2. CASE msg.kind = "added"
  <2>1. CASE c.agg.pending > 1
    <3>1. AggAfter(c, msg) = [c.agg EXCEPT !.pending = @ - 1]
      BY <1>2, <2>1 DEF AggAfter
    <3> QED BY <1>2, <2>1, <3>1 DEF TargetAdded
  <2>2. CASE ~(c.agg.pending > 1)
    <3>1. AggAfter(c, msg) = UpdateToken([c.agg EXCEPT !.pending = 0, !.dirty = FALSE,
                                        !.change = "none"], msg.version)
      BY <1>2, <2>2 DEF AggAfter
    <3> QED BY <1>2, <2>2, <3>1 DEF TargetAdded
  <2> QED BY <2>1, <2>2
<1>3. CASE msg.kind = "doc"
  <2>1. CASE IsActiveTarget(c)
    <3>1. AggAfter(c, msg) = [c.agg EXCEPT !.doc = Doc("found", msg.version, msg.note, FALSE),
                            !.dirty = TRUE,
                            !.change = IF c.view.synced THEN "modified" ELSE "added"]
      BY <1>3, <2>1 DEF AggAfter
    <3> QED BY <1>3, <2>1, <3>1 DEF DocumentChanged, Client
  <2>2. CASE ~IsActiveTarget(c)
    BY <1>1, <1>3, <2>2 DEF AggAfter, DocumentChanged
  <2> QED BY <2>1, <2>2
<1>4. CASE msg.kind = "current"
  BY <1>1, <1>4 DEF AggAfter, TargetCurrent
<1>5. CASE msg.kind = "reset"
  <2> DEFINE a == [NewTarget EXCEPT !.change = IF c.view.synced THEN "removed" ELSE "none",
                                    !.doc    = c.agg.doc]
  <2>1. UpdateToken(a, 0) = a
    BY DEF UpdateToken
  <2> QED BY <1>1, <1>5, <2>1 DEF AggAfter, TargetReset
<1>6. CASE msg.kind = "snapshot"
  BY <1>1, <1>6 DEF AggAfter, TargetUnchanged
<1> QED BY <1>2, <1>3, <1>4, <1>5, <1>6 DEF WatchMsg

\* What a snapshot takes from the aggregator, the aggregator has.
LEMMA RemoteEventIs ==
  ASSUME NEW c \in Client, NEW version \in Nat
  PROVE  LET event == RemoteEvent(c, version)
             absent == /\ IsActiveTarget(c) /\ c.agg.current
                       /\ ~IsValid(c.agg.doc) /\ ~c.view.synced
             dirty  == IsActiveTarget(c) /\ (c.agg.dirty \/ absent) IN
         /\ event.version = version
         /\ event.doc = IF absent THEN Doc("no", version, 0, FALSE) ELSE c.agg.doc
         /\ event.doc \in DocSet
         /\ event.token = IF dirty THEN c.agg.token ELSE 0
         /\ event.token \in Nat
         /\ event.change = IF dirty
              THEN [docs |-> c.agg.change,
                    state |-> IF c.agg.current THEN "current" ELSE "not current"]
              ELSE NoChange
         /\ event.change \in ChangeSet
<1> DEFINE absent == /\ IsActiveTarget(c) /\ c.agg.current
                     /\ ~IsValid(c.agg.doc) /\ ~c.view.synced
           dirty  == IsActiveTarget(c) /\ (c.agg.dirty \/ absent)
           doc    == IF absent THEN Doc("no", version, 0, FALSE) ELSE c.agg.doc
           token  == IF dirty THEN c.agg.token ELSE 0
           change == IF dirty
              THEN [docs |-> c.agg.change,
                    state |-> IF c.agg.current THEN "current" ELSE "not current"]
              ELSE NoChange
<1>1. c.agg.doc \in DocSet /\ c.agg.token \in Nat /\ c.agg.change \in TargetChange
  BY DEF Client, AggSet
<1>2. Doc("no", version, 0, FALSE) \in DocSet
  BY DEF Doc, DocSet
<1>3. doc \in DocSet /\ token \in Nat
  BY <1>1, <1>2
<1>4. [docs |-> c.agg.change,
       state |-> IF c.agg.current THEN "current" ELSE "not current"] \in ChangeSet
  BY <1>1 DEF ChangeSet
<1>5. change \in ChangeSet
  BY <1>4, NoChangeType
<1>6. RemoteEvent(c, version) = [version |-> version, doc |-> doc, token |-> token, change |-> change]
  BY DEF RemoteEvent
<1> HIDE DEF doc, token, change
<1>7. /\ RemoteEvent(c, version).version = version /\ RemoteEvent(c, version).doc = doc
      /\ RemoteEvent(c, version).token = token /\ RemoteEvent(c, version).change = change
  BY <1>6
<1> QED BY <1>3, <1>5, <1>7 DEF doc, token, change

\* A snapshot goes to the cache, the view and the page, in this order.
LEMMA RaiseWatchIs ==
  ASSUME NEW c \in Client, NEW version \in Nat
  PROVE  LET d == RaiseWatchSnapshot(c, version)
             event == RemoteEvent(c, version) IN
         /\ ListenStep(c, d)
         /\ d.stream = c.stream /\ d.chan = c.chan /\ d.queue = c.queue
         /\ d.timers = c.timers /\ d.online = c.online /\ d.failed = c.failed
         /\ d.agg = [c.agg EXCEPT !.dirty = FALSE, !.change = "none", !.doc = InvalidDoc]
         /\ d.target.on = c.target.on
         /\ d.target.token = IF event.token = 0 THEN c.target.token ELSE event.token
         /\ d.lastSnapshot = version
         /\ d.doc = IF Updates(c, event) = {} THEN c.doc ELSE event.doc
         /\ d.listener.on = c.listener.on
         /\ c.view.on =>
              /\ d.view.on /\ d.view.doc = ViewDoc(c.view, Updates(c, event))
              /\ d.view.synced = (CASE event.change.docs = "added"   -> TRUE
                                    [] event.change.docs = "removed" -> FALSE
                                    [] OTHER                         -> c.view.synced)
              /\ d.view.current = (CASE event.change.state = "current"     -> TRUE
                                     [] event.change.state = "not current" -> FALSE
                                     [] OTHER                              -> c.view.current)
              /\ (d.shown = c.shown \/ (d.listener.on /\ d.shown = d.view.doc.note))
         /\ ~c.view.on => d.view = c.view /\ d.shown = c.shown
<1> DEFINE event == RemoteEvent(c, version)
           ups == Updates(c, event)
           agg == [c.agg EXCEPT !.dirty = FALSE, !.change = "none", !.doc = InvalidDoc]
           tok == IF event.token = 0 THEN c.target.token ELSE event.token
           spent == [c EXCEPT !.agg.dirty = FALSE, !.agg.change = "none",
                         !.agg.doc = InvalidDoc,
                         !.target.token = IF event.token = 0 THEN @ ELSE event.token]
           k == CacheRemoteEvent(spent, event)
           d == RaiseWatchSnapshot(c, version)
<1>1. event.doc \in DocSet /\ event.token \in Nat /\ event.change \in ChangeSet
      /\ event.version = version
  BY RemoteEventIs
<1> HIDE DEF event
<1>2. agg \in AggSet /\ tok \in Nat /\ c.target \in [on : BOOLEAN, token : Nat]
  <2>1. InvalidDoc \in DocSet
    BY DEF InvalidDoc, Doc, DocSet
  <2> QED BY <1>1, <2>1 DEF Client, AggSet, TargetChange
<1>3. spent = [c EXCEPT !.agg = agg, !.target = [c.target EXCEPT !.token = tok]]
  BY DEF Client, AggSet
<1> HIDE DEF agg, tok, spent
<1>4. /\ spent \in Client /\ spent.agg = agg /\ spent.target.on = c.target.on
      /\ spent.target.token = tok /\ spent.doc = c.doc /\ spent.view = c.view
      /\ spent.queue = c.queue /\ spent.stream = c.stream /\ spent.chan = c.chan
      /\ spent.timers = c.timers /\ spent.online = c.online /\ spent.failed = c.failed
      /\ spent.listener = c.listener /\ spent.shown = c.shown
  BY <1>2, <1>3 DEF Client
<1>5. ListenStep(c, spent)
  BY <1>3, <1>4, QuieterSame DEF ListenStep, WriteFields, Client
<1>6. ups \in SUBSET DocSet
  BY <1>1 DEF Updates
<1>7. Updates(spent, event) = ups
  BY <1>4 DEF Updates
<1>8. k = [spent EXCEPT !.lastSnapshot = version,
                        !.doc = IF ups = {} THEN c.doc ELSE event.doc]
  BY <1>1, <1>4, <1>7 DEF CacheRemoteEvent
<1> HIDE DEF k, ups
<1>9. /\ k \in Client /\ k.lastSnapshot = version
      /\ k.doc = (IF ups = {} THEN c.doc ELSE event.doc)
      /\ k.agg = agg /\ k.target = spent.target /\ k.view = c.view
      /\ k.queue = c.queue /\ k.stream = c.stream /\ k.chan = c.chan
      /\ k.timers = c.timers /\ k.online = c.online /\ k.failed = c.failed
      /\ k.listener = c.listener /\ k.shown = c.shown
  BY <1>1, <1>4, <1>8 DEF Client
<1>10. ListenStep(spent, k)
  BY <1>4, <1>8, <1>9, QuieterSame DEF ListenStep, WriteFields, Client
<1>11. ListenStep(c, k)
  BY <1>4, <1>5, <1>10, ListenStepTrans
<1>12. d = EmitNewSnaps(k, ups, event.change)
  BY <1>7 DEF RaiseWatchSnapshot, ApplyRemoteEvent, spent, event, k
<1> HIDE DEF d
<1>13. CASE c.view.on
  <2> DEFINE e == ApplyViewChanges(k, ups, event.change, FALSE)
  <2>1. d = e
    BY <1>9, <1>12, <1>13 DEF EmitNewSnaps
  <2>2. /\ ViewStep(k, e)
        /\ e.view.on /\ e.view.doc = ViewDoc(k.view, ups)
        /\ e.view.synced = (CASE event.change.docs = "added"   -> TRUE
                              [] event.change.docs = "removed" -> FALSE
                              [] OTHER                         -> k.view.synced)
        /\ e.view.current = (CASE event.change.state = "current"     -> TRUE
                               [] event.change.state = "not current" -> FALSE
                               [] OTHER                              -> k.view.current)
        /\ e.listener.on = k.listener.on
        /\ (e.shown = k.shown \/ (e.listener.on /\ e.shown = e.view.doc.note))
    <3>1. FALSE \in BOOLEAN
      OBVIOUS
    <3> QED BY <1>1, <1>6, <1>9, <3>1, ViewChangesAre
  <2>3. ListenStep(k, e)
    BY <1>9, <2>2, ViewIsListenStep
  <2>4. ListenStep(c, e)
    BY <1>9, <1>11, <2>3, ListenStepTrans
  <2> HIDE DEF e
  <2>5. /\ ListenStep(c, d)
        /\ d.stream = c.stream /\ d.chan = c.chan /\ d.queue = c.queue
        /\ d.timers = c.timers /\ d.online = c.online /\ d.failed = c.failed
        /\ d.agg = agg /\ d.target.on = c.target.on /\ d.target.token = tok
        /\ d.lastSnapshot = version
        /\ d.doc = (IF ups = {} THEN c.doc ELSE event.doc)
        /\ d.listener.on = c.listener.on
    BY <1>4, <1>9, <2>1, <2>2, <2>4 DEF ViewStep
  <2>6. /\ d.view.on /\ d.view.doc = ViewDoc(c.view, ups)
        /\ d.view.synced = (CASE event.change.docs = "added"   -> TRUE
                              [] event.change.docs = "removed" -> FALSE
                              [] OTHER                         -> c.view.synced)
        /\ d.view.current = (CASE event.change.state = "current"     -> TRUE
                               [] event.change.state = "not current" -> FALSE
                               [] OTHER                              -> c.view.current)
        /\ (d.shown = c.shown \/ (d.listener.on /\ d.shown = d.view.doc.note))
    BY <1>9, <2>1, <2>2
  <2> QED BY <1>13, <2>5, <2>6 DEF ups, d, event, agg, tok
<1>14. CASE ~c.view.on
  <2>1. d = k
    BY <1>9, <1>12, <1>14 DEF EmitNewSnaps
  <2> QED BY <1>4, <1>9, <1>11, <1>14, <2>1 DEF ups, d, event, agg, tok
<1> QED BY <1>13, <1>14

\* The server refused the target: the view, its listener and the target go.
LEMMA TargetErrorIs ==
  ASSUME NEW c \in Client
  PROVE  LET d == TargetError(c) IN
         /\ ListenStep(c, d)
         /\ d.stream = c.stream /\ d.chan = c.chan /\ d.queue = c.queue
         /\ d.timers = c.timers /\ d.online = c.online /\ d.failed = c.failed
         /\ d.doc = c.doc /\ d.lastSnapshot = c.lastSnapshot /\ d.shown = c.shown
         /\ ~d.target.on /\ d.target.token = c.target.token
         /\ c.target.on => d.view = NoView /\ ~d.listener.on /\ d.agg = NoAgg
         /\ ~c.target.on => d = c
<1> DEFINE e == [c EXCEPT !.view = NoView, !.listener.on = FALSE,
                          !.target.on = FALSE, !.agg = NoAgg]
<1>1. NoView \in ViewSet /\ NoAgg \in AggSet
  BY AddRequestType DEF NoView, ViewSet, InvalidDoc, Doc, DocSet
<1>2. c.target.on => TargetError(c) = e
  BY DEF TargetError, RejectListen, RemoveAndCleanupTarget, WatchError
<1>3. /\ e \in Client /\ e.view = NoView /\ ~e.listener.on /\ ~e.target.on /\ e.agg = NoAgg
      /\ e.target.token = c.target.token
      /\ e.queue = c.queue /\ e.stream = c.stream /\ e.chan = c.chan
      /\ e.timers = c.timers /\ e.online = c.online /\ e.failed = c.failed
      /\ e.doc = c.doc /\ e.lastSnapshot = c.lastSnapshot /\ e.shown = c.shown
  BY <1>1 DEF Client, ListenerSet
<1>4. ListenStep(c, e)
  BY <1>3, QuieterSame DEF ListenStep, WriteFields, Client
<1>5. ~c.target.on => TargetError(c) = c
  BY DEF TargetError
<1> HIDE DEF e
<1> QED BY <1>2, <1>3, <1>4, <1>5, StepsReflexive

\* A message, whatever it says, keeps the watch stream's invariant.
LEMMA WatchChangeKeeps ==
  ASSUME NEW c \in Client, WatchInv(c), IsOpen(c, "listen"), NEW msg \in WatchMsg
  PROVE  LET d == OnWatchChange(c, msg) IN
         /\ ListenStep(c, d) /\ WatchInv(d) /\ d.stream = c.stream /\ d.chan = c.chan
         /\ d.target.on => c.target.on
         /\ d.failed => c.failed \/ d.queue = <<>>
<1> DEFINE live == SetOnline(c, "Online")
           d == OnWatchChange(c, msg)
<1>1. /\ OnlineStep(c, live) /\ WatchInv(live) /\ live.online = "Online"
      /\ live.stream = c.stream /\ live.chan = c.chan /\ live.agg = c.agg
      /\ live.target = c.target /\ live \in Client /\ IsOpen(live, "listen")
      /\ ListenStep(c, live)
  BY OnlineNow, OnlineIsListenStep
<1>2. msg.version \in Nat
  BY DEF WatchMsg
<1> HIDE DEF live
<1>3. ASSUME NEW e, ListenStep(live, e), e.stream = live.stream, e.chan = live.chan,
             e.online = live.online, e.timers["listen"] = live.timers["listen"],
             e.view.current => e.view.on, e.target.on => live.target.on,
             e.failed => live.failed \/ e.queue = <<>>
      PROVE  /\ ListenStep(c, e) /\ WatchInv(e) /\ e.stream = c.stream /\ e.chan = c.chan
             /\ e.target.on => c.target.on
             /\ e.failed => c.failed \/ e.queue = <<>>
  <2>1. ListenStep(c, e)
    BY <1>1, <1>3, ListenStepTrans
  <2>2. StreamInv(e, "listen")
    BY <1>1, <1>3, StreamInvKept DEF ListenStep, WatchInv, Streams
  <2>3. CurrentInv(e) /\ IsOpen(e, "listen")
    BY <1>1, <1>3 DEF CurrentInv, IsOpen
  <2>4. live.failed = c.failed
    BY <1>1 DEF OnlineStep
  <2> QED BY <1>1, <1>3, <2>1, <2>2, <2>3, <2>4 DEF WatchInv
<1>4. live.view.current => live.view.on
  BY <1>1 DEF WatchInv, CurrentInv
<1>5. CASE msg.kind = "added" /\ c.agg.pending = 0
  <2>1. d = Fail(live)
    BY <1>1, <1>5 DEF OnWatchChange, TargetAdded, live
  <2>2. /\ Fail(live) \in Client /\ Fail(live).queue = <<>>
        /\ Fail(live).stream = live.stream /\ Fail(live).chan = live.chan
        /\ Fail(live).online = live.online /\ Fail(live).timers = live.timers
        /\ Fail(live).view = live.view /\ Fail(live).target = live.target
        /\ Fail(live).batches = live.batches /\ Fail(live).pipeline = live.pipeline
        /\ Fail(live).wrote = live.wrote /\ Fail(live).blocked = live.blocked
        /\ Fail(live).listens = live.listens
    BY <1>1, EmptyQueue DEF Fail, Client
  <2>3. Quieter(live.queue, <<>>)
    BY EmptyQueue DEF Quieter
  <2>4. Fail(live).failed
    BY <1>1 DEF Fail, Client
  <2>5. ListenStep(live, Fail(live))
    BY <2>2, <2>3, <2>4 DEF ListenStep, WriteFields
  <2> HIDE DEF d
  <2> QED BY <1>3, <1>4, <2>1, <2>2, <2>5 DEF d
<1>6. CASE msg.kind \in {"added", "doc", "current", "reset"}
           /\ (msg.kind = "added" => c.agg.pending # 0)
  <2> DEFINE e == [live EXCEPT !.agg = AggAfter(live, msg)]
  <2>1. AggAfter(live, msg) \in AggSet
    BY <1>1, <1>6, AggAfterType
  <2>2. d = e
    BY <1>1, <1>6, GatherIs DEF OnWatchChange, live
  <2>3. /\ WatchStep(live, e) /\ e.stream = live.stream /\ e.chan = live.chan
        /\ e.timers = live.timers /\ e.online = live.online /\ e.view = live.view
        /\ e.target = live.target
    BY <1>1, <2>1, AggStep
  <2> HIDE DEF d, e
  <2> QED BY <1>3, <1>4, <2>2, <2>3 DEF WatchStep, d
<1>7. CASE msg.kind = "refused"
  <2>1. d = TargetError(live)
    BY <1>7 DEF OnWatchChange, live
  <2>2. TargetError(live).view.current => TargetError(live).view.on
    <3>1. CASE live.target.on
      <4>1. TargetError(live).view = NoView
        BY <1>1, <3>1, TargetErrorIs
      <4> QED BY <4>1 DEF NoView
    <3>2. CASE ~live.target.on
      BY <1>1, <1>4, <3>2, TargetErrorIs
    <3> QED BY <3>1, <3>2
  <2> HIDE DEF d
  <2> QED BY <1>1, <1>3, <2>1, <2>2, TargetErrorIs DEF d
<1>8. CASE msg.kind = "snapshot"
  <2> DEFINE told == [live EXCEPT !.agg = AggAfter(live, msg)]
             e == RaiseWatchSnapshot(told, msg.version)
  <2>1. AggAfter(live, msg) \in AggSet
    BY <1>1, <1>8, AggAfterType
  <2>2. d \in {told, e}
    BY <1>1, <1>8, GatherIs DEF OnWatchChange, live
  <2>3. /\ WatchStep(live, told) /\ told.stream = live.stream /\ told.chan = live.chan
        /\ told.timers = live.timers /\ told.online = live.online /\ told.view = live.view
        /\ told.target = live.target /\ told \in Client
    BY <1>1, <2>1, AggStep
  <2> HIDE DEF told
  <2>4. /\ ListenStep(told, e) /\ e.stream = told.stream /\ e.chan = told.chan
        /\ e.timers = told.timers /\ e.online = told.online
        /\ e.target.on = told.target.on /\ e.failed = told.failed
        /\ told.view.on => e.view.on
        /\ ~told.view.on => e.view = told.view
    BY <1>2, <2>3, RaiseWatchIs
  <2>5. ListenStep(live, e)
    BY <1>1, <2>3, <2>4, ListenStepTrans DEF WatchStep
  <2>6. e.view.current => e.view.on
    BY <1>4, <2>3, <2>4
  <2> HIDE DEF d, e
  <2>7. CASE d = told
    BY <1>3, <1>4, <2>3, <2>7 DEF WatchStep, d
  <2>8. CASE d = e
    BY <1>3, <2>3, <2>4, <2>5, <2>6, <2>8 DEF WatchStep, d
  <2> QED BY <2>2, <2>7, <2>8
<1> QED BY <1>5, <1>6, <1>7, <1>8 DEF WatchMsg

=============================================================================
