-------------------------- MODULE FirestoreClient --------------------------
(***************************************************************************)
(* The Firestore client of the processing page, the server's document and  *)
(* the connections between them.  The page writes {listening: true} into   *)
(* the order's document, waits for the answer, and then listens to the     *)
(* document, into which the server writes its notes.                       *)
(*                                                                         *)
(* Everything the client does is a task of its AsyncQueue, run whole; the  *)
(* page, the timers and the connections add tasks to it.                   *)
(***************************************************************************)
EXTENDS FirestoreRemote

CONSTANTS
  MaxNotes,   \* notes the server writes into the document
  MaxFaults   \* connections that break, network changes the browser
              \* reports, targets the server starts over or refuses,
              \* writes it refuses

ASSUME ClientAssumption == MaxNotes \in Nat /\ MaxFaults \in Nat

VARIABLES
  client,   \* the client: queue, timers, streams, stores, view, listener
  server,   \* the document, and what the server has sent of it
  faults    \* faults still to come

vars == <<client, server, faults>>

TimerState  == {"off", "set", "elapsed"}
StreamState == {"initial", "starting", "open", "error", "backoff"}
Version     == 0..(MaxNotes + 1)

TypeOK ==
  /\ client.timers \in [Timers -> TimerState]
  /\ \A s \in Streams :
       /\ client.stream[s].state \in StreamState
       /\ client.stream[s].seen \in BOOLEAN
       /\ client.chan[s].gen \in 0..(client.stream[s].closes + 1)
  /\ client.online \in {"Unknown", "Online", "Offline"}
  /\ client.target \in [on : BOOLEAN, token : Version]
  /\ client.agg.change \in {"none", "added", "modified", "removed"}
  /\ client.shown \in 0..MaxNotes
  /\ client.wrote \in {"pending", "resolved", "rejected"}
  /\ client.blocked = FALSE
  /\ server.version \in Version /\ server.note \in 0..MaxNotes
  /\ server.feed \in [on : BOOLEAN, current : BOOLEAN, sent : Version, snap : Version]

\* The client has its components; the credentials' first task found no user.
\* The page has called setDoc, whose task is in the queue.
InitClient ==
  [queue    |-> <<Task("setDoc", "page", 0, "none")>>,
   failed   |-> FALSE,
   timers   |-> [t \in Timers |-> "off"],
   stream   |-> [s \in Streams |-> NewStream],
   chan     |-> [s \in Streams |-> NoChannel],
   online   |-> "Unknown", failures |-> 0,
   agg      |-> NoAgg,
   batches  |-> <<>>, wrote |-> "pending",
   doc      |-> InvalidDoc, lastSnapshot |-> 0,
   view     |-> NoView,
   listener |-> NewListener,
   listens  |-> FALSE, shown |-> 0,
   pipeline |-> NewRemote.pipeline, target |-> NewRemote.target,
   blocked  |-> NewRemote.blocked]

NoFeed == [on |-> FALSE, current |-> FALSE, sent |-> 0, snap |-> 0]

Init ==
  /\ client = InitClient
  /\ \E n \in {0, 1} \cap 0..MaxNotes :
       server = [version |-> n, note |-> n, listening |-> FALSE, stray |-> FALSE,
                 feed |-> NoFeed]
  /\ faults = MaxFaults

-----------------------------------------------------------------------------
(* The queue's tasks *)

SetDoc(c) == FillPipeline(WriteLocally(c, 1))

OnSnapshot(c) == AttachListener(RemoteStoreListen(InitializeView(c)))

OnOpen(c, s) ==
  LET open == [c EXCEPT !.stream[s].state = "open"]
  IN  IF s = "listen" THEN OnWatchOpen(open) ELSE OnWriteOpen(open)

OnConnected(c, s) == IF s = "listen" THEN SetOnline(c, "Online") ELSE c

OnMessage_NoHandshake(c, s, msg) ==
  LET seen == [c EXCEPT !.stream[s].seen = TRUE]
  IN  IF s = "listen" THEN OnWatchChange(seen, msg) ELSE OnMutationResult(seen, msg.version)

\* The first message of the write stream answers the handshake.
OnMessage(c, s, msg) ==
  LET seen == [c EXCEPT !.stream[s].seen = TRUE]
  IN  IF s = "listen" THEN OnWatchChange(seen, msg)
      ELSE IF ~c.stream[s].seen THEN OnHandshake(seen)
      ELSE OnMutationResult(seen, msg.version)

OnTimer(c, t) ==
  CASE t \in Streams -> Restart([c EXCEPT !.timers[t] = "off"], t)
    [] t = "online"  -> OnlineTimeout(c)
    [] t = "idle"    ->
         IF IsOpen(c, "write") THEN Close(c, "write", "initial", "none") ELSE c

OnStreamTask(c, task) ==
  IF ~Guarded(c, task) THEN c
  ELSE CASE task.kind = "open"      -> OnOpen(c, task.on)
         [] task.kind = "connected" -> OnConnected(c, task.on)
         [] task.kind = "close"     -> Close(c, task.on, "error", task.arg)
         [] task.kind = "message"   -> OnMessage(c, task.on, task.arg)

Perform(c, task) ==
  CASE task.kind = "setDoc"     -> SetDoc(c)
    [] task.kind = "onSnapshot" -> OnSnapshot(c)
    [] task.kind = "timer"      -> OnTimer(c, task.on)
    [] task.kind = "network"    -> RestartNetwork(c)
    [] task.kind = "cancelled"  -> c
    [] OTHER                    -> OnStreamTask(c, task)

\* A write under way on a channel that ends may still reach the server.
Writes(c) == {i \in 1..Len(c.chan["write"].out) : c.chan["write"].out[i].kind = "write"}

Leave(c) ==
  /\ client' = c
  /\ server' = [server EXCEPT
       !.stray = @ \/ (c.chan["write"].gen # client.chan["write"].gen /\ Writes(client) # {}),
       !.feed  = IF c.chan["listen"].gen # client.chan["listen"].gen THEN NoFeed ELSE @]

RunTask ==
  /\ client.queue # <<>>
  /\ Leave(Perform([client EXCEPT !.queue = Tail(@)], Head(client.queue)))
  /\ UNCHANGED faults

-----------------------------------------------------------------------------
(* What adds tasks: the page, the timers, the browser and the channels *)

\* await setDoc: the page listens once its write is acknowledged.
PageListens ==
  /\ client.wrote = "resolved" /\ ~client.listens
  /\ client' = EnqueueTask([client EXCEPT !.listens = TRUE],
                       Task("onSnapshot", "page", 0, "none"))
  /\ UNCHANGED <<server, faults>>

TimerElapses(t) ==
  /\ client.timers[t] = "set"
  /\ client' = ElapseTimer(client, t)
  /\ UNCHANGED <<server, faults>>

Fault == faults > 0 /\ faults' = faults - 1

NetworkChanges ==
  /\ Fault
  /\ client' = EnqueueTask(client, Task("network", "page", 0, "none"))
  /\ UNCHANGED server

Opens(s) ==
  /\ client.stream[s].state = "starting" /\ client.chan[s].gen = 0
  /\ client' = OpenChannel(client, s)
  /\ UNCHANGED <<server, faults>>

Links(s) ==
  /\ client.chan[s].out # <<>> /\ ~client.chan[s].linked
  /\ client' = ChannelLinked(client, s)
  /\ UNCHANGED <<server, faults>>

Breaks(s) ==
  /\ Fault
  /\ client.chan[s].gen # 0 /\ IsOpen(client, s)
  /\ Leave(ChannelBreaks(client, s, "transient"))

-----------------------------------------------------------------------------
(* The server *)

Answer(s, msg) == client' = ChannelAnswers(client, s, msg)

\* The write sets a field: done twice, it changes nothing.
Listening(doc) ==
  IF doc.listening THEN doc
  ELSE [doc EXCEPT !.listening = TRUE, !.version = @ + 1]

Receives(s) == client.chan[s].linked /\ client.chan[s].out # <<>>

ServerGreets ==
  /\ Receives("write") /\ Head(client.chan["write"].out).kind = "hello"
  /\ Answer("write", [kind |-> "token", version |-> 0, note |-> 0])
  /\ UNCHANGED <<server, faults>>

ServerWrites ==
  /\ Receives("write") /\ Head(client.chan["write"].out).kind = "write"
  /\ server' = Listening(server)
  /\ Answer("write", [kind |-> "result", version |-> server'.version, note |-> 0])
  /\ UNCHANGED faults

ServerRefusesWrite ==
  /\ Fault
  /\ Receives("write") /\ Head(client.chan["write"].out).kind = "write"
  /\ client' = ChannelBreaks(client, "write", "permanent")
  /\ UNCHANGED server

StrayArrives ==
  /\ server.stray
  /\ server' = [Listening(server) EXCEPT !.stray = FALSE]
  /\ UNCHANGED <<client, faults>>

\* A target is followed from its resume token on.
ServerAddsTarget ==
  /\ Receives("listen")
  /\ Answer("listen", [kind |-> "added", version |-> 0, note |-> 0])
  /\ server' = [server EXCEPT !.feed =
       [on |-> TRUE, current |-> FALSE, snap |-> 0,
        sent |-> Head(client.chan["listen"].out).version]]
  /\ UNCHANGED faults

Push(kind, feed) ==
  /\ server.feed.on
  /\ client' = ChannelMessage(client, "listen",
                  [kind |-> kind, version |-> feed.sent, note |-> server.note])
  /\ server' = [server EXCEPT !.feed = feed]

ServerPushesDoc ==
  /\ server.feed.sent < server.version
  /\ Push("doc", [server.feed EXCEPT !.sent = server.version])
  /\ UNCHANGED faults

\* The target has everything up to the commit it is current with.
ServerPushesCurrent ==
  /\ ~server.feed.current /\ server.feed.sent = server.version
  /\ Push("current", [server.feed EXCEPT !.current = TRUE])
  /\ UNCHANGED faults

ServerPushesSnapshot ==
  /\ server.feed.current /\ server.feed.snap < server.feed.sent
  /\ Push("snapshot", [server.feed EXCEPT !.snap = server.feed.sent])
  /\ UNCHANGED faults

ServerRefusesTarget ==
  /\ Fault
  /\ Push("refused", NoFeed)

\* A server that cannot go on from where it was starts the target over.
ServerResets ==
  /\ Fault
  /\ server.feed.sent > 0
  /\ Push("reset", [NoFeed EXCEPT !.on = TRUE])

\* UserInformers::Firebase#notify
ServerNotes ==
  /\ server.note < MaxNotes
  /\ server' = [server EXCEPT !.note = @ + 1, !.version = @ + 1]
  /\ UNCHANGED <<client, faults>>

-----------------------------------------------------------------------------

ServerStep ==
  \/ ServerGreets \/ ServerWrites \/ ServerAddsTarget
  \/ ServerPushesDoc \/ ServerPushesCurrent \/ ServerPushesSnapshot

Channels == \E s \in Streams : Opens(s) \/ Links(s)

Faults ==
  \/ \E s \in Streams : Breaks(s)
  \/ NetworkChanges \/ ServerResets
  \/ ServerRefusesWrite \/ ServerRefusesTarget

Next ==
  \/ RunTask \/ PageListens
  \/ \E t \in Timers : TimerElapses(t)
  \/ Channels \/ ServerStep \/ StrayArrives \/ ServerNotes
  \/ Faults

Spec == Init /\ [][Next]_vars

(* Fairness: the browser runs its tasks and its timers, and a connection   *)
(* that does not break carries what is sent over it.  Faults, late writes  *)
(* and the server's notes need not come.  The first conjunct is weak       *)
(* fairness of RunTask, which is enabled while the queue holds a task.     *)
Fairness ==
  /\ []<>(client.queue = <<>>) \/ []<><<RunTask>>_vars
  /\ WF_vars(PageListens)
  /\ \A t \in Timers : WF_vars(TimerElapses(t))
  /\ \A s \in Streams : WF_vars(Opens(s)) /\ WF_vars(Links(s))
  /\ WF_vars(ServerStep)

FairSpec == Spec /\ Fairness

-----------------------------------------------------------------------------
(* Properties *)

\* No task throws: every answer has its request, in the write pipeline, in
\* the mutation queue and in the aggregator's count of acknowledgements.
\* One that did would silence the queue, and with it the page.
NoInternalError == ~client.failed

\* The cache holds everything up to the resume token, and the server's own
\* data, not our patch alone: after a broken connection the server sends
\* only what is newer than the token.
TokenCovered ==
  /\ client.target.token <= client.doc.version
  /\ client.target.token > 0 => ~client.doc.committed

\* Between two tasks the view shows the cached document.
ViewIsCache == client.view.on => SameData(client.view.doc, client.doc)

\* A view in step with the server holds no document the server did not list
\* for the target; limbo resolution never starts.
NoLimbo ==
  client.view.current /\ IsFound(client.view.doc) => client.view.synced

\* Work never waits for a stream that nobody starts: a target or a pending
\* write has its stream open, opening or backing off.
WorkHasItsStream ==
  /\ client.target.on => IsStarted(client, "listen")
  /\ client.pipeline # <<>> => IsStarted(client, "write")

\* Every write that is not acknowledged is in the pipeline, to be sent again
\* by the next handshake.
PipelineHoldsQueue == ~client.failed => client.pipeline = client.batches

\* The client calls itself online only while its watch stream is open, and
\* calls a view current only while it is not offline.
OnlineIsTrue ==
  /\ client.online = "Online" => IsOpen(client, "listen")
  /\ client.online = "Offline" => ~client.view.current

\* The page's promise is kept only after the server has the write.
ResolvedIsStored == client.wrote = "resolved" => server.listening

\* The page sees notes the document has had, never an older one after a
\* newer one, whatever breaks.
Listener == INSTANCE DocumentListener WITH note <- server.note, shown <- client.shown
Contract == Listener!Spec

\* The page's write is settled, one way or the other.
WriteSettles == <>(client.wrote # "pending")

\* A page that listens, and whose target is not refused, ends up with the
\* document's last note on the screen.
LastNoteShown == <>[](client.listener.on => client.shown = server.note)
=============================================================================
