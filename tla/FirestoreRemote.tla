-------------------------- MODULE FirestoreRemote --------------------------
(***************************************************************************)
(* The remote store of the Firestore client: the online state, the watch   *)
(* stream with the aggregator that gathers its changes into snapshots, and *)
(* the write stream with its pipeline.  The page listens to one target, a  *)
(* document.                                                               *)
(*                                                                         *)
(* A resume token and a snapshot version are both the number of the commit *)
(* they date from, 0 for none.                                             *)
(***************************************************************************)
EXTENDS FirestoreCache

\* What the remote store is made with.
NewRemote == [pipeline |-> <<>>, target |-> [on |-> FALSE, token |-> 0],
              blocked |-> FALSE]

NoAgg == [on |-> FALSE, pending |-> 0, current |-> FALSE, token |-> 0,
          dirty |-> FALSE, change |-> "none", doc |-> InvalidDoc]

NewTarget == [NoAgg EXCEPT !.on = TRUE, !.dirty = TRUE]

-----------------------------------------------------------------------------
(* OnlineStateTracker *)

\* The new state goes to the listeners, and what it makes of the views after
\* it, before the call returns.
Become(c, state) ==
  IF c.online = state THEN c
  ELSE LET told == OnOnlineState([c EXCEPT !.online = state])
       IN  IF state = "Offline" THEN ViewOffline(told) ELSE told

SetOnline(c, state) ==
  Become([CancelTimer(c, "online") EXCEPT !.failures = 0], state)

\* handleWatchStreamStart: the first attempt has ten seconds.
WatchStarts(c) ==
  IF c.failures = 0 THEN SetTimer(Become(c, "Unknown"), "online") ELSE c

\* handleWatchStreamFailure: one failure in a row is enough to be offline.
WatchFails(c) ==
  IF c.online = "Online" THEN Become(c, "Unknown")
  ELSE Become([CancelTimer(c, "online") EXCEPT !.failures = 1], "Offline")

OnlineTimeout(c) == Become([c EXCEPT !.timers["online"] = "off"], "Offline")

-----------------------------------------------------------------------------
(* The watch stream's requests *)

\* A target whose request is not acknowledged yet takes no changes.
SendWatchRequest(c) ==
  Send([c EXCEPT !.agg = [(IF c.agg.on THEN c.agg ELSE NewTarget)
                            EXCEPT !.pending = @ + 1]],
       "listen", [kind |-> "add", version |-> c.target.token])

ShouldStartWatch(c) ==
  ~c.blocked /\ ~IsStarted(c, "listen") /\ c.target.on

StartWatch(c) == WatchStarts(Start([c EXCEPT !.agg = NoAgg], "listen"))

RemoteStoreListen(c) ==
  IF c.target.on THEN c
  ELSE LET added == [c EXCEPT !.target.on = TRUE]
       IN  IF ShouldStartWatch(added) THEN StartWatch(added)
           ELSE IF IsOpen(c, "listen") THEN SendWatchRequest(added) ELSE added

OnWatchOpen(c) == IF c.target.on THEN SendWatchRequest(c) ELSE c

OnWatchClose_GivesUp(c) ==
  LET clean == [c EXCEPT !.agg = NoAgg]
  IN  IF ShouldStartWatch(clean) /\ c.online # "Online"
        THEN StartWatch(WatchFails(clean)) ELSE SetOnline(clean, "Unknown")

OnWatchClose(c) ==
  LET clean == [c EXCEPT !.agg = NoAgg]
  IN  IF ShouldStartWatch(clean) THEN StartWatch(WatchFails(clean))
      ELSE SetOnline(clean, "Unknown")

-----------------------------------------------------------------------------
(* WatchChangeAggregator *)

IsActiveTarget(c) == c.target.on /\ ~(c.agg.on /\ c.agg.pending # 0)

\* An empty token says nothing.
UpdateToken(agg, token) ==
  IF token = 0 THEN agg ELSE [agg EXCEPT !.token = token, !.dirty = TRUE]

\* The target's acknowledgement: the last one pending clears what was
\* gathered before it.  More of them than requests is an internal error.
TargetAdded(c, token) ==
  IF c.agg.pending = 0 THEN Fail(c)
  ELSE IF c.agg.pending > 1 THEN [c EXCEPT !.agg.pending = @ - 1]
  ELSE [c EXCEPT !.agg = UpdateToken(
          [@ EXCEPT !.pending = 0, !.dirty = FALSE, !.change = "none"], token)]

DocumentChanged_NeverAdded(c, doc) ==
  IF ~IsActiveTarget(c) THEN c
  ELSE [c EXCEPT !.agg.doc = doc, !.agg.dirty = TRUE, !.agg.change = "modified"]

\* addDocumentToTarget
DocumentChanged(c, doc) ==
  IF ~IsActiveTarget(c) THEN c
  ELSE [c EXCEPT !.agg.doc = doc, !.agg.dirty = TRUE,
                 !.agg.change = IF c.view.synced THEN "modified" ELSE "added"]

TargetCurrent_MovesToken(c, token) ==
  IF ~IsActiveTarget(c) THEN c
  ELSE [c EXCEPT !.agg = UpdateToken([@ EXCEPT !.current = TRUE, !.dirty = TRUE], token),
                 !.target.token = token]

TargetCurrent(c, token) ==
  IF ~IsActiveTarget(c) THEN c
  ELSE [c EXCEPT !.agg = UpdateToken([@ EXCEPT !.current = TRUE, !.dirty = TRUE], token)]

\* Said of every target there is, not of ours by name.
TargetUnchanged(c, token) ==
  IF ~c.agg.on \/ ~IsActiveTarget(c) THEN c ELSE [c EXCEPT !.agg = UpdateToken(@, token)]

\* The server starts over: the target's documents count as removed until it
\* sends them again.
TargetReset(c, token) ==
  IF ~IsActiveTarget(c) THEN c
  ELSE [c EXCEPT !.agg = UpdateToken(
          [NewTarget EXCEPT !.change = IF c.view.synced THEN "removed" ELSE "none",
                            !.doc    = c.agg.doc], token)]

\* createRemoteEvent: a target that is current without its document has a
\* document that does not exist.
RemoteEvent(c, version) ==
  LET absent == /\ IsActiveTarget(c) /\ c.agg.current
                /\ ~IsValid(c.agg.doc) /\ ~c.view.synced
      dirty  == IsActiveTarget(c) /\ (c.agg.dirty \/ absent)
  IN  [version |-> version,
       doc     |-> IF absent THEN Doc("no", version, 0, FALSE) ELSE c.agg.doc,
       token   |-> IF dirty THEN c.agg.token ELSE 0,
       change  |-> IF dirty
                     THEN [docs  |-> c.agg.change,
                           state |-> IF c.agg.current THEN "current" ELSE "not current"]
                     ELSE NoChange]

\* raiseWatchSnapshot: the target's token moves with the snapshot that is
\* applied, and what was gathered is spent.
RaiseWatchSnapshot(c, version) ==
  LET event == RemoteEvent(c, version)
      spent == [c EXCEPT !.agg.dirty = FALSE, !.agg.change = "none",
                         !.agg.doc = InvalidDoc,
                         !.target.token = IF event.token = 0 THEN @ ELSE event.token]
  IN  ApplyRemoteEvent(spent, event)

\* handleTargetError: the server refused the target.
TargetError(c) ==
  IF ~c.target.on THEN c
  ELSE [RejectListen(c) EXCEPT !.target.on = FALSE, !.agg = NoAgg]

\* onWatchStreamChange: any message shows that the client is online.
OnWatchChange(c, msg) ==
  LET live == SetOnline(c, "Online")
  IN  CASE msg.kind = "added"    -> TargetAdded(live, msg.version)
        [] msg.kind = "refused"  -> TargetError(live)
        [] msg.kind = "doc"      ->
             DocumentChanged(live, Doc("found", msg.version, msg.note, FALSE))
        [] msg.kind = "current"  -> TargetCurrent(live, msg.version)
        [] msg.kind = "reset"    -> TargetReset(live, 0)
        [] msg.kind = "snapshot" ->
             LET told == TargetUnchanged(live, msg.version)
             IN  IF msg.version >= c.lastSnapshot
                   THEN RaiseWatchSnapshot(told, msg.version) ELSE told

-----------------------------------------------------------------------------
(* The write pipeline *)

ShouldStartWrite(c) ==
  ~c.blocked /\ ~IsStarted(c, "write") /\ c.pipeline # <<>>

SendWrites(c, batches) ==
  SendAll(c, "write",
          [i \in DOMAIN batches |-> [kind |-> "write", version |-> 0]])

\* getNextMutationBatch, over and over: the batches that come after the
\* last one of the pipeline.
NextBatches(c) ==
  LET last  == IF c.pipeline = <<>> THEN 0 ELSE c.pipeline[Len(c.pipeline)]
      first == CHOOSE i \in 1..(Len(c.batches) + 1) :
                 \A j \in DOMAIN c.batches : j < i <=> c.batches[j] <= last
  IN  SubSeq(c.batches, first, Len(c.batches))

\* fillWritePipeline: the batches that are not in it, sent at once when the
\* stream is past its handshake; a stream without work may go idle.
FillPipeline(c) ==
  LET more == NextBatches(c)
      full == [c EXCEPT !.pipeline = @ \o more]
      sent == IF IsOpen(c, "write") /\ c.stream["write"].seen
                THEN SendWrites(full, more) ELSE full
      idle == IF full.pipeline = <<>> THEN MarkIdle(sent) ELSE sent
  IN  IF c.blocked THEN c
      ELSE IF ShouldStartWrite(idle) THEN Start(idle, "write") ELSE idle

OnWriteOpen(c) == Send(c, "write", [kind |-> "hello", version |-> 0])

OnHandshake_SendsNothing(c) == c

\* onWriteHandshakeComplete: everything that was not answered goes again.
OnHandshake(c) == SendWrites(c, c.pipeline)

\* onMutationResult: the answer belongs to the first batch of the pipeline.
OnMutationResult(c, version) ==
  IF c.pipeline = <<>> THEN Fail(c)
  ELSE FillPipeline(ApplySuccessfulWrite([c EXCEPT !.pipeline = Tail(@)],
                                         Head(c.pipeline), version))

\* onWriteStreamClose: an error of the request itself, after the handshake,
\* rejects the first batch; anything else is tried again.
OnWriteClose(c, err) ==
  LET refused  == err = "permanent" /\ c.stream["write"].seen
      rejected == IF ~refused THEN c
                  ELSE IF c.pipeline = <<>> THEN Fail(c)
                  ELSE FillPipeline(RejectFailedWrite(
                         Inhibit([c EXCEPT !.pipeline = Tail(@)], "write"),
                         Head(c.pipeline)))
  IN  IF ShouldStartWrite(rejected) THEN Start(rejected, "write") ELSE rejected

-----------------------------------------------------------------------------
(* Both streams *)

\* PersistentStream's close, with the call to the stream's listener.
Close(c, s, final, err) ==
  LET closed == CloseStream(c, s, final)
  IN  IF s = "listen" THEN OnWatchClose(closed) ELSE OnWriteClose(closed, err)

Stop(c, s) == IF IsStarted(c, s) THEN Close(c, s, "initial", "none") ELSE c

EnableWatch(c) ==
  LET fresh == Inhibit(c, "listen")
  IN  IF ShouldStartWatch(fresh) THEN StartWatch(fresh)
      ELSE SetOnline(fresh, "Unknown")

EnableWrite_NoFill(c) == Inhibit(c, "write")

EnableWrite(c) == FillPipeline(Inhibit(c, "write"))

\* Both streams stop, with nothing kept in the pipeline.
DisableNetwork(c) ==
  LET write == [Stop(c, "write") EXCEPT !.pipeline = <<>>]
  IN  [Stop(write, "listen") EXCEPT !.agg = NoAgg]

EnableNetwork(c) == EnableWatch(EnableWrite(c))

RestartNetwork_StaysOff(c) == DisableNetwork([c EXCEPT !.blocked = TRUE])

RestartNetwork(c) ==
  LET off == SetOnline(DisableNetwork([c EXCEPT !.blocked = TRUE]), "Unknown")
  IN  EnableNetwork([off EXCEPT !.blocked = FALSE])
=============================================================================
