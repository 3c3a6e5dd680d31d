--------------------------- MODULE FirestoreCache ---------------------------
(***************************************************************************)
(* The local half of the Firestore client, for the one document the page   *)
(* follows: the in-memory local store (remote document cache, mutation     *)
(* queue and overlay), the view of the listened query, and the listener    *)
(* the snapshots are raised to.                                            *)
(*                                                                         *)
(* A document is its version (the commit it dates from, 0 for none) and    *)
(* its note: the number of notes of the server it holds, 0 for a document  *)
(* with nothing but the page's own {listening: true}.                      *)
(***************************************************************************)
EXTENDS FirestoreStream

\* MutableDocument: what is known of the document; "committed" marks one that
\* was patched with an acknowledged write, and lacks what others wrote.
Doc(kind, version, note, committed) ==
  [kind |-> kind, version |-> version, note |-> note, committed |-> committed]

InvalidDoc == Doc("invalid", 0, 0, FALSE)

IsFound(doc) == doc.kind = "found"
IsValid(doc) == doc.kind # "invalid"

\* The data of two documents, whatever their versions.
SameData(a, b) == a.kind = b.kind /\ a.note = b.note

-----------------------------------------------------------------------------
(* Local store: the write *)

\* The page's {listening: true} with merge: a patch of one field, whatever
\* the document.
ApplyPatch(doc, version) ==
  [doc EXCEPT !.kind = "found", !.version = version, !.committed = TRUE]

AddBatch(c, batch) == [c EXCEPT !.batches = Append(@, batch)]

\* Only the first batch of the queue may leave it.
RemoveBatch(c, batch) ==
  IF c.batches = <<>> \/ Head(c.batches) # batch THEN Fail(c)
  ELSE [c EXCEPT !.batches = Tail(@)]

\* The promise of the caller, kept or broken.
SettleWrite(c, outcome) == IF c.failed THEN c ELSE [c EXCEPT !.wrote = outcome]

\* The batch waits in the mutation queue, with the promise of the caller.
\* Nothing is listened to before the write is settled, so no view changes.
WriteLocally(c, batch) == [AddBatch(c, batch) EXCEPT !.wrote = "pending"]

\* The cached document gets the patch at the version of the server's answer,
\* unless it is as new already; the batch leaves the queue.
AcknowledgeBatch(c, batch, version) ==
  RemoveBatch([c EXCEPT !.doc = IF @.version < version
                                  THEN ApplyPatch(@, version) ELSE @], batch)

ApplySuccessfulWrite(c, batch, version) ==
  SettleWrite(AcknowledgeBatch(c, batch, version), "resolved")

RejectFailedWrite(c, batch) == SettleWrite(RemoveBatch(c, batch), "rejected")

-----------------------------------------------------------------------------
(* Local store: what the watch stream says *)

IsNewer_NotOwnPatch(doc, cached) == ~IsValid(cached) \/ doc.version > cached.version

\* A document of the server is taken unless the cache is newer; a document
\* of the same version replaces one that holds only our own patch.
IsNewer(doc, cached) ==
  \/ ~IsValid(cached)
  \/ doc.version > cached.version
  \/ doc.version = cached.version /\ cached.committed

Updates(c, event) ==
  IF IsValid(event.doc) /\ IsNewer(event.doc, c.doc) THEN {event.doc} ELSE {}

CacheRemoteEvent(c, event) ==
  [c EXCEPT !.lastSnapshot = event.version,
            !.doc = IF Updates(c, event) = {} THEN @ ELSE event.doc]

-----------------------------------------------------------------------------
(* QueryListener and AsyncObserver: the page's callback *)

\* Whether the first snapshot may be shown.
ShouldRaiseInitial(c) ==
  ~c.view.fromCache \/ IsFound(c.view.doc) \/ c.online = "Offline"

\* The observer's next, which hands the document's data to the page.
RaiseSnapshot(c) ==
  [c EXCEPT !.listener.raised = TRUE, !.shown = c.view.doc.note]

\* A snapshot of the view reaches the listener: the first when it may be
\* shown, the later ones when documents changed (no metadata changes asked).
OnViewSnapshot(c, docsChanged) ==
  IF ~c.listener.on THEN c
  ELSE IF (c.listener.raised /\ docsChanged)
          \/ (~c.listener.raised /\ ShouldRaiseInitial(c))
         THEN RaiseSnapshot([c EXCEPT !.listener.got = TRUE])
         ELSE [c EXCEPT !.listener.got = TRUE]

\* The online state may release a first snapshot that was held back.
OnOnlineState(c) ==
  IF c.listener.on /\ c.listener.got /\ ~c.listener.raised /\ ShouldRaiseInitial(c)
    THEN RaiseSnapshot(c) ELSE c

-----------------------------------------------------------------------------
(* View *)

NewListener == [on |-> FALSE, got |-> FALSE, raised |-> FALSE]

NoView == [on |-> FALSE, doc |-> InvalidDoc, synced |-> FALSE,
           current |-> FALSE, fromCache |-> TRUE]

ViewDoc_Stays(view, docs) ==
  IF IsFound(view.doc) \/ docs = {} THEN view.doc ELSE CHOOSE d \in docs : TRUE

\* computeDocChanges: the view's document after the updates, which keep it
\* when the data are the same.
ViewDoc(view, docs) ==
  LET changed == {d \in docs : ~(IsFound(view.doc) /\ SameData(d, view.doc))}
  IN  IF changed = {} THEN view.doc
      ELSE LET d == CHOOSE d \in changed : TRUE
           IN  IF IsFound(d) THEN d ELSE InvalidDoc

\* applyChanges: the documents, then what the target's change says of it,
\* then whether the view is in step with the server.  A snapshot is raised
\* when the documents or the sync state changed.
ApplyViewChanges(c, docs, change, first) ==
  LET doc   == ViewDoc(c.view, docs)
      view  == [c.view EXCEPT
                  !.on      = TRUE,
                  !.doc     = doc,
                  !.synced  = CASE change.docs = "added"   -> TRUE
                                [] change.docs = "removed" -> FALSE
                                [] OTHER                   -> @,
                  !.current = CASE change.state = "current"     -> TRUE
                                [] change.state = "not current" -> FALSE
                                [] OTHER                        -> @]
      next  == [c EXCEPT !.view = [view EXCEPT !.fromCache = ~view.current]]
      moved == doc # c.view.doc
  IN  IF moved \/ first \/ next.view.fromCache # c.view.fromCache
        THEN OnViewSnapshot(next, moved) ELSE next

NoChange == [docs |-> "none", state |-> "as it was"]

\* syncEngineListen's new view: what the cache holds, never in step.
InitializeView(c) ==
  ApplyViewChanges(c, IF IsFound(c.doc) THEN {c.doc} ELSE {}, NoChange, TRUE)

\* eventManagerListen, once the view is there: the listener joins, and gets
\* the view's first snapshot.
AttachListener(c) ==
  OnViewSnapshot([c EXCEPT !.listener.on = TRUE], IsFound(c.view.doc))

ViewOffline_Unheard(c) == c

\* A client that goes offline can no longer vouch for its view.
ViewOffline(c) ==
  IF c.view.on /\ c.view.current
    THEN ApplyViewChanges(c, {}, [NoChange EXCEPT !.state = "not current"], FALSE)
    ELSE c

\* The views there are take the documents the cache took.
EmitNewSnaps(c, docs, change) ==
  IF c.view.on THEN ApplyViewChanges(c, docs, change, FALSE) ELSE c

\* syncEngineApplyRemoteEvent: the cache first, then the view with it.
ApplyRemoteEvent(c, event) ==
  EmitNewSnaps(CacheRemoteEvent(c, event), Updates(c, event), event.change)

\* The page gave no error callback, so it hears nothing.
WatchError(c) == [c EXCEPT !.listener.on = FALSE]

RemoveAndCleanupTarget(c) == WatchError([c EXCEPT !.view = NoView])

RejectListen_Shown(c) == RaiseSnapshot(RemoveAndCleanupTarget(c))

\* syncEngineRejectListen: the query's view and listener go.
RejectListen(c) == RemoveAndCleanupTarget(c)
=============================================================================
