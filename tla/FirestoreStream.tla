-------------------------- MODULE FirestoreStream --------------------------
(***************************************************************************)
(* The lower half of the Firestore client that the processing page ships   *)
(* in its bundle: the AsyncQueue every callback goes through, the delayed  *)
(* operations, the two persistent streams ("listen" and "write") and the   *)
(* channel each of them opens.                                             *)
(*                                                                         *)
(* The operators take the client, a record, and return the client after    *)
(* the call, the way the code's handlers call one another within one task  *)
(* of the queue.  Delays are not measured: a timer that is set may elapse  *)
(* at any time, so the backoff's length does not show.                     *)
(***************************************************************************)
EXTENDS Naturals, Sequences

Streams == {"listen", "write"}

\* The operations that wait for a delay: the backoff of each stream, the
\* idle timer of the write stream, and the online state's 10 seconds.
Timers == Streams \cup {"idle", "online"}

NoChannel == [gen |-> 0, linked |-> FALSE, out |-> <<>>]

\* The count of closes arms the callbacks; "seen" is whether the server has
\* sent anything since the stream started.
NewStream == [state |-> "initial", closes |-> 0, seen |-> FALSE]

Task(kind, on, gen, arg) == [kind |-> kind, on |-> on, gen |-> gen, arg |-> arg]

-----------------------------------------------------------------------------
(* The queue and its delayed operations *)

\* A queue whose operation threw takes no other.
EnqueueTask(c, task) ==
  IF c.failed THEN c ELSE [c EXCEPT !.queue = Append(@, task)]

Fail(c) == [c EXCEPT !.failed = TRUE, !.queue = <<>>]

SetTimer(c, t) == [c EXCEPT !.timers[t] = "set"]

\* A cancelled operation does not run: the task of one whose delay had
\* elapsed stays in the queue, and does nothing.
Cancelled(queue, t) ==
  [i \in DOMAIN queue |->
     IF queue[i].kind = "timer" /\ queue[i].on = t
       THEN Task("cancelled", "page", 0, "none") ELSE queue[i]]

CancelTimer(c, t) ==
  [c EXCEPT !.timers[t] = "off", !.queue = Cancelled(@, t)]

ElapseTimer(c, t) ==
  EnqueueTask([c EXCEPT !.timers[t] = "elapsed"], Task("timer", t, 0, "none"))

-----------------------------------------------------------------------------
(* PersistentStream *)

IsOpen(c, s) == c.stream[s].state = "open"

IsStarted(c, s) == IsOpen(c, s) \/ c.stream[s].state \in {"starting", "backoff"}

\* start: at once, or after the backoff when the stream ended in an error.
Start(c, s) ==
  LET fresh == [c EXCEPT !.stream[s].seen = FALSE]
  IN  IF c.stream[s].state # "error"
        THEN [fresh EXCEPT !.stream[s].state = "starting"]
        ELSE SetTimer([fresh EXCEPT !.stream[s].state = "backoff"], s)

\* The backoff is over: the stream is as new, and starts.
Restart(c, s) == Start([c EXCEPT !.stream[s].state = "initial"], s)

\* inhibitBackoff
Inhibit(c, s) == [c EXCEPT !.stream[s].state = "initial"]

\* What the stream does of a close itself; its listener is told by the
\* caller.  The close count it raises disarms the callbacks under way.
CloseStream(c, s, final) ==
  LET still == IF s = "write" THEN CancelTimer(CancelTimer(c, s), "idle")
                              ELSE CancelTimer(c, s)
  IN  [still EXCEPT !.stream[s].closes = @ + 1,
                    !.stream[s].state  = final,
                    !.chan[s]          = NoChannel]

\* Messages for the server; a stream that sends is not idle.  What is sent
\* over a channel that has ended is dropped.
SendAll(c, s, msgs) ==
  LET busy == IF s = "write" /\ msgs # <<>> THEN CancelTimer(c, "idle") ELSE c
  IN  IF c.chan[s].gen = 0 THEN busy
      ELSE [busy EXCEPT !.chan[s].out = @ \o msgs]

Send(c, s, msg) == SendAll(c, s, <<msg>>)

\* The write stream closes itself after a minute without a request.
MarkIdle(c) ==
  IF IsOpen(c, "write") /\ c.timers["idle"] = "off"
    THEN SetTimer(c, "idle") ELSE c

-----------------------------------------------------------------------------
(* The channel, and the dispatcher that guards its callbacks *)

Dispatch(c, s, kind, arg) ==
  EnqueueTask(c, Task(kind, s, c.chan[s].gen, arg))

Guarded_Never(c, task) == TRUE

\* A callback runs only if the stream was not closed since the channel opened.
Guarded(c, task) == c.stream[task.on].closes + 1 = task.gen

\* The credentials are there: the channel is created for this close count,
\* and says at once that it is open.
OpenChannel(c, s) ==
  Dispatch([c EXCEPT !.chan[s] = [NoChannel EXCEPT !.gen = c.stream[s].closes + 1]],
           s, "open", "none")

\* The transport opens with the first message sent.
ChannelLinked(c, s) ==
  Dispatch([c EXCEPT !.chan[s].linked = TRUE], s, "connected", "none")

\* The answer to the request at the head of the channel, or a message of
\* the server's own.  One that is lost on its way is one never sent.
ChannelAnswers(c, s, msg) ==
  Dispatch([c EXCEPT !.chan[s].out = Tail(@)], s, "message", msg)

ChannelMessage(c, s, msg) == Dispatch(c, s, "message", msg)

\* The channel ends with an error, "permanent" for one of the request itself
\* (a refused write) and "transient" for one of the connection: no event of
\* it follows.
ChannelBreaks(c, s, err) ==
  [Dispatch(c, s, "close", err) EXCEPT !.chan[s] = NoChannel]
=============================================================================
