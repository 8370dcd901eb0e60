----------------------------- MODULE LiveStream ------------------------------
(***************************************************************************)
(* The dashboard's live log, end to end: the loggers publish the events of *)
(* each entry and store it, the handler of GET /admin/live/logs            *)
(* (internal/admin/handler_live.go) streams the broker's events to a       *)
(* browser, and the browser (dashboard live-logs.js and audit-list.js)     *)
(* keeps a cursor and the rows it shows, reconnects, and reloads the rows  *)
(* from the REST endpoint on a reset.                                      *)
(*                                                                         *)
(* A write of the handler and its processing by the browser are one step:  *)
(* the connection keeps the order, and what was written and not received   *)
(* when it drops is as good as not written.                                *)
(***************************************************************************)
EXTENDS LiveBroker

CONSTANTS
    MaxDrops,        \* bounds on connection drops, heartbeats, restarts of the
    MaxHeartbeats,   \* gateway, and entries that are removed
    MaxRestarts,
    MaxRemovals

VARIABLES
    phase,       \* per entry, how far the server is with it
    link,        \* per browser, whether it is connected
    todo,        \* per browser, what the handler still owes of the reply of
                 \* Subscribe: whether a reset, and which replayed events
    cursor,      \* liveLogsLastSeq
    view,        \* per browser and entry, the row it shows
    reload,      \* per browser, the fetch of the rows: "no", "asked", "answered"
    answer,      \* ... and the stored entries it brings
    foreign,     \* per browser, whether its cursor is another process's
    hist,        \* history: what has happened to the browser, see Mishaps
    drops, heartbeats, restarts

browserVars == <<cursor, foreign, view, reload, answer>>
boundVars == <<drops, heartbeats, restarts>>
streamVars == <<brokerVars, phase, link, todo, browserVars, hist, boundVars>>

\* skipped:   it disconnected while its cursor was past events it was not sent
\* resumed:   it resumed from the cursor of another process
\* overtaken: it processed an event while a response was waiting
\* reset:     it was sent a reset
Mishaps == {"skipped", "resumed", "overtaken", "reset"}

NothingToDo == [reset |-> FALSE, replay |-> <<>>]

\* A browser that has just received the first event of one entry; the others
\* have not been logged yet.
StreamInit ==
    \E e \in Entries :
        LET first == [seq |-> 1, kind |-> "started", id |-> e]
        IN  /\ nextSeq = 1 /\ events = <<first>> /\ active = {first}
            /\ brokerClosed = FALSE
            /\ subs = [c \in Subs |-> [NoSub EXCEPT !.state = "open", !.taken = 1]]
            /\ phase = [f \in Entries |-> IF f = e THEN "started" ELSE "new"]
            /\ link = [c \in Subs |-> TRUE]
            /\ todo = [c \in Subs |-> NothingToDo]
            /\ cursor = [c \in Subs |-> 1]
            /\ view = [c \in Subs |-> [f \in Entries |-> IF f = e THEN "started" ELSE "none"]]
            /\ reload = [c \in Subs |-> "no"]
            /\ answer = [c \in Subs |-> {}]
            /\ foreign = [c \in Subs |-> FALSE]
            /\ hist = [c \in Subs |-> {}]
            /\ drops = 0 /\ heartbeats = 0 /\ restarts = 0

-----------------------------------------------------------------------------
(* The life of an entry: auditlog middleware and logger.  audit.updated is an
   event like audit.started for all that follows and is left out. *)

Persisted == {e \in Entries : phase[e] \in {"stored", "flushed"}}

Log(e, from, to, kind) ==
    /\ phase[e] = from
    /\ phase' = [phase EXCEPT ![e] = to]
    /\ Publish(e, kind)
    /\ UNCHANGED <<link, todo, browserVars, hist, boundVars>>

Start(e) == Log(e, "new", "started", "started")
Complete(e) == Log(e, "started", "completed", "completed")

Fail(e) == Log(e, "completed", "failed", "failed")

PublishFlushed(e) == Log(e, "stored", "flushed", "flushed")

\* The store has the entry, its event is still to come.
Persist(e) ==
    /\ phase[e] = "completed"
    /\ phase' = [phase EXCEPT ![e] = "stored"]
    /\ UNCHANGED <<brokerVars, link, todo, browserVars, hist, boundVars>>

\* Auditing was off for the workflow, or the logger's buffer was full.
Discard(e) ==
    /\ Cardinality({f \in Entries : phase[f] = "removed"}) < MaxRemovals
    /\ Log(e, "started", "removed", "removed") \/ Log(e, "completed", "removed", "removed")

-----------------------------------------------------------------------------
(* The browser *)

Rank(row) ==
    CASE row \in {"none", "row"} -> 0
      [] row = "started" -> 1
      [] row = "completed" -> 2
      [] row \in {"failed", "flushed"} -> 3

\* applyLiveLogEvent for an audit event.
Merge(row, kind) ==
    IF kind = "removed" THEN "none"
    ELSE IF Rank(row) > Rank(kind) THEN row ELSE kind

SeeSeq(c, seq) ==
    IF seq > cursor[c]
    THEN cursor' = [cursor EXCEPT ![c] = seq] /\ foreign' = [foreign EXCEPT ![c] = FALSE]
    ELSE UNCHANGED <<cursor, foreign>>

Mishap(c, what) == hist' = [hist EXCEPT ![c] = @ \cup what]

See(c, event) ==
    /\ SeeSeq(c, event.seq)
    /\ view' = [view EXCEPT ![c][event.id] = Merge(@, event.kind)]
    /\ Mishap(c, IF reload[c] = "answered" THEN {"overtaken"} ELSE {})
    /\ UNCHANGED <<reload, answer>>

\* The REST endpoint reads the store.
AnswerReload(c) ==
    /\ reload[c] = "asked"
    /\ reload' = [reload EXCEPT ![c] = "answered"]
    /\ answer' = [answer EXCEPT ![c] = Persisted]
    /\ UNCHANGED <<brokerVars, phase, link, todo, cursor, foreign, view, hist, boundVars>>

\* auditLogWithLiveEntries: the stored rows and the pending previews.
WithLiveEntries(rows, stored) ==
    [e \in Entries |-> IF e \in stored THEN "row"
                       ELSE IF rows[e] \in {"started", "completed"} THEN rows[e] ELSE "none"]

ApplyReload(c) ==
    /\ reload[c] = "answered"
    /\ view' = [view EXCEPT ![c] = WithLiveEntries(@, answer[c])]
    /\ reload' = [reload EXCEPT ![c] = "no"]
    /\ answer' = [answer EXCEPT ![c] = {}]
    /\ UNCHANGED <<brokerVars, phase, link, todo, cursor, foreign, hist, boundVars>>

-----------------------------------------------------------------------------
(* The handler *)

\* The reconnect timer fires: a request with the browser's cursor.
Connect(c) ==
    /\ ~link[c]
    /\ Subscribe(c, cursor[c])
    /\ link' = [link EXCEPT ![c] = TRUE]
    /\ todo' = [todo EXCEPT ![c] = [reset |-> subs'[c].reset, replay |-> subs'[c].replay]]
    /\ Mishap(c, IF foreign[c] /\ ~subs'[c].reset THEN {"resumed"} ELSE {})
    /\ UNCHANGED <<phase, browserVars, boundVars>>

\* Bug: the browser takes no notice of a reset.
SendResetIgnored(c) ==
    /\ link[c] /\ todo[c].reset
    /\ todo' = [todo EXCEPT ![c].reset = FALSE]
    /\ SeeSeq(c, nextSeq)
    /\ Mishap(c, {"reset"})
    /\ UNCHANGED <<brokerVars, phase, link, view, reload, answer, boundVars>>

\* The reset event carries LatestSeq, read after Subscribe; the browser
\* fetches its rows anew, and an older fetch is ignored (auditFetchToken).
SendReset(c) ==
    /\ link[c] /\ todo[c].reset
    /\ todo' = [todo EXCEPT ![c].reset = FALSE]
    /\ SeeSeq(c, nextSeq)
    /\ reload' = [reload EXCEPT ![c] = "asked"]
    /\ answer' = [answer EXCEPT ![c] = {}]
    /\ Mishap(c, {"reset"})
    /\ UNCHANGED <<brokerVars, phase, link, view, boundVars>>

SendReplay(c) ==
    /\ link[c] /\ ~todo[c].reset /\ todo[c].replay # <<>>
    /\ See(c, Head(todo[c].replay))
    /\ todo' = [todo EXCEPT ![c].replay = Tail(@)]
    /\ UNCHANGED <<brokerVars, phase, link, boundVars>>

SendEvent(c) ==
    /\ link[c] /\ todo[c] = NothingToDo
    /\ Take(c)
    /\ See(c, Head(subs[c].queue))
    /\ UNCHANGED <<phase, link, todo, boundVars>>

\* The ticker: LatestSeq, which may be ahead of the queue.
Heartbeat(c) ==
    /\ heartbeats < MaxHeartbeats
    /\ link[c] /\ todo[c] = NothingToDo
    /\ SeeSeq(c, nextSeq)
    /\ heartbeats' = heartbeats + 1
    /\ UNCHANGED <<brokerVars, phase, link, todo, view, reload, answer, hist, drops, restarts>>

\* The cursor is past an event the browser was not sent.
AheadOfStream(c) ==
    /\ ~foreign[c] /\ ~todo[c].reset
    /\ cursor[c] > subs[c].taken \/ \E e \in ToSet(todo[c].replay) : e.seq <= cursor[c]

\* The handler returns, by a drop or because its channel was closed and is
\* empty; the browser will reconnect.
Disconnect(c) ==
    /\ link[c]
    /\ Unsubscribe(c)
    /\ Mishap(c, IF AheadOfStream(c) THEN {"skipped"} ELSE {})
    /\ link' = [link EXCEPT ![c] = FALSE]
    /\ todo' = [todo EXCEPT ![c] = NothingToDo]
    /\ UNCHANGED <<phase, browserVars>>

Drop(c) ==
    /\ drops < MaxDrops
    /\ Disconnect(c)
    /\ drops' = drops + 1
    /\ UNCHANGED <<heartbeats, restarts>>

EndOfStream(c) ==
    /\ link[c] /\ todo[c] = NothingToDo
    /\ subs[c].state = "cut" /\ subs[c].queue = <<>>
    /\ Disconnect(c)
    /\ UNCHANGED boundVars

\* app.Shutdown closes the broker before the process ends.
Shutdown ==
    /\ restarts < MaxRestarts
    /\ CloseBroker
    /\ UNCHANGED <<phase, link, todo, browserVars, hist, boundVars>>

ShutdownChannel(c) ==
    /\ CloseChannel(c)
    /\ UNCHANGED <<phase, link, todo, browserVars, hist, boundVars>>

\* A new gateway process: the store survives, the broker and the entries in
\* memory do not; a fetch in flight fails and empties the list.
Restart ==
    /\ restarts < MaxRestarts
    /\ restarts' = restarts + 1
    /\ nextSeq' = 0 /\ events' = <<>> /\ active' = {} /\ brokerClosed' = FALSE
    /\ subs' = [c \in Subs |-> NoSub]
    /\ link' = [c \in Subs |-> FALSE]
    /\ todo' = [c \in Subs |-> NothingToDo]
    /\ phase' = [e \in Entries |-> IF e \in Persisted THEN "flushed"
                                   ELSE IF phase[e] = "new" THEN "new" ELSE "lost"]
    /\ view' = [c \in Subs |-> IF reload[c] = "asked" THEN [e \in Entries |-> "none"] ELSE view[c]]
    /\ reload' = [c \in Subs |-> IF reload[c] = "asked" THEN "no" ELSE reload[c]]
    /\ foreign' = [c \in Subs |-> cursor[c] > 0]
    /\ UNCHANGED <<cursor, answer, hist, drops, heartbeats>>

-----------------------------------------------------------------------------
Entry(e) ==
    Start(e) \/ Complete(e) \/ Persist(e) \/ PublishFlushed(e) \/ Fail(e) \/ Discard(e)

Serve(c) == Connect(c) \/ SendReset(c) \/ SendReplay(c) \/ SendEvent(c) \/ EndOfStream(c)
Fetch(c) == AnswerReload(c) \/ ApplyReload(c)

StreamNext ==
    \/ \E e \in Entries : Entry(e)
    \/ \E c \in Subs : Serve(c) \/ Fetch(c) \/ Heartbeat(c) \/ Drop(c) \/ ShutdownChannel(c)
    \/ Shutdown
    \/ Restart

StreamSpec == StreamInit /\ [][StreamNext]_streamVars

\* The handler, the browser's timers and fetches, and the flush of stored
\* entries keep going.
FairStreamSpec ==
    /\ StreamSpec
    /\ \A c \in Subs :
          WF_streamVars(Serve(c)) /\ WF_streamVars(Fetch(c)) /\ WF_streamVars(ShutdownChannel(c))
    /\ \A e \in Entries : WF_streamVars(PublishFlushed(e))

-----------------------------------------------------------------------------
StreamTypeOK ==
    /\ BrokerTypeOK
    /\ phase \in [Entries -> {"new", "started", "completed", "stored", "flushed", "failed",
                              "removed", "lost"}]
    /\ link \in [Subs -> BOOLEAN]
    /\ \A c \in Subs : todo[c].reset \in BOOLEAN /\ todo[c].replay \in Seq(Event)
    /\ cursor \in [Subs -> Nat]
    /\ view \in [Subs -> [Entries -> {"none", "row", "started", "completed", "failed", "flushed"}]]
    /\ reload \in [Subs -> {"no", "asked", "answered"}]
    /\ answer \in [Subs -> SUBSET Entries]
    /\ foreign \in [Subs -> BOOLEAN]
    /\ hist \in [Subs -> SUBSET Mishaps]

\* Nothing is on its way to browser c.
Quiet(c) ==
    /\ link[c] /\ subs[c].state = "open"
    /\ todo[c] = NothingToDo /\ subs[c].queue = <<>> /\ reload[c] = "no"

\* The code's own limits: what the dashboard cannot catch up with.
Lucky(c) == hist[c] \subseteq {"reset"}

\* Once nothing is on its way, an entry the store has is neither missing nor
\* shown as in progress, however often the connection dropped or was cut off ...
StoredShown ==
    \A c \in Subs : Quiet(c) /\ Lucky(c) => \A e \in Entries :
        phase[e] = "flushed" => view[c][e] \in {"flushed", "row"}

\* ... an entry in progress is shown at its latest state ...
InProgressShown ==
    \A c \in Subs : Quiet(c) /\ Lucky(c) => \A e \in Entries :
        /\ phase[e] \in {"started", "completed"} => view[c][e] = phase[e]
        /\ phase[e] = "stored" => view[c][e] \in {"completed", "row"}

\* ... and, if it never needed a reset, no entry that is gone is shown as in
\* progress.
NoGhostRows ==
    \A c \in Subs : Quiet(c) /\ hist[c] = {} => \A e \in Entries :
        view[c][e] \in {"started", "completed"} => phase[e] \in {"started", "completed", "stored"}

\* The dashboard never shows an entry as persisted that the store does not
\* have, whatever is dropped, replayed, restarted or overtaken.
ShownIsStored ==
    \A c \in Subs, e \in Entries : view[c][e] \in {"flushed", "row"} => e \in Persisted

\* The dashboard catches up (readLiveLogsStream, replayAfterLocked) and shows
\* what the server has: what is stored, what is in progress, and nothing else.
DashboardTells == StoredShown /\ InProgressShown /\ NoGhostRows /\ ShownIsStored

\* A stored entry is eventually shown as such, also when connections drop.
StoredIsShown ==
    \A c \in Subs, e \in Entries :
        e \in Persisted ~> (view[c][e] \in {"flushed", "row"} \/ ~Lucky(c) \/ brokerClosed)

\* What docs/advanced/admin-endpoints.mdx:213-215 says: "sequence cursors,
\* bounded replay, and heartbeat events so reconnecting browsers can catch up
\* after short network drops".
CatchesUp ==
    \A c \in Subs : Quiet(c) => \A e \in Entries :
        phase[e] = "flushed" => view[c][e] \in {"flushed", "row"}
=============================================================================
