----------------------------- MODULE AsyncLogger -----------------------------
(***************************************************************************)
(* The buffered logger of internal/usage/logger.go; internal/auditlog/     *)
(* logger.go has the same code with other event names.                     *)
(*                                                                         *)
(* Request goroutines call Write, which never blocks; one goroutine runs   *)
(* flushLoop; Close is called on shutdown.  Each entry is written by one   *)
(* goroutine, so an entry also names its writer.                           *)
(*                                                                         *)
(* writes is the sync.WaitGroup of that name: its counter, and in closer   *)
(* the waiter, which is woken when the counter reaches zero and panics if  *)
(* it finds the counter in use again when it runs (sync.WaitGroup.Wait).   *)
(***************************************************************************)
EXTENDS Naturals, Sequences, SequencesExt

CONSTANTS
    Entries,               \* entries, each with the goroutine that writes it
    Closers,               \* goroutines that call Close
    BufferSize,            \* cfg.BufferSize after its default
    BatchFlushThreshold    \* entries that make flushLoop flush at once

ASSUME LoggerAssumption ==
    /\ BufferSize \in Nat \ {0}
    /\ BatchFlushThreshold \in Nat \ {0}

VARIABLES
    closed,        \* the atomic flag
    writes,        \* counter of the WaitGroup writes
    writer,        \* where each Write call is
    closer,        \* where each Close call is
    buffer,        \* the channel, oldest entry first
    done,          \* the done channel is closed
    loop,          \* where flushLoop is
    flush,         \* what flushBatch is doing: "no", "write", "ok", "err"
    batch,         \* flushLoop's batch
    stored,        \* entries the store has
    storeClosed,
    live,          \* per entry, the live events published for it
    panicked       \* the process died in WaitGroup.Wait

writerVars == <<writes, writer>>
closerVars == <<closed, done, closer, storeClosed, panicked>>
loopVars == <<loop, flush, batch, stored>>
vars == <<writerVars, closerVars, loopVars, buffer, live>>

WriterStages == {"idle", "checked", "registered", "send", "drop", "leave", "returned"}
CloserStages == {"idle", "swapped", "waiting", "woken", "signal", "join", "returned"}
LoopStages == {"select", "drain", "flushStore", "exited"}
Events == {"completed", "dropped", "failed", "flushed"}

Init ==
    /\ closed = FALSE
    /\ writes = 0
    /\ writer = [e \in Entries |-> "idle"]
    /\ closer = [c \in Closers |-> "idle"]
    /\ buffer = <<>>
    /\ done = FALSE
    /\ loop = "select"
    /\ flush = "no"
    /\ batch = <<>>
    /\ stored = {}
    /\ storeClosed = FALSE
    /\ live = [e \in Entries |-> <<>>]
    /\ panicked = FALSE

-----------------------------------------------------------------------------
(* Write *)

WriterAt(e, from, to) ==
    /\ writer[e] = from
    /\ writer' = [writer EXCEPT ![e] = to]

Publish(S, event) ==
    live' = [e \in Entries |-> IF e \in S THEN Append(live[e], event) ELSE live[e]]

\* The first look at closed.
Check(e) ==
    /\ WriterAt(e, "idle", IF closed THEN "returned" ELSE "checked")
    /\ UNCHANGED <<writes, closerVars, loopVars, buffer, live>>

\* writes.Add(1)
Register(e) ==
    /\ WriterAt(e, "checked", "registered")
    /\ writes' = writes + 1
    /\ UNCHANGED <<closerVars, loopVars, buffer, live>>

\* Bug: no second look at closed.
RecheckSkipped(e) ==
    /\ WriterAt(e, "registered", "send")
    /\ Publish({e}, "completed")
    /\ UNCHANGED <<writes, closerVars, loopVars, buffer>>

\* The second look at closed, and the Completed event.
Recheck(e) ==
    /\ \/ closed /\ WriterAt(e, "registered", "leave") /\ UNCHANGED live
       \/ ~closed /\ WriterAt(e, "registered", "send") /\ Publish({e}, "completed")
    /\ UNCHANGED <<writes, closerVars, loopVars, buffer>>

\* The non-blocking send.
Send(e) ==
    /\ \/ /\ Len(buffer) < BufferSize
          /\ WriterAt(e, "send", "leave")
          /\ buffer' = Append(buffer, e)
       \/ /\ Len(buffer) >= BufferSize
          /\ WriterAt(e, "send", "drop")
          /\ UNCHANGED buffer
    /\ UNCHANGED <<writes, closerVars, loopVars, live>>

\* Bug: this path returns without writes.Done().
DropNoDone(e) ==
    /\ WriterAt(e, "drop", "returned")
    /\ Publish({e}, "dropped")
    /\ UNCHANGED <<writes, closerVars, loopVars, buffer>>

\* A full buffer: usage.failed, audit.removed.
Drop(e) ==
    /\ WriterAt(e, "drop", "leave")
    /\ Publish({e}, "dropped")
    /\ UNCHANGED <<writes, closerVars, loopVars, buffer>>

\* The deferred writes.Done(): at zero it wakes the waiter.
Leave(e) ==
    /\ WriterAt(e, "leave", "returned")
    /\ writes' = writes - 1
    /\ closer' = IF writes = 1
                 THEN [c \in Closers |-> IF closer[c] = "waiting" THEN "woken" ELSE closer[c]]
                 ELSE closer
    /\ UNCHANGED <<closed, done, storeClosed, panicked, loopVars, buffer, live>>

-----------------------------------------------------------------------------
(* Close *)

CloserAt(c, from, to) ==
    /\ closer[c] = from
    /\ closer' = [closer EXCEPT ![c] = to]

\* closed.Swap(true): only the first caller goes on.
Swap(c) ==
    /\ CloserAt(c, "idle", IF closed THEN "returned" ELSE "swapped")
    /\ closed' = TRUE
    /\ UNCHANGED <<done, storeClosed, panicked, writerVars, loopVars, buffer, live>>

\* Bug: Close does not wait for the Write calls in flight.
WaitSkipped(c) ==
    /\ CloserAt(c, "swapped", "signal")
    /\ UNCHANGED <<closed, done, storeClosed, panicked, writerVars, loopVars, buffer, live>>

\* writes.Wait()
Wait(c) ==
    /\ CloserAt(c, "swapped", IF writes = 0 THEN "signal" ELSE "waiting")
    /\ UNCHANGED <<closed, done, storeClosed, panicked, writerVars, loopVars, buffer, live>>

WaitReturns(c) ==
    /\ IF writes = 0
       THEN CloserAt(c, "woken", "signal") /\ UNCHANGED panicked
       ELSE CloserAt(c, "woken", "woken") /\ panicked' = TRUE
    /\ UNCHANGED <<closed, done, storeClosed, writerVars, loopVars, buffer, live>>

\* close(done)
Signal(c) ==
    /\ CloserAt(c, "signal", "join")
    /\ done' = TRUE
    /\ UNCHANGED <<closed, storeClosed, panicked, writerVars, loopVars, buffer, live>>

\* wg.Wait(), store.Close()
Join(c) ==
    /\ loop = "exited"
    /\ CloserAt(c, "join", "returned")
    /\ storeClosed' = TRUE
    /\ UNCHANGED <<closed, done, panicked, writerVars, loopVars, buffer, live>>

-----------------------------------------------------------------------------
(* flushLoop *)

Take ==
    /\ buffer # <<>>
    /\ batch' = Append(batch, Head(buffer))
    /\ buffer' = Tail(buffer)

Receive ==
    /\ loop = "select" /\ flush = "no"
    /\ Take
    /\ flush' = IF Len(batch') >= BatchFlushThreshold THEN "write" ELSE "no"
    /\ UNCHANGED <<loop, stored, writerVars, closerVars, live>>

Tick ==
    /\ loop = "select" /\ flush = "no"
    /\ batch # <<>>
    /\ flush' = "write"
    /\ UNCHANGED <<loop, batch, stored, writerVars, closerVars, buffer, live>>

SeeDone ==
    /\ loop = "select" /\ flush = "no"
    /\ done
    /\ loop' = "drain"
    /\ UNCHANGED <<flush, batch, stored, writerVars, closerVars, buffer, live>>

Drain ==
    /\ loop = "drain" /\ flush = "no"
    /\ Take
    /\ UNCHANGED <<loop, flush, stored, writerVars, closerVars, live>>

\* Bug: the entries drained last are not flushed.
DrainedNoFlush ==
    /\ loop = "drain" /\ flush = "no"
    /\ buffer = <<>>
    /\ loop' = "flushStore"
    /\ UNCHANGED <<flush, batch, stored, writerVars, closerVars, buffer, live>>

Drained ==
    /\ loop = "drain" /\ flush = "no"
    /\ buffer = <<>>
    /\ IF batch = <<>>
       THEN loop' = "flushStore" /\ UNCHANGED flush
       ELSE flush' = "write" /\ UNCHANGED loop
    /\ UNCHANGED <<batch, stored, writerVars, closerVars, buffer, live>>

\* store.WriteBatch: all of the batch, or an error after any part of it.
WriteBatch ==
    /\ flush = "write"
    /\ \/ flush' = "ok" /\ stored' = stored \cup ToSet(batch)
       \/ flush' = "err" /\ \E S \in SUBSET ToSet(batch) : stored' = stored \cup S
    /\ UNCHANGED <<loop, batch, writerVars, closerVars, buffer, live>>

\* Bug: the batch is not replaced after a flush.
PublishBatchKept ==
    /\ flush \in {"ok", "err"}
    /\ Publish(ToSet(batch), IF flush = "ok" THEN "flushed" ELSE "failed")
    /\ flush' = "no"
    /\ loop' = IF loop = "drain" THEN "flushStore" ELSE loop
    /\ UNCHANGED <<batch, stored, writerVars, closerVars, buffer>>

\* The events of the batch, and a new batch.
PublishBatch ==
    /\ flush \in {"ok", "err"}
    /\ Publish(ToSet(batch), IF flush = "ok" THEN "flushed" ELSE "failed")
    /\ batch' = <<>>
    /\ flush' = "no"
    /\ loop' = IF loop = "drain" THEN "flushStore" ELSE loop
    /\ UNCHANGED <<stored, writerVars, closerVars, buffer>>

FlushStore ==
    /\ loop = "flushStore"
    /\ loop' = "exited"
    /\ UNCHANGED <<flush, batch, stored, writerVars, closerVars, buffer, live>>

-----------------------------------------------------------------------------
WriteStep(e) ==
    Check(e) \/ Register(e) \/ Recheck(e) \/ Send(e) \/ Drop(e) \/ Leave(e)

CloseStep(c) == Swap(c) \/ Wait(c) \/ WaitReturns(c) \/ Signal(c) \/ Join(c)

LoopStep ==
    \/ Receive \/ Tick \/ SeeDone \/ Drain \/ Drained
    \/ WriteBatch \/ PublishBatch \/ FlushStore

Next ==
    /\ ~panicked
    /\ \/ \E e \in Entries : WriteStep(e)
       \/ \E c \in Closers : CloseStep(c)
       \/ LoopStep

Spec == Init /\ [][Next]_vars

\* Goroutines that can run do.  Whether Write or Close is ever called is the
\* program's choice.
LoggerFairness ==
    /\ \A e \in Entries : WF_vars(~panicked /\ writer[e] # "idle" /\ WriteStep(e))
    /\ \A c \in Closers : WF_vars(~panicked /\ closer[c] # "idle" /\ CloseStep(c))
    /\ WF_vars(~panicked /\ LoopStep)

FairSpec == Spec /\ LoggerFairness

-----------------------------------------------------------------------------
TypeOK ==
    /\ closed \in BOOLEAN /\ done \in BOOLEAN
    /\ storeClosed \in BOOLEAN /\ panicked \in BOOLEAN
    /\ writes \in Nat
    /\ writer \in [Entries -> WriterStages]
    /\ closer \in [Closers -> CloserStages]
    /\ buffer \in Seq(Entries) /\ Len(buffer) <= BufferSize
    /\ batch \in Seq(Entries)
    /\ loop \in LoopStages
    /\ flush \in {"no", "write", "ok", "err"}
    /\ stored \in SUBSET Entries
    /\ live \in [Entries -> Seq(Events)]

\* Accepted entries that flushBatch has not handed to the store yet, and the
\* entries it has.
Held == ToSet(buffer) \cup (IF flush \in {"ok", "err"} THEN {} ELSE ToSet(batch))
Settled ==
    {e \in Entries : live[e] # <<>> /\ Last(live[e]) \in {"failed", "flushed"}}
        \cup (IF flush \in {"ok", "err"} THEN ToSet(batch) ELSE {})

\* The dashboard's view of an entry: Completed first, then at most one
\* terminal event, which is Flushed only for an entry the store has.
LiveLifecycle ==
    \A e \in Entries :
        /\ live[e] \in {<<>>, <<"completed">>} \cup
             {<<"completed", t>> : t \in {"dropped", "failed", "flushed"}}
        /\ live[e] = <<"completed", "flushed">> => e \in stored

\* flushLoop calls the store only while it is open.
StoreOpenWhenUsed == storeClosed => loop = "exited" /\ flush = "no"

\* A finished Close leaves nothing behind: every entry whose Completed event
\* went out was dropped, failed or flushed, and no Write can add another.
CloseLeavesNothing ==
    storeClosed =>
        /\ buffer = <<>> /\ batch = <<>>
        /\ \A e \in Entries : Len(live[e]) # 1

\* The abstract contract: accepted entries are settled once, and the store is
\* closed when none is left.
Contract == INSTANCE DrainContract WITH
    Items <- Entries, held <- Held, settled <- Settled, shut <- storeClosed
ImplementsContract == Contract!Spec

\* Every accepted entry reaches the store or is reported as failed, also when
\* no further entry arrives (the ticker) and when the logger is being closed.
AcceptedIsSettled == \A e \in Entries : e \in Held ~> (e \in Settled \/ panicked)

\* Close returns.
CloseReturns == \A c \in Closers : closer[c] = "swapped" ~> (closer[c] = "returned" \/ panicked)

=============================================================================
