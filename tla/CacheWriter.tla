----------------------------- MODULE CacheWriter -----------------------------
(***************************************************************************)
(* The asynchronous writes of the exact response cache                     *)
(* (internal/responsecache/simple.go): a request hands its answer to a     *)
(* bounded queue and never blocks, workers put queued answers into the     *)
(* store, and close, called when the server shuts down, lets the queue run *)
(* empty before it closes the store.  Handlers that outlived the shutdown  *)
(* deadline still call enqueueWrite while close runs.                      *)
(*                                                                         *)
(* mu is a sync.RWMutex: every write between "locked" and its release      *)
(* holds it for reading, and a close that asks for it keeps new readers    *)
(* out.                                                                    *)
(***************************************************************************)
EXTENDS Naturals, Sequences, FiniteSets, SequencesExt

CONSTANTS
    Jobs,              \* answers that may be stored, one request each
    Workers,           \* cacheWriteWorkerCount of them
    QueueSize,         \* cacheWriteQueueSize
    NoJob

ASSUME WriterAssumption == QueueSize \in Nat \ {0} /\ NoJob \notin Jobs /\ Workers # {}

VARIABLES
    enqueue,    \* where each enqueueWrite call is
    jobs,       \* the channel, oldest job first
    jobsClosed, \* it was closed, together with the closed flag
    writes,     \* counter of the WaitGroup wg
    worker,     \* where each worker is, and its job
    closing,    \* where close is
    stored      \* jobs that Set was called for

enqueueVars == <<enqueue, jobs, writes>>
closeVars == <<jobsClosed, closing>>
writerVars == <<enqueueVars, closeVars, worker, stored>>

EnqueueStages == {"idle", "locked", "added", "dropping", "unlock", "returned"}
Readers == {j \in Jobs : enqueue[j] \in {"locked", "added", "dropping", "unlock"}}
Waiting == [at |-> "waiting", job |-> NoJob]
Gone == [at |-> "gone", job |-> NoJob]
Busy == {w \in Workers : worker[w].at \in {"set", "done"}}

WriterInit ==
    /\ enqueue = [j \in Jobs |-> "idle"]
    /\ jobs = <<>>
    /\ jobsClosed = FALSE
    /\ writes = 0
    /\ worker = [w \in Workers |-> Waiting]
    /\ closing = "idle"
    /\ stored = {}

-----------------------------------------------------------------------------
(* enqueueWrite *)

Enqueues(j, from, to) ==
    /\ enqueue[j] = from
    /\ enqueue' = [enqueue EXCEPT ![j] = to]

\* mu.RLock(), which waits for a close that holds the lock or asks for it.
Ask(j) ==
    /\ closing # "asked"
    /\ Enqueues(j, "idle", "locked")
    /\ UNCHANGED <<jobs, writes, closeVars, worker, stored>>

\* Bug: the flag is not looked at.
RegisterUnasked(j) ==
    /\ Enqueues(j, "locked", "added") /\ writes' = writes + 1
    /\ UNCHANGED <<jobs, closeVars, worker, stored>>

\* The closed flag, then wg.Add(1).
Register(j) ==
    /\ IF jobsClosed
       THEN Enqueues(j, "locked", "unlock") /\ UNCHANGED writes
       ELSE Enqueues(j, "locked", "added") /\ writes' = writes + 1
    /\ UNCHANGED <<jobs, closeVars, worker, stored>>

\* The non-blocking send.  On a closed channel it would panic; here the job
\* would stay in the queue for good and keep close from returning.
Send(j) ==
    /\ IF Len(jobs) < QueueSize
       THEN Enqueues(j, "added", "unlock") /\ jobs' = Append(jobs, j)
       ELSE Enqueues(j, "added", "dropping") /\ UNCHANGED jobs
    /\ UNCHANGED <<writes, closeVars, worker, stored>>

\* The queue was full: wg.Done().
Drop(j) ==
    /\ Enqueues(j, "dropping", "unlock")
    /\ writes' = writes - 1
    /\ UNCHANGED <<jobs, closeVars, worker, stored>>

\* mu.RUnlock()
Release(j) ==
    /\ Enqueues(j, "unlock", "returned")
    /\ UNCHANGED <<jobs, writes, closeVars, worker, stored>>

-----------------------------------------------------------------------------
(* startWorkers *)

Receive(w) ==
    /\ worker[w].at = "waiting"
    /\ jobs # <<>>
    /\ worker' = [worker EXCEPT ![w] = [at |-> "set", job |-> Head(jobs)]]
    /\ jobs' = Tail(jobs)
    /\ UNCHANGED <<enqueue, writes, closeVars, stored>>

\* store.Set, whose error is only logged.
Set(w) ==
    /\ worker[w].at = "set"
    /\ stored' = stored \cup {worker[w].job}
    /\ worker' = [worker EXCEPT ![w].at = "done"]
    /\ UNCHANGED <<enqueueVars, closeVars>>

\* wg.Done()
Settle(w) ==
    /\ worker[w].at = "done"
    /\ writes' = writes - 1
    /\ worker' = [worker EXCEPT ![w] = Waiting]
    /\ UNCHANGED <<enqueue, jobs, closeVars, stored>>

\* The range over jobs ends when the channel is closed and empty.
Exhausted(w) ==
    /\ worker[w].at = "waiting"
    /\ jobsClosed /\ jobs = <<>>
    /\ worker' = [worker EXCEPT ![w] = Gone]
    /\ UNCHANGED <<enqueueVars, closeVars, stored>>

-----------------------------------------------------------------------------
(* close *)

\* mu.Lock() is asked for.
AskClose ==
    /\ closing = "idle"
    /\ closing' = "asked"
    /\ UNCHANGED <<jobsClosed, enqueueVars, worker, stored>>

\* Bug: the channel is left open.
CloseJobsOpen ==
    /\ closing = "asked"
    /\ Readers = {}
    /\ closing' = "joining"
    /\ UNCHANGED <<jobsClosed, enqueueVars, worker, stored>>

\* With the lock held: closed and close(jobs).
CloseJobs ==
    /\ closing = "asked"
    /\ Readers = {}
    /\ closing' = "joining"
    /\ jobsClosed' = TRUE
    /\ UNCHANGED <<enqueueVars, worker, stored>>

\* workers.Wait()
Join ==
    /\ closing = "joining"
    /\ \A w \in Workers : worker[w] = Gone
    /\ closing' = "waiting"
    /\ UNCHANGED <<jobsClosed, enqueueVars, worker, stored>>

\* wg.Wait(), store.Close()
CloseStore ==
    /\ closing = "waiting"
    /\ writes = 0
    /\ closing' = "closed"
    /\ UNCHANGED <<jobsClosed, enqueueVars, worker, stored>>

-----------------------------------------------------------------------------
EnqueueStep(j) == Register(j) \/ Send(j) \/ Drop(j) \/ Release(j)
WorkerStep(w) == Receive(w) \/ Settle(w) \/ Exhausted(w)
CloseStep == CloseJobs \/ Join \/ CloseStore

WriterNext ==
    \/ \E j \in Jobs : Ask(j) \/ EnqueueStep(j)
    \/ \E w \in Workers : Set(w) \/ WorkerStep(w)
    \/ AskClose \/ CloseStep

WriterSpec == WriterInit /\ [][WriterNext]_writerVars

-----------------------------------------------------------------------------
WriterShape ==
    /\ enqueue \in [Jobs -> EnqueueStages]
    /\ jobs \in Seq(Jobs)
    /\ jobsClosed \in BOOLEAN
    /\ worker \in [Workers -> [at : {"waiting", "set", "done", "gone"}, job : Jobs \cup {NoJob}]]
    /\ closing \in {"idle", "asked", "joining", "waiting", "closed"}
    /\ stored \in SUBSET Jobs

WriterTypeOK == WriterShape /\ writes \in Nat

\* A job is in one place: in the queue, with one worker, or in the store; and
\* the call that brought it there is past its send.
Sent == {j \in Jobs : enqueue[j] \in {"unlock", "returned"}}
JobInv ==
    /\ IsInjective(jobs)
    /\ ToSet(jobs) \subseteq Sent \ stored
    /\ stored \subseteq Sent
    /\ \A w \in Workers : worker[w].at = "set" =>
         /\ worker[w].job \in Sent \ (stored \cup ToSet(jobs))
         /\ \A v \in Workers \ {w} : worker[v].at = "set" => worker[v].job # worker[w].job

\* Behind the closed flag nobody is about to send, a worker has left only an
\* empty queue for good, and close goes on when all of them have.
ClosingInv ==
    /\ jobsClosed <=> closing \in {"joining", "waiting", "closed"}
    /\ jobsClosed => \A j \in Jobs : enqueue[j] \notin {"added", "dropping"}
    /\ \A w \in Workers : worker[w].at = "gone" => jobsClosed /\ jobs = <<>>
    /\ closing \in {"waiting", "closed"} => \A w \in Workers : worker[w].at = "gone"

\* The inductive invariant of the writer.
WriterInv == WriterShape /\ JobInv /\ ClosingInv

\* The promise of the asynchronous writers: an answer that was queued is put
\* into the store once, and the store is closed when none is left.
Queued == ToSet(jobs) \cup {worker[w].job : w \in {v \in Workers : worker[v].at = "set"}}
Writer == INSTANCE DrainContract WITH
    Items <- Jobs, held <- Queued, settled <- stored, shut <- (closing = "closed")
CacheImplementsContract == Writer!Spec
=============================================================================
