-------------------------- MODULE SharedStateProofs --------------------------
(* The state that the requests to the gateway share: the circuit breaker of a
   provider, the response caches, native batches, conversations and responses,
   the admin tables, and the application's way down.

   The breaker, for every set of requests, both thresholds and every attempt
   budget.  BreakerInv is about the breaker alone and is preserved by each of
   its methods whoever calls it; RequestInv and ObservedOnce are about one
   request's locals, whatever the breaker does.

   The caches, for any requests, models, fallbacks, workers and queue: the writer
   of the exact cache implements DrainContract, and what the caches replay is
   genuine.  A job of the writer is in one place only (JobInv), and behind the
   closed flag nobody is about to send (ClosingInv), because close sets the flag
   under the lock that every sender holds for reading; the workers therefore
   leave an empty queue that stays empty.

   Batches, for any number of preparers and concurrent requests; conversations
   and responses, for any cap, retention and requests; the admin tables for any
   entries, writers and failures.

   A creation of a batch is argued place by place (CreationInv), the requests on
   it through their copies (CopiesInv): a copy may be stale, but each names the
   rewritten file as long as it exists and calls the batch ended only once it
   has, so writing back any of them, in any order, loses nothing.  A conversation
   that is gone does not return because only its creation, which happens once,
   adds it to the store (EntriesInv, HandlersInv).

   The table services with a mutex are argued by the edit that holds it, which
   alone has moved the table away from the snapshot (MutexInv); those without
   one, by the edits that are still to list or to apply (FreeInv).

   The application comes down in order because the lender of the connection is
   the first of its users to start and the last to be closed (LenderFirst,
   LenderLast), and each caller of Shutdown closes a prefix of one order
   (ClosedInv), after the server has stopped (ServerInv).                     *)
EXTENDS LLMClient, ResponseCache, NativeBatch, Conversations, CachedTables, AppLifecycle,
        SequenceFacts, FiniteSetTheorems, TLAPS

-----------------------------------------------------------------------------
(* The circuit breaker and its requests *)

BreakerStep ==
    \/ UNCHANGED <<breaker, history>>
    \/ AdmitProbe
    \/ RecordSuccess
    \/ RecordFailure
    \/ TimeoutElapses

\* Every method of circuit_breaker.go preserves BreakerInv.
LEMMA BreakerStepPreserves ==
    ASSUME BreakerInv, BreakerStep
    PROVE  BreakerInv'
<1> USE ThresholdAssumption DEF BreakerInv, BreakerTypeOK, CountersMatchState,
        CircuitStates, CountUpTo
<1>1. CASE UNCHANGED <<breaker, history>>
  BY <1>1 DEF breaker, history
<1>2. CASE AdmitProbe
  <2>1. halfOpenAllowed' \in BOOLEAN /\ elapsed' \in BOOLEAN
    BY <1>2 DEF AdmitProbe
  <2> QED BY <1>2, <2>1 DEF AdmitProbe, MayProbe
<1>3. CASE RecordSuccess
  <2>1. CASE SuccessHalfOpen
    BY <1>3, <2>1 DEF RecordSuccess, SuccessHalfOpen, Close
  <2>2. CASE SuccessClosed
    BY <1>3, <2>2 DEF RecordSuccess, SuccessClosed
  <2>3. CASE state = "open" /\ UNCHANGED <<state, failures, successes, halfOpenAllowed>>
    BY <1>3, <2>3 DEF RecordSuccess
  <2> QED BY <1>3, <2>1, <2>2, <2>3 DEF RecordSuccess
<1>4. CASE RecordFailure
  <2>0. halfOpenAllowed' \in BOOLEAN /\ elapsed' \in BOOLEAN
    BY <1>4 DEF RecordFailure, FailureClosed, FailureHalfOpen
  <2>1. CASE FailureClosed
    BY <1>4, <2>0, <2>1 DEF RecordFailure, FailureClosed
  <2>2. CASE FailureHalfOpen
    BY <1>4, <2>0, <2>2 DEF RecordFailure, FailureHalfOpen
  <2>3. CASE state = "open" /\ UNCHANGED <<state, successes, halfOpenAllowed>>
    BY <1>4, <2>0, <2>3 DEF RecordFailure
  <2> QED BY <1>4, <2>1, <2>2, <2>3 DEF RecordFailure
<1>5. CASE TimeoutElapses
  BY <1>5 DEF TimeoutElapses, history
<1> QED BY <1>1, <1>2, <1>3, <1>4, <1>5 DEF BreakerStep

\* Whatever the client does, the breaker takes one of its own steps.
LEMMA NextIsBreakerStep ==
    ASSUME [Next]_vars
    PROVE  BreakerStep
<1>1. CASE UNCHANGED vars
  BY <1>1 DEF vars, BreakerStep
<1>2. ASSUME NEW r \in Requests, Step(r)
      PROVE  BreakerStep
  BY <1>2 DEF Step, Start, Admitted, AdmitClosed, AdmittedAsProbe, Rejected, Reject,
     Attempt, BackoffEnds, Cancelled, RecordOutcome, Charge429, End, BreakerStep
<1>3. CASE Timer
  BY <1>3 DEF Timer, BreakerStep
<1>4. CASE Recover
  BY <1>4 DEF Recover, BreakerStep
<1> QED BY <1>1, <1>2, <1>3, <1>4 DEF Next

\* The part of TypeOK about the requests.
ClientTypeOK ==
    /\ pc \in [Requests -> Stages]
    /\ probe \in [Requests -> BOOLEAN]
    /\ budget \in [Requests -> Budgets]
    /\ attempts \in [Requests -> 0..MaxAttempts]
    /\ last \in [Requests -> Outcomes]
    /\ gauge \in [Requests -> 0..1]
    /\ healthy \in BOOLEAN

ClientInv == ClientTypeOK /\ RequestInv /\ ObservedOnce

LEMMA InvSplits == IInv <=> BreakerInv /\ ClientInv
BY DEF IInv, TypeOK, BreakerInv, ClientInv, ClientTypeOK

LEMMA FinishPreserves ==
    ASSUME ClientInv, NEW r \in Requests, pc[r] # "idle", Finish(r)
    PROVE  ClientInv'
BY ClientAssumption DEF ClientInv, ClientTypeOK, RequestInv, ObservedOnce, Finish,
   GoTo, Stages, Budgets, Outcomes

LEMMA ClientStepPreserves ==
    ASSUME ClientInv, [Next]_vars
    PROVE  ClientInv'
<1> USE ClientAssumption DEF ClientInv, ClientTypeOK, RequestInv, ObservedOnce,
        GoTo, Stages, Budgets
<1>1. CASE UNCHANGED vars
  BY <1>1 DEF vars, clientVars
<1>2. ASSUME NEW r \in Requests, Step(r)
      PROVE  ClientInv'
  <2>1. CASE Start(r)
    BY <2>1 DEF Start
  <2>2. CASE Admitted(r)
    BY <2>2 DEF Admitted
  <2>3. CASE AdmittedAsProbe(r)
    BY <2>3 DEF AdmittedAsProbe
  <2>4. CASE Rejected(r)
    BY <2>4, FinishPreserves DEF Rejected
  <2>5. CASE Attempt(r)
    <3>1. PICK o \in Possible : /\ last' = [last EXCEPT ![r] = o]
                                /\ attempts' = [attempts EXCEPT ![r] = @ + 1]
                                /\ \/ o = "local" /\ GoTo(r, "end")
                                   \/ Retries(r, o) /\ GoTo(r, "backoff")
                                   \/ o # "local" /\ ~Retries(r, o) /\ GoTo(r, "record")
      BY <2>5 DEF Attempt
    <3>2. /\ pc[r] = "attempt"
          /\ UNCHANGED <<probe, budget, gauge, healthy>>
          /\ o \in Outcomes
          /\ attempts[r] < MaxAttempts
      BY <2>5, <3>1 DEF Attempt, Possible
    <3>3. CASE Retries(r, o) /\ GoTo(r, "backoff")
      BY <3>1, <3>2, <3>3 DEF Retries
    <3>4. ASSUME NEW stage \in {"end", "record"}, GoTo(r, stage)
          PROVE  ClientInv'
      BY <3>1, <3>2, <3>4
    <3> QED BY <3>1, <3>3, <3>4
  <2>6. CASE BackoffEnds(r)
    BY <2>6 DEF BackoffEnds
  <2>7. CASE Cancelled(r)
    BY <2>7, FinishPreserves DEF Cancelled
  <2>8. CASE RecordOutcome(r)
    <3>1. /\ pc[r] = "record"
          /\ UNCHANGED <<probe, budget, attempts, last, gauge, healthy>>
          /\ GoTo(r, "end") \/ GoTo(r, "charge429")
      BY <2>8 DEF RecordOutcome
    <3> QED BY <3>1
  <2>9. CASE Charge429(r)
    BY <2>9 DEF Charge429
  <2>10. CASE End(r)
    BY <2>10, FinishPreserves DEF End
  <2> QED
    BY <1>2, <2>1, <2>2, <2>3, <2>4, <2>5, <2>6, <2>7, <2>8, <2>9, <2>10 DEF Step
<1>3. CASE Timer
  BY <1>3 DEF Timer, clientVars
<1>4. CASE Recover
  BY <1>4 DEF Recover
<1> QED BY <1>1, <1>2, <1>3, <1>4 DEF Next

LEMMA InitIInv == Init => IInv
<1> SUFFICES ASSUME Init PROVE BreakerInv /\ ClientInv
  BY InvSplits
<1>1. BreakerInv
  <2>1. halfOpenAllowed \in BOOLEAN /\ elapsed \in BOOLEAN
    BY DEF Init, BreakerInit
  <2> QED BY <2>1, ThresholdAssumption
         DEF Init, BreakerInit, BreakerInv, BreakerTypeOK, CircuitStates, CountersMatchState
<1>2. ClientTypeOK
  <2>1. healthy \in BOOLEAN /\ probe \in [Requests -> BOOLEAN]
    BY DEF Init
  <2> QED BY <2>1, ClientAssumption DEF Init, ClientTypeOK, Stages, Budgets, Outcomes
<1>3. RequestInv /\ ObservedOnce
  BY DEF Init, RequestInv, ObservedOnce
<1> QED BY <1>1, <1>2, <1>3 DEF ClientInv

\* IInv holds in every reachable state.
THEOREM Invariance == Spec => []IInv
<1>1. IInv /\ [Next]_vars => IInv'
  <2>1. SUFFICES ASSUME IInv, [Next]_vars PROVE BreakerInv' /\ ClientInv'
    BY InvSplits DEF IInv, TypeOK, BreakerInv, ClientInv, ClientTypeOK
  <2>2. BreakerInv /\ ClientInv
    BY <2>1, InvSplits
  <2>3. BreakerInv'
    BY <2>1, <2>2, NextIsBreakerStep, BreakerStepPreserves
  <2>4. ClientInv'
    BY <2>1, <2>2, ClientStepPreserves
  <2> QED BY <2>3, <2>4
<1> QED BY InitIInv, <1>1, PTL DEF Spec

\* The variables keep their types: no request makes more than MaxAttempts
\* upstream calls.
THEOREM TypeCorrect == Spec => []TypeOK
<1>1. IInv => TypeOK
  BY DEF IInv
<1> QED BY Invariance, <1>1, PTL

\* The counters of circuit_breaker.go agree with its state.
THEOREM CountersCorrect == Spec => []CountersMatchState
<1>1. IInv => CountersMatchState
  BY DEF IInv, BreakerInv
<1> QED BY Invariance, <1>1, PTL

\* At most one probe is admitted between two recorded outcomes.
THEOREM NoThunderingHerd == Spec => []OneProbePerOutcome
<1>1. IInv => OneProbePerOutcome
  BY DEF IInv, BreakerInv, OneProbePerOutcome
<1> QED BY Invariance, <1>1, PTL

\* A probe makes one upstream call.
THEOREM ProbesAreSingleCalls == Spec => []ProbeNeverRetries
<1>1. IInv => ProbeNeverRetries
  BY DEF IInv, RequestInv, ProbeNeverRetries
<1> QED BY Invariance, <1>1, PTL

\* The metrics hooks balance on every path out of a request.
THEOREM HooksBalance == Spec => []ObservedOnce
<1>1. IInv => ObservedOnce
  BY DEF IInv
<1> QED BY Invariance, <1>1, PTL

\* The circuit opens only on FailureThreshold failures in a row ...
LEMMA OpensOnStreak ==
    ASSUME IInv, [Next]_vars, state = "closed", state' = "open"
    PROVE  failStreak' = FailureThreshold
<1>1. BreakerInv /\ BreakerStep
  BY NextIsBreakerStep DEF IInv
<1>2. RecordFailure
  BY <1>1 DEF BreakerStep, breaker, AdmitProbe, MayProbe, RecordSuccess, SuccessHalfOpen,
     SuccessClosed, TimeoutElapses
<1>3. /\ failures' = CountUpTo(failures, FailureThreshold)
      /\ failStreak' = CountUpTo(failStreak, FailureThreshold)
      /\ failures' >= FailureThreshold
  BY <1>2 DEF RecordFailure, FailureClosed, FailureHalfOpen
<1>4. /\ failures \in Nat /\ failures < FailureThreshold
      /\ failStreak \in 0..FailureThreshold /\ failures <= failStreak
  BY <1>1, ThresholdAssumption DEF BreakerInv, BreakerTypeOK, CountersMatchState
<1> QED BY <1>3, <1>4, ThresholdAssumption DEF CountUpTo

\* ... and closes only on SuccessThreshold successes in a row.
LEMMA ClosesOnStreak ==
    ASSUME IInv, [Next]_vars, state = "halfOpen", state' = "closed"
    PROVE  okStreak' = SuccessThreshold
<1>1. BreakerInv /\ BreakerStep
  BY NextIsBreakerStep DEF IInv
<1>2. RecordSuccess /\ SuccessHalfOpen
  BY <1>1 DEF BreakerStep, breaker, AdmitProbe, MayProbe, RecordSuccess, SuccessClosed,
     RecordFailure, FailureClosed, FailureHalfOpen, TimeoutElapses
<1> QED BY <1>1, <1>2, ThresholdAssumption DEF RecordSuccess, SuccessHalfOpen, CountUpTo,
       BreakerInv, BreakerTypeOK

\* Both switches of the circuit, for any thresholds and any number of requests.
THEOREM SwitchesRightly == Spec => SwitchesOnStreaks
<1>1. IInv /\ [Next]_vars =>
        [/\ state = "closed" /\ state' = "open" => failStreak' = FailureThreshold
         /\ state = "halfOpen" /\ state' = "closed" => okStreak' = SuccessThreshold]_vars
  BY OpensOnStreak, ClosesOnStreak
<1> QED BY Invariance, <1>1, PTL DEF Spec, SwitchesOnStreaks
-----------------------------------------------------------------------------

-----------------------------------------------------------------------------
(* The writer's invariant *)

LEMMA WriterStarts == WriterInit => WriterInv
<1> SUFFICES ASSUME WriterInit PROVE WriterInv
  OBVIOUS
<1>1. jobs = <<>> /\ jobs \in Seq(Jobs) /\ ToSet(jobs) = {} /\ IsInjective(jobs)
  BY DEF WriterInit, ToSet, IsInjective
<1>2. WriterShape
  BY <1>1 DEF WriterInit, WriterShape, EnqueueStages, Waiting
<1>3. JobInv
  BY <1>1 DEF WriterInit, JobInv, Waiting
<1>4. ClosingInv
  BY DEF WriterInit, ClosingInv, Waiting
<1> QED BY <1>2, <1>3, <1>4 DEF WriterInv

\* A call that moves on without a send keeps the invariant, if it does not take
\* a place before its send once the flag is set.
LEMMA EnqueueMoves ==
    ASSUME WriterInv, NEW j \in Jobs, NEW from \in EnqueueStages, NEW to \in EnqueueStages,
           Enqueues(j, from, to),
           from \in {"unlock", "returned"} => to \in {"unlock", "returned"},
           to \in {"added", "dropping"} => ~jobsClosed,
           UNCHANGED <<jobs, jobsClosed, closing, worker, stored>>
    PROVE  WriterInv'
<1>1. enqueue' \in [Jobs -> EnqueueStages] /\ enqueue'[j] = to /\ \A k \in Jobs \ {j} : enqueue'[k] = enqueue[k]
  BY DEF WriterInv, WriterShape, Enqueues
<1>2. Sent \subseteq Sent'
  BY <1>1 DEF Sent, Enqueues
<1>3. WriterShape'
  BY <1>1 DEF WriterInv, WriterShape
<1>4. JobInv'
  BY <1>2 DEF WriterInv, JobInv
<1>5. ClosingInv'
  BY <1>1 DEF WriterInv, ClosingInv
<1> QED BY <1>3, <1>4, <1>5 DEF WriterInv

LEMMA SendKeeps ==
    ASSUME WriterInv, NEW j \in Jobs, Send(j)
    PROVE  WriterInv'
<1>1. CASE Len(jobs) < QueueSize
  <2>1. /\ enqueue[j] = "added" /\ enqueue' = [enqueue EXCEPT ![j] = "unlock"]
        /\ jobs' = Append(jobs, j)
        /\ UNCHANGED <<jobsClosed, closing, worker, stored>>
    BY <1>1 DEF Send, Enqueues, closeVars
  <2>2. /\ enqueue' \in [Jobs -> EnqueueStages] /\ enqueue'[j] = "unlock"
        /\ \A k \in Jobs \ {j} : enqueue'[k] = enqueue[k]
    BY <2>1 DEF WriterInv, WriterShape, EnqueueStages
  <2>3. j \notin Sent /\ Sent' = Sent \cup {j}
    BY <2>1, <2>2 DEF Sent
  <2>4. j \notin ToSet(jobs)
    BY <2>3 DEF WriterInv, JobInv
  <2>5. jobs' \in Seq(Jobs) /\ ToSet(jobs') = ToSet(jobs) \cup {j} /\ IsInjective(jobs')
    BY <2>1, <2>4, AppendToSet DEF WriterInv, WriterShape, JobInv
  <2>6. WriterShape'
    BY <2>1, <2>2, <2>5 DEF WriterInv, WriterShape
  <2>7. JobInv'
    BY <2>1, <2>3, <2>5 DEF WriterInv, JobInv
  <2>8. ~jobsClosed
    BY <2>1 DEF WriterInv, ClosingInv
  <2>9. ClosingInv'
    BY <2>1, <2>8 DEF WriterInv, ClosingInv
  <2> QED BY <2>6, <2>7, <2>9 DEF WriterInv
<1>2. CASE ~(Len(jobs) < QueueSize)
  <2>1. Enqueues(j, "added", "dropping") /\ UNCHANGED <<jobs, jobsClosed, closing, worker, stored>>
    BY <1>2 DEF Send, closeVars
  <2>2. ~jobsClosed
    BY <2>1 DEF WriterInv, ClosingInv, Enqueues
  <2> QED BY <2>1, <2>2, EnqueueMoves DEF EnqueueStages
<1> QED BY <1>1, <1>2

LEMMA EnqueueKeeps ==
    ASSUME WriterInv, NEW j \in Jobs, Ask(j) \/ EnqueueStep(j)
    PROVE  WriterInv'
<1>1. CASE Ask(j)
  BY <1>1, EnqueueMoves DEF Ask, EnqueueStages, closeVars
<1>2. CASE Register(j)
  <2>1. UNCHANGED <<jobs, jobsClosed, closing, worker, stored>>
    BY <1>2 DEF Register, closeVars
  <2>2. Enqueues(j, "locked", "unlock") \/ (Enqueues(j, "locked", "added") /\ ~jobsClosed)
    BY <1>2 DEF Register
  <2> QED BY <2>1, <2>2, EnqueueMoves DEF EnqueueStages
<1>3. CASE Send(j)
  BY <1>3, SendKeeps
<1>4. CASE Drop(j)
  BY <1>4, EnqueueMoves DEF Drop, EnqueueStages, closeVars
<1>5. CASE Release(j)
  BY <1>5, EnqueueMoves DEF Release, EnqueueStages, closeVars
<1> QED BY <1>1, <1>2, <1>3, <1>4, <1>5 DEF EnqueueStep

LEMMA ReceiveKeeps ==
    ASSUME WriterInv, NEW w \in Workers, Receive(w)
    PROVE  WriterInv'
<1> DEFINE j == Head(jobs)
<1>1. /\ j \in Jobs /\ Tail(jobs) \in Seq(Jobs)
      /\ j \in ToSet(jobs) /\ ToSet(Tail(jobs)) = ToSet(jobs) \ {j} /\ IsInjective(Tail(jobs))
  BY TakeHead DEF WriterInv, WriterShape, JobInv, Receive
<1> HIDE DEF j
<1>2. /\ worker[w].at = "waiting" /\ jobs' = Tail(jobs)
      /\ worker' = [worker EXCEPT ![w] = [at |-> "set", job |-> j]]
      /\ UNCHANGED <<enqueue, jobsClosed, closing, stored>>
  BY DEF Receive, closeVars, j
<1>3. /\ worker'[w] = [at |-> "set", job |-> j] /\ \A v \in Workers \ {w} : worker'[v] = worker[v]
      /\ worker'[w].at = "set" /\ worker'[w].job = j
  BY <1>2 DEF WriterInv, WriterShape
<1>4. WriterShape'
  BY <1>1, <1>2, <1>3 DEF WriterInv, WriterShape
<1>5. Sent' = Sent
  BY <1>2 DEF Sent
<1>6. JobInv'
  <2>1. IsInjective(jobs') /\ ToSet(jobs') \subseteq Sent' \ stored' /\ stored' \subseteq Sent'
    BY <1>1, <1>2, <1>5 DEF WriterInv, JobInv
  <2>2. /\ j \in Sent' \ (stored' \cup ToSet(jobs'))
        /\ \A v \in Workers \ {w} : worker[v].at = "set" => worker[v].job # j
    BY <1>1, <1>2, <1>5 DEF WriterInv, JobInv
  <2>3. ASSUME NEW v \in Workers, worker'[v].at = "set"
        PROVE  /\ worker'[v].job \in Sent' \ (stored' \cup ToSet(jobs'))
               /\ \A u \in Workers \ {v} : worker'[u].at = "set" => worker'[u].job # worker'[v].job
    <3>1. CASE v = w
      BY <1>3, <2>2, <3>1
    <3>2. CASE v # w
      <4>1. worker'[v] = worker[v] /\ worker[v].at = "set"
        BY <1>3, <2>3, <3>2
      <4>2. /\ worker[v].job \in Sent \ (stored \cup ToSet(jobs))
            /\ \A u \in Workers \ {v} : worker[u].at = "set" => worker[u].job # worker[v].job
        BY <4>1 DEF WriterInv, JobInv
      <4>3. worker[v].job # j
        BY <1>1, <4>2
      <4> QED BY <1>1, <1>2, <1>3, <1>5, <4>1, <4>2, <4>3
    <3> QED BY <3>1, <3>2
  <2> QED BY <2>1, <2>3 DEF JobInv
<1>7. ClosingInv'
  <2>1. jobs # <<>>
    BY DEF Receive
  <2>2. \A v \in Workers : worker[v].at # "gone"
    BY <2>1 DEF WriterInv, ClosingInv
  <2>3. closing \notin {"waiting", "closed"}
    BY <2>2, WriterAssumption DEF WriterInv, ClosingInv
  <2> QED BY <1>2, <1>3, <2>2, <2>3 DEF WriterInv, ClosingInv
<1> QED BY <1>4, <1>6, <1>7 DEF WriterInv

\* Once the store has the job it is in no other place.
LEMMA SetKeeps ==
    ASSUME WriterInv, NEW w \in Workers, Set(w)
    PROVE  WriterInv'
<1> DEFINE j == worker[w].job
<1>1. /\ worker[w].at = "set" /\ j \in Sent \ (stored \cup ToSet(jobs)) /\ j \in Jobs
      /\ \A v \in Workers \ {w} : worker[v].at = "set" => worker[v].job # j
  BY DEF Set, WriterInv, JobInv, Sent
<1> HIDE DEF j
<1>2. /\ stored' = stored \cup {j}
      /\ worker' = [worker EXCEPT ![w].at = "done"]
      /\ UNCHANGED <<enqueue, jobs, jobsClosed, closing>>
  BY DEF Set, enqueueVars, closeVars, j
<1>3. /\ worker'[w] = [at |-> "done", job |-> j]
      /\ worker'[w].at = "done" /\ \A v \in Workers \ {w} : worker'[v] = worker[v]
  BY <1>2 DEF WriterInv, WriterShape, j
<1>4. WriterShape'
  BY <1>1, <1>2, <1>3 DEF WriterInv, WriterShape
<1>5. Sent' = Sent
  BY <1>2 DEF Sent
<1>6. JobInv'
  <2>1. IsInjective(jobs') /\ ToSet(jobs') \subseteq Sent' \ stored' /\ stored' \subseteq Sent'
    BY <1>1, <1>2, <1>5 DEF WriterInv, JobInv
  <2>2. ASSUME NEW v \in Workers, worker'[v].at = "set"
        PROVE  /\ worker'[v].job \in Sent' \ (stored' \cup ToSet(jobs'))
               /\ \A u \in Workers \ {v} : worker'[u].at = "set" => worker'[u].job # worker'[v].job
    <3>1. v # w /\ worker'[v] = worker[v] /\ worker[v].at = "set" /\ worker[v].job # j
      BY <1>1, <1>3, <2>2
    <3>2. /\ worker[v].job \in Sent \ (stored \cup ToSet(jobs))
          /\ \A u \in Workers \ {v} : worker[u].at = "set" => worker[u].job # worker[v].job
      BY <3>1 DEF WriterInv, JobInv
    <3> QED BY <1>2, <1>3, <1>5, <3>1, <3>2
  <2> QED BY <2>1, <2>2 DEF JobInv
<1>7. ClosingInv'
  <2>1. closing \notin {"waiting", "closed"}
    BY <1>1 DEF WriterInv, ClosingInv
  <2> QED BY <1>2, <1>3, <2>1 DEF WriterInv, ClosingInv
<1> QED BY <1>4, <1>6, <1>7 DEF WriterInv

\* A worker that is through with its job, or with its work.
LEMMA LeaveKeeps ==
    ASSUME WriterInv, NEW w \in Workers, Settle(w) \/ Exhausted(w)
    PROVE  WriterInv'
<1>1. CASE Settle(w)
  <2>1. /\ worker[w].at = "done" /\ worker' = [worker EXCEPT ![w] = Waiting]
        /\ UNCHANGED <<enqueue, jobs, jobsClosed, closing, stored>>
    BY <1>1 DEF Settle, closeVars
  <2>2. worker'[w] = Waiting /\ worker'[w].at = "waiting" /\ \A v \in Workers \ {w} : worker'[v] = worker[v]
    BY <2>1 DEF WriterInv, WriterShape, Waiting
  <2>3. WriterShape'
    BY <2>1, <2>2 DEF WriterInv, WriterShape, Waiting
  <2>4. JobInv'
    BY <2>1, <2>2 DEF WriterInv, JobInv, Sent
  <2>5. closing \notin {"waiting", "closed"}
    BY <2>1 DEF WriterInv, ClosingInv
  <2>6. ClosingInv'
    BY <2>1, <2>2, <2>5 DEF WriterInv, ClosingInv
  <2> QED BY <2>3, <2>4, <2>6 DEF WriterInv
<1>2. CASE Exhausted(w)
  <2>1. /\ jobsClosed /\ jobs = <<>> /\ worker' = [worker EXCEPT ![w] = Gone]
        /\ UNCHANGED <<enqueue, jobs, jobsClosed, closing, stored>>
    BY <1>2 DEF Exhausted, enqueueVars, closeVars
  <2>2. worker'[w] = Gone /\ worker'[w].at = "gone" /\ \A v \in Workers \ {w} : worker'[v] = worker[v]
    BY <2>1 DEF WriterInv, WriterShape, Gone
  <2>3. WriterShape'
    BY <2>1, <2>2 DEF WriterInv, WriterShape, Gone
  <2>4. JobInv'
    BY <2>1, <2>2 DEF WriterInv, JobInv, Sent
  <2>5. ClosingInv'
    BY <2>1, <2>2 DEF WriterInv, ClosingInv
  <2> QED BY <2>3, <2>4, <2>5 DEF WriterInv
<1> QED BY <1>1, <1>2

\* close moves on only when nobody can undo what it waited for.
LEMMA CloseJobsKeep ==
    ASSUME WriterInv, AskClose \/ CloseStep
    PROVE  WriterInv'
<1>1. UNCHANGED <<enqueue, jobs, worker, stored>>
  BY DEF AskClose, CloseStep, CloseJobs, Join, CloseStore, enqueueVars
<1>2. WriterShape' /\ JobInv'
  <2>1. closing' \in {"asked", "joining", "waiting", "closed"} /\ jobsClosed' \in BOOLEAN
    BY DEF AskClose, CloseStep, CloseJobs, Join, CloseStore, WriterInv, WriterShape
  <2> QED BY <1>1, <2>1 DEF WriterInv, WriterShape, JobInv, Sent
<1>3. ASSUME AskClose PROVE ClosingInv'
  BY <1>1, <1>3 DEF AskClose, WriterInv, ClosingInv
<1>4. ASSUME CloseJobs PROVE ClosingInv'
  <2>1. \A j \in Jobs : enqueue[j] \notin {"added", "dropping"}
    BY <1>4 DEF CloseJobs, Readers
  <2> QED BY <1>1, <1>4, <2>1 DEF CloseJobs, WriterInv, ClosingInv
<1>5. ASSUME Join PROVE ClosingInv'
  BY <1>1, <1>5 DEF Join, WriterInv, ClosingInv, Gone
<1>6. ASSUME CloseStore PROVE ClosingInv'
  BY <1>1, <1>6 DEF CloseStore, WriterInv, ClosingInv
<1> QED BY <1>2, <1>3, <1>4, <1>5, <1>6 DEF CloseStep, WriterInv

LEMMA WriterStepKeeps ==
    ASSUME WriterInv, [WriterNext]_writerVars
    PROVE  WriterInv'
<1>1. CASE UNCHANGED writerVars
  BY <1>1 DEF writerVars, enqueueVars, closeVars, WriterInv, WriterShape, JobInv, ClosingInv, Sent
<1>2. CASE WriterNext
  BY <1>2, EnqueueKeeps, ReceiveKeeps, SetKeeps, LeaveKeeps, CloseJobsKeep DEF WriterNext, WorkerStep
<1> QED BY <1>1, <1>2

\* Whatever the requests, the workers and close do, an answer that was queued is
\* in one place only, and behind the closed flag nobody sends (simple.go).
THEOREM WriterInvariance == WriterSpec => []WriterInv
BY WriterStarts, WriterStepKeeps, PTL DEF WriterSpec

-----------------------------------------------------------------------------
(* The writer implements DrainContract *)

LEMMA EnqueueRefines ==
    ASSUME WriterInv, NEW j \in Jobs, Ask(j) \/ EnqueueStep(j)
    PROVE  [Writer!Next]_(Writer!vars)
<1>1. CASE Ask(j) \/ Register(j) \/ Drop(j) \/ Release(j)
  BY <1>1 DEF Ask, Register, Drop, Release, closeVars, Queued, Writer!vars
<1>2. CASE Send(j) /\ ~(Len(jobs) < QueueSize)
  BY <1>2 DEF Send, closeVars, Queued, Writer!vars
<1>3. CASE Send(j) /\ Len(jobs) < QueueSize
  <2>1. enqueue[j] = "added" /\ jobs' = Append(jobs, j) /\ UNCHANGED <<closing, worker, stored>>
    BY <1>3 DEF Send, Enqueues, closeVars
  <2>2. ToSet(jobs') = ToSet(jobs) \cup {j}
    BY <2>1, AppendToSet DEF WriterInv, WriterShape
  <2>3. Queued' = Queued \cup {j}
    BY <2>1, <2>2 DEF Queued
  <2>4. j \notin Queued \cup stored
    BY <2>1 DEF WriterInv, JobInv, Sent, Queued
  <2>5. closing # "closed"
    BY <2>1 DEF WriterInv, ClosingInv
  <2> QED BY <2>1, <2>3, <2>4, <2>5 DEF Writer!Next, Writer!Accept
<1> QED BY <1>1, <1>2, <1>3 DEF EnqueueStep

LEMMA WorkerRefines ==
    ASSUME WriterInv, NEW w \in Workers, Set(w) \/ WorkerStep(w)
    PROVE  [Writer!Next]_(Writer!vars)
<1>1. CASE Receive(w)
  <2> DEFINE j == Head(jobs)
  <2>1. j \in ToSet(jobs) /\ ToSet(Tail(jobs)) = ToSet(jobs) \ {j}
    BY <1>1, TakeHead DEF WriterInv, WriterShape, JobInv, Receive
  <2> HIDE DEF j
  <2>2. /\ worker[w].at = "waiting" /\ jobs' = Tail(jobs)
        /\ worker' = [worker EXCEPT ![w] = [at |-> "set", job |-> j]]
        /\ UNCHANGED <<closing, stored>>
    BY <1>1 DEF Receive, closeVars, j
  <2>3. /\ worker'[w].at = "set" /\ worker'[w].job = j
        /\ \A v \in Workers \ {w} : worker'[v] = worker[v]
    BY <2>2 DEF WriterInv, WriterShape
  <2>4. Queued' = Queued
    BY <2>1, <2>2, <2>3 DEF Queued
  <2> QED BY <2>2, <2>4 DEF Writer!vars
<1>2. CASE Set(w)
  <2> DEFINE j == worker[w].job
  <2>1. /\ worker[w].at = "set" /\ j \notin ToSet(jobs)
        /\ \A v \in Workers \ {w} : worker[v].at = "set" => worker[v].job # j
    BY <1>2 DEF Set, WriterInv, JobInv
  <2>2. /\ stored' = stored \cup {j} /\ UNCHANGED <<jobs, closing>>
        /\ worker' = [worker EXCEPT ![w].at = "done"]
    BY <1>2 DEF Set, enqueueVars, closeVars
  <2>3. /\ worker'[w].at = "done" /\ \A v \in Workers \ {w} : worker'[v] = worker[v]
    BY <2>2 DEF WriterInv, WriterShape
  <2>4. j \in Queued
    BY <2>1 DEF Queued
  <2>5. Queued' = Queued \ {j}
    BY <2>1, <2>2, <2>3 DEF Queued
  <2>6. closing # "closed"
    BY <2>1 DEF WriterInv, ClosingInv
  <2>7. {j} \in SUBSET Queued /\ Writer!Settle({j})
    BY <2>2, <2>4, <2>5, <2>6 DEF Writer!Settle
  <2> QED BY <2>7 DEF Writer!Next
<1>3. CASE Settle(w)
  <2>1. /\ worker[w].at = "done" /\ worker' = [worker EXCEPT ![w] = Waiting]
        /\ UNCHANGED <<jobs, closing, stored>>
    BY <1>3 DEF Settle, closeVars
  <2>2. worker'[w].at = "waiting" /\ \A v \in Workers \ {w} : worker'[v] = worker[v]
    BY <2>1 DEF WriterInv, WriterShape, Waiting
  <2>3. Queued' = Queued
    BY <2>1, <2>2 DEF Queued
  <2> QED BY <2>1, <2>3 DEF Writer!vars
<1>4. CASE Exhausted(w)
  <2>1. /\ worker[w].at = "waiting" /\ worker' = [worker EXCEPT ![w] = Gone]
        /\ UNCHANGED <<jobs, closing, stored>>
    BY <1>4 DEF Exhausted, enqueueVars, closeVars
  <2>2. worker'[w].at = "gone" /\ \A v \in Workers \ {w} : worker'[v] = worker[v]
    BY <2>1 DEF WriterInv, WriterShape, Gone
  <2>3. Queued' = Queued
    BY <2>1, <2>2 DEF Queued
  <2> QED BY <2>1, <2>3 DEF Writer!vars
<1> QED BY <1>1, <1>2, <1>3, <1>4 DEF WorkerStep

LEMMA CloseRefines ==
    ASSUME WriterInv, AskClose \/ CloseStep
    PROVE  [Writer!Next]_(Writer!vars)
<1>1. CASE AskClose \/ CloseJobs \/ Join
  BY <1>1 DEF AskClose, CloseJobs, Join, enqueueVars, Queued, Writer!vars
<1>2. CASE CloseStore
  <2>1. closing = "waiting" /\ closing' = "closed" /\ UNCHANGED <<jobs, worker, stored>>
    BY <1>2 DEF CloseStore, enqueueVars
  <2>2. \A w \in Workers : worker[w].at = "gone"
    BY <2>1 DEF WriterInv, ClosingInv
  <2>3. jobs = <<>>
    BY <2>2, WriterAssumption DEF WriterInv, ClosingInv
  <2>4. Queued = {} /\ Queued' = Queued
    BY <2>1, <2>2, <2>3, EmptyToSet DEF Queued, WriterInv, WriterShape
  <2> QED BY <2>1, <2>4 DEF Writer!Next, Writer!Shut
<1> QED BY <1>1, <1>2 DEF CloseStep

LEMMA WriterStepRefines ==
    ASSUME WriterInv, [WriterNext]_writerVars
    PROVE  [Writer!Next]_(Writer!vars)
<1>1. CASE UNCHANGED writerVars
  BY <1>1 DEF writerVars, enqueueVars, closeVars, Queued, Writer!vars
<1>2. CASE WriterNext
  BY <1>2, EnqueueRefines, WorkerRefines, CloseRefines DEF WriterNext
<1> QED BY <1>1, <1>2

LEMMA WriterInitRefines == WriterInit => Writer!Init
<1> SUFFICES ASSUME WriterInit PROVE Writer!Init
  OBVIOUS
<1>1. ToSet(jobs) = {}
  BY DEF WriterInit, ToSet
<1> QED BY <1>1 DEF WriterInit, Queued, Waiting, Writer!Init

\* The asynchronous writer of the exact cache, by itself, keeps the contract of
\* the gateway's writers: a queued answer is put into the store once, and the
\* store is closed only when no queued answer is left.
THEOREM WriterRefinement == WriterSpec => CacheImplementsContract
BY WriterInitRefines, WriterInvariance, WriterStepRefines, PTL
   DEF WriterSpec, Writer!Spec, CacheImplementsContract

\* A step of the request path is a step of the writer, or none of its business.
LEMMA CacheStepWrites == [CacheNext]_cacheVars => [WriterNext]_writerVars
<1> SUFFICES ASSUME [CacheNext]_cacheVars PROVE [WriterNext]_writerVars
  OBVIOUS
<1>1. CASE UNCHANGED cacheVars
  BY <1>1 DEF cacheVars
<1>2. ASSUME NEW r \in Jobs, Prepare(r) \/ Handle(r) \/ InsertSemantic(r)
      PROVE  [WriterNext]_writerVars
  <2>1. CASE Enqueue(r)
    BY <2>1 DEF Enqueue, WriterNext
  <2>2. CASE ~Enqueue(r)
    BY <1>2, <2>2 DEF Prepare, Handle, InsertSemantic, HitExact, MissExact, HitSemantic,
       MissSemantic, BypassSemantic, PrimaryAnswers, PrimaryUnavailable, PrimaryRefuses,
       FallbackPassed, FallbackAnswers, FallbacksSpent, Captured, NotCaptured, Replay, Fails,
       AnsweredBy
  <2> QED BY <2>1, <2>2
<1>3. ASSUME NEW w \in Workers, StoreExact(w) \/ Background(w) PROVE [WriterNext]_writerVars
  BY <1>3 DEF StoreExact, Background, WriterNext
<1>4. CASE Closes
  BY <1>4 DEF Closes, WriterNext
<1>5. CASE CloseSemantic \/ Retarget \/ Deny
  BY <1>5 DEF CloseSemantic, Retarget, Deny
<1> QED BY <1>1, <1>2, <1>3, <1>4, <1>5 DEF CacheNext

LEMMA CacheWrites == CacheSpec => WriterSpec
<1>1. CacheInit => WriterInit
  BY DEF CacheInit
<1> QED BY <1>1, CacheStepWrites, PTL DEF CacheSpec, WriterSpec

\* The writer keeps its contract in the middle of everything the request path
\* does around it: hits, misses, fallbacks, moved aliases and the shutdown.
THEOREM CacheRefinement == CacheSpec => CacheImplementsContract
BY CacheWrites, WriterRefinement

-----------------------------------------------------------------------------
(* What the caches replay *)

ServingSet == Served \cup Replayed \cup Remembered \cup {Unasked, Over}
AnswerSet == ModelAnswers \cup {NoAnswer}
Underway == {"exact", "semantic", "dispatch", "fallback", "capture"}

LEMMA RequestShape ==
    ASSUME NEW s \in ServingSet
    PROVE  /\ s.at \in Underway => s \in Served
           /\ s.at = "hit" => s \in Replayed
           /\ s.at = "done" => s \in Remembered
BY DEF ServingSet, Served, Replayed, Remembered, Unasked, Over, Underway

LEMMA RequestMoves ==
    ASSUME NEW s \in Served, NEW at \in Underway
    PROVE  /\ [s EXCEPT !.at = at] \in Served
           /\ [s EXCEPT !.at = at].at = at
           /\ [s EXCEPT !.at = at].key = s.key
           /\ [s EXCEPT !.at = at].fallback = s.fallback
BY DEF Served, Underway

\* Where a request's step leads to decides what has to be known of its answer.
LEMMA CacheRequestStep ==
    ASSUME GenuineInv, NEW r \in Jobs, NEW s \in ServingSet, NEW a \in AnswerSet,
           serving' = [serving EXCEPT ![r] = s], answer' = [answer EXCEPT ![r] = a],
           UNCHANGED <<exact, semantic, enqueue>>,
           inserting' \subseteq inserting \cup {r},
           r \in inserting' => s.at = "done",
           s.at = "capture" => OwnAnswer(a, s),
           s.at = "hit" => ReplayedAnswer(a, s),
           s.at = "done" => GenuineExact(a, s.key),
           enqueue[r] # "idle" =>
             s.at = "done" \/ (s.at = "capture" /\ ~s.fallback /\ GenuineExact(a, s.key))
    PROVE  GenuineInv'
<1>1. /\ serving' \in [Jobs -> ServingSet] /\ serving'[r] = s
      /\ \A q \in Jobs \ {r} : serving'[q] = serving[q]
      /\ answer' \in [Jobs -> AnswerSet] /\ answer'[r] = a
      /\ \A q \in Jobs \ {r} : answer'[q] = answer[q]
  BY DEF GenuineInv, ServingSet, AnswerSet
<1>2. /\ \A q \in Jobs : At(q, "capture")' => OwnAnswer(answer'[q], serving'[q])
      /\ \A q \in Jobs : At(q, "hit")' => ReplayedAnswer(answer'[q], serving'[q])
  BY <1>1 DEF GenuineInv, At
<1>3. \A q \in Jobs : At(q, "done")' => GenuineExact(answer'[q], serving'[q].key)
  BY <1>1 DEF GenuineInv, At
<1>4. \A q \in Jobs : enqueue'[q] # "idle" =>
         At(q, "done")' \/ (At(q, "capture")' /\ ~serving'[q].fallback
                              /\ GenuineExact(answer'[q], serving'[q].key))
  BY <1>1 DEF GenuineInv, At
<1>5. inserting' \subseteq {q \in Jobs : At(q, "done")'}
  BY <1>1 DEF GenuineInv, At
<1>6. /\ \A k \in Keys : exact'[k] # NoAnswer => GenuineExact(exact'[k], k)
      /\ \A k \in SemanticKeys : semantic'[k] # NoAnswer => Genuine(semantic'[k], k.model)
      /\ exact' \in [Keys -> AnswerSet] /\ semantic' \in [SemanticKeys -> AnswerSet]
  BY DEF GenuineInv, AnswerSet
<1> QED BY <1>1, <1>2, <1>3, <1>4, <1>5, <1>6 DEF GenuineInv, ServingSet, AnswerSet, Genuine, GenuineExact,
           OwnAnswer, ReplayedAnswer

\* A request that has no answer yet was not offered to a cache.
LEMMA NotOffered ==
    ASSUME GenuineInv, NEW r \in Jobs, serving[r].at \notin {"capture", "done"}
    PROVE  enqueue[r] = "idle" /\ r \notin inserting
BY DEF GenuineInv, At

LEMMA ShapeOf ==
    ASSUME GenuineInv, NEW r \in Jobs
    PROVE  /\ serving[r] \in ServingSet /\ answer[r] \in AnswerSet
           /\ answer = [answer EXCEPT ![r] = answer[r]]
           /\ serving[r].at \in Underway => serving[r] \in Served /\ serving[r].key \in Keys
           /\ serving[r].at \in {"hit", "done"} => serving[r].key \in Keys
<1>1. serving[r] \in ServingSet /\ answer[r] \in AnswerSet /\ answer = [answer EXCEPT ![r] = answer[r]]
  BY DEF GenuineInv, ServingSet, AnswerSet
<1> QED BY <1>1, RequestShape DEF Served, Replayed, Remembered

\* A request that moves on towards its model, its answer still to come.
LEMMA TowardsModel ==
    ASSUME GenuineInv, NEW r \in Jobs, NEW s \in Served,
           serving[r].at \notin {"capture", "done"}, s.at \in Underway \ {"capture"},
           serving' = [serving EXCEPT ![r] = s],
           UNCHANGED <<answer, exact, semantic, enqueue, inserting>>
    PROVE  GenuineInv'
<1>1. s \in ServingSet /\ answer[r] \in AnswerSet /\ answer' = [answer EXCEPT ![r] = answer[r]]
  BY ShapeOf DEF ServingSet
<1>2. enqueue[r] = "idle" /\ r \notin inserting
  BY NotOffered
<1>3. s.at \notin {"capture", "hit", "done"}
  BY DEF Underway
<1> QED BY <1>1, <1>2, <1>3, CacheRequestStep

LEMMA LookupKeeps ==
    ASSUME GenuineInv, NEW r \in Jobs,
           Prepare(r) \/ MissExact(r) \/ MissSemantic(r) \/ BypassSemantic(r)
    PROVE  GenuineInv'
<1>1. UNCHANGED <<answer, exact, semantic, enqueue, inserting>>
  BY DEF Prepare, MissExact, MissSemantic, BypassSemantic, semanticVars, writerVars, enqueueVars
<1>2. serving[r].at \notin {"capture", "done"}
  BY DEF Prepare, MissExact, MissSemantic, BypassSemantic, At
<1>3. CASE Prepare(r)
  <2>1. PICK k \in Keys, layers \in SUBSET Layers :
          serving' = [serving EXCEPT ![r] =
                     [at |-> "exact", key |-> k, layers |-> layers, left |-> <<>>, fallback |-> FALSE]]
    BY <1>3 DEF Prepare
  <2> DEFINE s == [at |-> "exact", key |-> k, layers |-> layers, left |-> <<>>, fallback |-> FALSE]
  <2>2. serving' = [serving EXCEPT ![r] = s]
    BY <2>1
  <2>4. s \in Served
    BY DEF Served
  <2>5. s.at \in Underway \ {"capture"}
    BY DEF Underway
  <2> HIDE DEF s
  <2> QED BY <1>1, <1>2, <2>2, <2>4, <2>5, TowardsModel
<1>4. ASSUME NEW at \in {"semantic", "dispatch"}, Moves(r, at), serving[r].at \in Underway
      PROVE  GenuineInv'
  <2> DEFINE s == [serving[r] EXCEPT !.at = at]
  <2>1. serving' = [serving EXCEPT ![r] = s]
    BY <1>4 DEF Moves
  <2>2. at \in Underway \ {"capture"} /\ serving[r] \in Served
    BY <1>4, ShapeOf DEF Underway
  <2>3. s \in Served /\ s.at \in Underway \ {"capture"}
    BY <2>2, RequestMoves
  <2> HIDE DEF s
  <2> QED BY <1>1, <1>2, <2>1, <2>3, TowardsModel
<1>5. CASE MissExact(r) \/ MissSemantic(r)
  BY <1>4, <1>5 DEF MissExact, MissSemantic, At, Underway
<1>6. CASE BypassSemantic(r)
  <2> DEFINE s == [serving[r] EXCEPT !.at = "dispatch", !.layers = @ \ {"semantic"}]
  <2>1. serving' = [serving EXCEPT ![r] = s] /\ serving[r].at = "semantic"
    BY <1>6 DEF BypassSemantic, At
  <2>2. serving[r] \in Served
    BY <2>1, ShapeOf DEF Underway
  <2>3. s \in Served /\ s.at \in Underway \ {"capture"}
    BY <2>2 DEF Served, Underway
  <2> HIDE DEF s
  <2> QED BY <1>1, <1>2, <2>1, <2>3, TowardsModel
<1> QED BY <1>3, <1>5, <1>6

\* A replayed answer is one that a store held under a key with the request's
\* model.
LEMMA ReplayKeeps ==
    ASSUME GenuineInv, NEW r \in Jobs, serving[r].at \in {"exact", "semantic"},
           NEW cached \in AnswerSet, NEW layer \in Layers, Replay(r, cached, layer),
           Genuine(cached, serving[r].key.model),
           layer = "exact" => GenuineExact(cached, serving[r].key)
    PROVE  GenuineInv'
<1> DEFINE s == [at |-> "hit", key |-> serving[r].key, from |-> layer]
<1>1. s \in ServingSet /\ s.at = "hit" /\ s.key = serving[r].key /\ s.from = layer
  BY ShapeOf DEF ServingSet, Replayed, Underway
<1>2. serving' = [serving EXCEPT ![r] = s] /\ answer' = [answer EXCEPT ![r] = cached]
  BY DEF Replay
<1>3. UNCHANGED <<exact, semantic, enqueue, inserting>>
  BY DEF Replay, semanticVars, writerVars, enqueueVars
<1>4. enqueue[r] = "idle" /\ r \notin inserting
  BY NotOffered
<1>5. ReplayedAnswer(cached, s)
  BY <1>1 DEF ReplayedAnswer
<1> HIDE DEF s
<1> QED BY <1>1, <1>2, <1>3, <1>4, <1>5, CacheRequestStep

LEMMA HitKeeps ==
    ASSUME GenuineInv, NEW r \in Jobs, HitExact(r) \/ HitSemantic(r)
    PROVE  GenuineInv'
<1> DEFINE k == serving[r].key
<1>1. serving[r].at \in {"exact", "semantic"} /\ k \in Keys
  BY ShapeOf DEF HitExact, HitSemantic, At, Underway
<1> HIDE DEF k
<1>2. CASE HitExact(r)
  <2>1. Replay(r, exact[k], "exact") /\ exact[k] # NoAnswer
    BY <1>2 DEF HitExact, Replay, k
  <2>2. exact[k] \in AnswerSet /\ GenuineExact(exact[k], k) /\ "exact" \in Layers
    BY <1>1, <2>1 DEF GenuineInv, AnswerSet, Layers
  <2>3. Genuine(exact[k], k.model)
    BY <2>2 DEF GenuineExact
  <2> QED BY <1>1, <2>1, <2>2, <2>3, ReplayKeeps DEF k
<1>3. CASE HitSemantic(r)
  <2>1. PICK near \in SemanticKeys : near.model = k.model /\ Replay(r, semantic[near], "semantic")
    BY <1>3 DEF HitSemantic, k
  <2>2. semantic[near] # NoAnswer
    BY <2>1 DEF Replay
  <2>3. semantic[near] \in AnswerSet /\ Genuine(semantic[near], k.model) /\ "semantic" \in Layers
    BY <2>1, <2>2 DEF GenuineInv, AnswerSet, Layers
  <2> QED BY <1>1, <2>1, <2>3, ReplayKeeps DEF k
<1> QED BY <1>2, <1>3

\* A model's answer is the resolved model's own, or is marked as a fallback's.
LEMMA AnswerKeeps ==
    ASSUME GenuineInv, NEW r \in Jobs, NEW s \in Served, NEW m \in Models,
           serving[r].at \in {"dispatch", "fallback"},
           serving' = [serving EXCEPT ![r] = s], s.at = "capture",
           AnsweredBy(r, m), s.fallback \/ m = s.key.model,
           s.key = serving[r].key, s.key \in Keys
    PROVE  GenuineInv'
<1>1. PICK whole, done \in BOOLEAN :
        /\ done => whole \/ m \in Translated
        /\ answer' = [answer EXCEPT ![r] = [by |-> m, options |-> serving[r].key.options,
                                           whole |-> whole, done |-> done]]
  BY DEF AnsweredBy
<1> DEFINE a == [by |-> m, options |-> serving[r].key.options, whole |-> whole, done |-> done]
<1>2. a \in ModelAnswers /\ a \in AnswerSet
  BY DEF AnswerSet, ModelAnswers, Keys
<1>3. OwnAnswer(a, s)
  BY <1>1, <1>2 DEF OwnAnswer
<1>4. UNCHANGED <<exact, semantic, enqueue, inserting>>
  BY DEF AnsweredBy, semanticVars, writerVars, enqueueVars
<1>5. enqueue[r] = "idle" /\ r \notin inserting
  BY NotOffered
<1>6. s \in ServingSet /\ answer' = [answer EXCEPT ![r] = a]
  BY <1>1 DEF ServingSet
<1> HIDE DEF a
<1> QED BY <1>2, <1>3, <1>4, <1>5, <1>6, CacheRequestStep

LEMMA DispatchKeeps ==
    ASSUME GenuineInv, NEW r \in Jobs,
           PrimaryAnswers(r) \/ FallbackAnswers(r) \/ PrimaryUnavailable(r) \/ FallbackPassed(r)
    PROVE  GenuineInv'
<1>1. serving[r].at \in {"dispatch", "fallback"}
  BY DEF PrimaryAnswers, FallbackAnswers, PrimaryUnavailable, FallbackPassed, At
<1>2. /\ serving[r] \in Served /\ serving[r].key.model \in Models /\ serving[r].left \in Seq(Models)
      /\ serving[r].layers \in SUBSET Layers /\ serving[r].fallback \in BOOLEAN
      /\ serving[r].key \in Keys
  BY <1>1, ShapeOf DEF Served, Keys, Underway
<1>3. CASE PrimaryAnswers(r)
  <2> DEFINE s == [serving[r] EXCEPT !.at = "capture"]
  <2>1. serving' = [serving EXCEPT ![r] = s] /\ AnsweredBy(r, serving[r].key.model)
    BY <1>3 DEF PrimaryAnswers, Moves
  <2>2. s \in Served /\ s.at = "capture" /\ s.key = serving[r].key /\ s.key \in Keys
    BY <1>2, RequestMoves DEF Underway
  <2> HIDE DEF s
  <2> QED BY <1>1, <1>2, <2>1, <2>2, AnswerKeeps
<1>4. CASE FallbackAnswers(r)
  <2> DEFINE s == [serving[r] EXCEPT !.at = "capture", !.fallback = TRUE]
             m == Head(serving[r].left)
  <2>1. serving' = [serving EXCEPT ![r] = s] /\ AnsweredBy(r, m) /\ serving[r].left # <<>>
    BY <1>4 DEF FallbackAnswers
  <2>2. m \in Models
    BY <1>2, <2>1
  <2>3. s \in Served /\ s.at = "capture" /\ s.fallback /\ s.key = serving[r].key /\ s.key \in Keys
    BY <1>2 DEF Served
  <2> HIDE DEF s, m
  <2> QED BY <1>1, <2>1, <2>2, <2>3, AnswerKeeps
<1>5. CASE PrimaryUnavailable(r) \/ FallbackPassed(r)
  <2> DEFINE s == [serving[r] EXCEPT !.at = "fallback",
                       !.left = IF serving[r].at = "dispatch" THEN FallbackChain[serving[r].key.model]
                                ELSE Tail(serving[r].left)]
  <2>1. UNCHANGED <<answer, exact, semantic, enqueue, inserting>>
    BY <1>5 DEF PrimaryUnavailable, FallbackPassed, semanticVars, writerVars, enqueueVars
  <2>2. (IF serving[r].at = "dispatch" THEN FallbackChain[serving[r].key.model]
         ELSE Tail(serving[r].left)) \in Seq(Models)
    <3>1. FallbackChain[serving[r].key.model] \in Seq(Models)
      BY <1>2, ChainAssumption
    <3>2. CASE PrimaryUnavailable(r)
      BY <3>1, <3>2 DEF PrimaryUnavailable, At
    <3>3. CASE FallbackPassed(r)
      <4>1. serving[r].at = "fallback" /\ serving[r].left # <<>>
        BY <3>3 DEF FallbackPassed, At
      <4> QED BY <1>2, <4>1
    <3> QED BY <1>5, <3>2, <3>3
  <2>3. s \in Served /\ s.at = "fallback"
    BY <1>2, <2>2 DEF Served
  <2>4. serving' = [serving EXCEPT ![r] = s]
    <3>1. CASE PrimaryUnavailable(r)
      BY <3>1 DEF PrimaryUnavailable, At
    <3>2. CASE FallbackPassed(r)
      <4>1. serving[r].at = "fallback" /\ serving' = [serving EXCEPT ![r].left = Tail(@)]
        BY <3>2 DEF FallbackPassed, At
      <4>2. s = [serving[r] EXCEPT !.left = Tail(serving[r].left)]
        BY <1>2, <4>1 DEF Served
      <4> QED BY <4>1, <4>2
    <3> QED BY <1>5, <3>1, <3>2
  <2> HIDE DEF s
  <2> QED BY <1>1, <2>1, <2>3, <2>4, TowardsModel DEF Underway
<1> QED BY <1>3, <1>4, <1>5

\* A request that failed, or whose answer may not be kept, is over.
LEMMA OverKeeps ==
    ASSUME GenuineInv, NEW r \in Jobs,
           PrimaryRefuses(r) \/ FallbacksSpent(r) \/ NotCaptured(r)
    PROVE  GenuineInv'
<1>1. serving' = [serving EXCEPT ![r] = Over] /\ UNCHANGED <<exact, semantic, enqueue, inserting>>
  BY DEF PrimaryRefuses, FallbacksSpent, NotCaptured, Fails, semanticVars, writerVars, enqueueVars
<1>2. PICK a \in AnswerSet : answer' = [answer EXCEPT ![r] = a]
  <2>1. answer' = answer \/ answer' = [answer EXCEPT ![r] = NoAnswer]
    BY DEF PrimaryRefuses, FallbacksSpent, NotCaptured, Fails
  <2> QED BY <2>1, ShapeOf DEF AnswerSet
<1>3. enqueue[r] = "idle" /\ r \notin inserting
  <2>1. CASE serving[r].at \notin {"capture", "done"}
    BY <2>1, NotOffered
  <2>2. CASE serving[r].at \in {"capture", "done"}
    <3>1. At(r, "capture") /\ ~Cacheable(r)
      BY <2>2 DEF PrimaryRefuses, FallbacksSpent, NotCaptured, At
    <3>2. enqueue[r] # "idle" => ~serving[r].fallback /\ GenuineExact(answer[r], serving[r].key)
      BY <3>1 DEF GenuineInv, At
    <3> QED BY <3>1, <3>2 DEF Cacheable, Genuine, GenuineExact, GenuineInv, At
  <2> QED BY <2>1, <2>2
<1>4. Over \in ServingSet /\ Over.at = "ended"
  BY DEF Over, ServingSet
<1> QED BY <1>1, <1>2, <1>3, <1>4, CacheRequestStep

\* What is offered to the caches is the resolved model's own answer.
LEMMA OfferKeeps ==
    ASSUME GenuineInv, WriterInv, NEW r \in Jobs, Enqueue(r)
    PROVE  GenuineInv'
<1>1. /\ At(r, "capture") /\ answer[r].done /\ ~serving[r].fallback
      /\ UNCHANGED <<serving, answer, exact, semantic, inserting>>
  BY DEF Enqueue, Offers, Cacheable, servingVars, semanticVars
<1>2. GenuineExact(answer[r], serving[r].key)
  BY <1>1 DEF GenuineInv, GenuineExact, Genuine, OwnAnswer, At
<1>3. \A q \in Jobs \ {r} : enqueue'[q] = enqueue[q]
  <2>1. PICK from, to \in EnqueueStages : Enqueues(r, from, to)
    BY DEF Enqueue, Ask, EnqueueStep, Register, Send, Drop, Release, EnqueueStages
  <2> QED BY <2>1 DEF Enqueues, WriterInv, WriterShape
<1> QED BY <1>1, <1>2, <1>3 DEF GenuineInv, At

LEMMA CapturedKeeps ==
    ASSUME GenuineInv, NEW r \in Jobs, Captured(r)
    PROVE  GenuineInv'
<1> DEFINE s == [at |-> "done", key |-> serving[r].key]
<1>1. /\ At(r, "capture") /\ answer[r].done /\ ~serving[r].fallback
      /\ serving' = [serving EXCEPT ![r] = s]
      /\ UNCHANGED <<answer, exact, semantic, enqueue>>
      /\ inserting' \subseteq inserting \cup {r}
  BY DEF Captured, Cacheable, writerVars, enqueueVars
<1>2. answer[r] \in AnswerSet /\ answer' = [answer EXCEPT ![r] = answer[r]] /\ serving[r].key \in Keys
  BY <1>1, ShapeOf DEF At, Underway
<1>3. s \in ServingSet /\ s.at = "done" /\ s.key = serving[r].key
  BY <1>2 DEF ServingSet, Remembered
<1>4. GenuineExact(answer[r], s.key)
  BY <1>1 DEF GenuineInv, GenuineExact, Genuine, OwnAnswer, At
<1> HIDE DEF s
<1> QED BY <1>1, <1>2, <1>3, <1>4, CacheRequestStep

\* What a worker puts into the exact cache, and what a goroutine inserts into
\* the semantic one, is still the answer that was offered.
LEMMA StoresKeep ==
    ASSUME GenuineInv, NEW k \in Keys, NEW a \in AnswerSet, GenuineExact(a, k),
           exact' \in {exact, [exact EXCEPT ![k] = a]},
           semantic' \in {semantic, [semantic EXCEPT ![SemanticKey(k)] = a]},
           UNCHANGED <<serving, answer, enqueue>>, inserting' \subseteq inserting
    PROVE  GenuineInv'
<1> DEFINE near == SemanticKey(k)
<1>1. near \in SemanticKeys /\ near.model = k.model
  BY DEF SemanticKey, SemanticKeys, Keys
<1> HIDE DEF near
<1>2. /\ exact' \in [Keys -> AnswerSet] /\ semantic' \in [SemanticKeys -> AnswerSet]
      /\ \A l \in Keys : exact'[l] = exact[l] \/ (l = k /\ exact'[l] = a)
      /\ \A l \in SemanticKeys : semantic'[l] = semantic[l] \/ (l = near /\ semantic'[l] = a)
  BY DEF GenuineInv, AnswerSet, near
<1>3. /\ \A l \in Keys : exact'[l] # NoAnswer => GenuineExact(exact'[l], l)
      /\ \A l \in SemanticKeys : semantic'[l] # NoAnswer => Genuine(semantic'[l], l.model)
  BY <1>1, <1>2 DEF GenuineInv, GenuineExact
<1>4. /\ serving' \in [Jobs -> ServingSet]
      /\ answer' \in [Jobs -> AnswerSet]
      /\ \A q \in Jobs : At(q, "capture")' => OwnAnswer(answer'[q], serving'[q])
      /\ \A q \in Jobs : At(q, "hit")' => ReplayedAnswer(answer'[q], serving'[q])
      /\ \A q \in Jobs : At(q, "done")' => GenuineExact(answer'[q], serving'[q].key)
      /\ \A q \in Jobs : enqueue'[q] # "idle" =>
           At(q, "done")' \/ (At(q, "capture")' /\ ~serving'[q].fallback
                                /\ GenuineExact(answer'[q], serving'[q].key))
      /\ inserting' \subseteq {q \in Jobs : At(q, "done")'}
  BY DEF GenuineInv, At, AnswerSet, ServingSet
<1> QED BY <1>2, <1>3, <1>4 DEF GenuineInv, ServingSet, AnswerSet, Genuine, GenuineExact, OwnAnswer,
           ReplayedAnswer

LEMMA WritesKeep ==
    ASSUME GenuineInv, WriterInv,
           (\E w \in Workers : StoreExact(w)) \/ (\E r \in Jobs : InsertSemantic(r))
    PROVE  GenuineInv'
<1>1. ASSUME NEW w \in Workers, StoreExact(w) PROVE GenuineInv'
  <2> DEFINE j == worker[w].job
             k == serving[j].key
             a == answer[j]
  <2>1. j \in Jobs /\ enqueue[j] # "idle"
    BY <1>1 DEF StoreExact, Set, WriterInv, JobInv, Sent
  <2>2. GenuineExact(a, k) /\ serving[j].at \in {"capture", "done"}
    BY <2>1 DEF GenuineInv, At
  <2>3. k \in Keys /\ a \in AnswerSet
    BY <2>1, <2>2, ShapeOf DEF Underway
  <2>4. /\ exact' \in {exact, [exact EXCEPT ![k] = a]}
        /\ UNCHANGED <<semantic, serving, answer, enqueue, inserting>>
    BY <1>1 DEF StoreExact, Set, servingVars, semanticVars, enqueueVars
  <2> HIDE DEF j, k, a
  <2> QED BY <2>2, <2>3, <2>4, StoresKeep
<1>2. ASSUME NEW r \in Jobs, InsertSemantic(r) PROVE GenuineInv'
  <2> DEFINE k == serving[r].key
             a == answer[r]
  <2>1. GenuineExact(a, k) /\ serving[r].at = "done"
    BY <1>2 DEF InsertSemantic, GenuineInv, At
  <2>2. k \in Keys /\ a \in AnswerSet
    BY <2>1, ShapeOf
  <2>3. /\ semantic' \in {semantic, [semantic EXCEPT ![SemanticKey(k)] = a]}
        /\ UNCHANGED <<exact, serving, answer, enqueue>> /\ inserting' \subseteq inserting
    BY <1>2 DEF InsertSemantic, servingVars, writerVars, enqueueVars
  <2> HIDE DEF k, a
  <2> QED BY <2>1, <2>2, <2>3, StoresKeep
<1> QED BY <1>1, <1>2

-----------------------------------------------------------------------------
CacheInv == WriterInv /\ GenuineInv /\ target \in Models

LEMMA CacheStarts == CacheInit => CacheInv
<1> SUFFICES ASSUME CacheInit PROVE CacheInv
  OBVIOUS
<1>1. WriterInv
  BY WriterStarts DEF CacheInit
<1>2. GenuineInv
  BY DEF CacheInit, WriterInit, GenuineInv, At, Unasked
<1> QED BY <1>1, <1>2 DEF CacheInv, CacheInit

LEMMA CacheStepKeeps ==
    ASSUME CacheInv, [CacheNext]_cacheVars
    PROVE  CacheInv'
<1>1. WriterInv'
  BY CacheStepWrites, WriterStepKeeps DEF CacheInv
<1>2. target' \in Models
  BY DEF CacheInv, CacheNext, cacheVars, adminVars, Prepare, Handle, InsertSemantic, HitExact, MissExact,
     HitSemantic, MissSemantic, BypassSemantic, PrimaryAnswers, PrimaryUnavailable, PrimaryRefuses,
     FallbackPassed, FallbackAnswers, FallbacksSpent, Enqueue, Captured, NotCaptured, Replay, Fails,
     AnsweredBy, StoreExact, Background, Closes, CloseSemantic, Retarget, Deny
<1>3. GenuineInv'
  <2>1. ASSUME UNCHANGED <<serving, answer, exact, semantic, inserting, enqueue>> PROVE GenuineInv'
    BY <2>1 DEF CacheInv, GenuineInv, At
  <2>2. ASSUME NEW r \in Jobs, Prepare(r) \/ Handle(r) \/ InsertSemantic(r) PROVE GenuineInv'
    BY <2>2, LookupKeeps, HitKeeps, DispatchKeeps, OverKeeps, OfferKeeps, CapturedKeeps, WritesKeep
       DEF CacheInv, Handle
  <2>3. ASSUME NEW w \in Workers, StoreExact(w) PROVE GenuineInv'
    BY <2>3, WritesKeep DEF CacheInv
  <2>4. ASSUME NEW w \in Workers, Background(w) PROVE GenuineInv'
    BY <2>1, <2>4 DEF Background, WorkerStep, Receive, Settle, Exhausted, servingVars, semanticVars,
       enqueueVars
  <2>5. CASE Closes
    BY <2>1, <2>5 DEF Closes, AskClose, CloseStep, CloseJobs, Join, CloseStore, servingVars, semanticVars,
       enqueueVars
  <2>6. CASE CloseSemantic \/ Retarget \/ Deny
    BY <2>1, <2>6 DEF CloseSemantic, Retarget, Deny, servingVars, semanticVars, writerVars, enqueueVars
  <2>7. CASE UNCHANGED cacheVars
    BY <2>1, <2>7 DEF cacheVars, servingVars, semanticVars, writerVars, enqueueVars
  <2> QED BY <2>2, <2>3, <2>4, <2>5, <2>6, <2>7 DEF CacheNext
<1> QED BY <1>1, <1>2, <1>3 DEF CacheInv

\* What either cache replays is an ended answer of the model the request was
\* resolved to, broken off only if a converter gave it its [DONE], and the
\* exact cache's answers the request's own options: for any texts, models,
\* options, fallbacks and traffic (responsecache.go, simple.go, semantic.go).
THEOREM HitsCorrect == CacheSpec => []HitsAreGenuine
<1>1. CacheInv => HitsAreGenuine
  BY DEF CacheInv, GenuineInv, HitsAreGenuine, Genuine, GenuineExact, ReplayedAnswer
<1> QED BY <1>1, CacheStarts, CacheStepKeeps, PTL DEF CacheSpec

Progress == [at : Creating, stage : 0..Preparers, old : FileIDs \cup {NoFile},
             active : FileIDs \cup {NoFile}, named : BOOLEAN]
Polls == [op : {"get", "cancel", "results"}, at : {"idle", "call", "pending", "clean", "save"},
          copy : Records, dirty : BOOLEAN]

-----------------------------------------------------------------------------
(* Native batches *)

LEMMA FilesAreNumbers ==
    /\ FileIDs \subseteq Nat /\ NoFile \in Nat /\ NoFile \notin FileIDs /\ Preparers \in Nat
    /\ 0..Preparers \subseteq Nat
BY PreparersAssumption DEF FileIDs, NoFile

LEMMA BatchStarts == BatchInit => BatchInv
<1> SUFFICES ASSUME BatchInit PROVE BatchInv
  OBVIOUS
<1>1. NoRecord \in Records
  BY DEF NoRecord, Records, Statuses
<1>2. create \in Progress
  BY PreparersAssumption DEF BatchInit, Progress, Creating, FileIDs
<1>3. call \in [Pollers -> Polls]
  BY <1>1 DEF BatchInit, AtRest, Polls
<1>4. BatchTypeOK
  BY <1>1, <1>2, <1>3 DEF BatchInit, BatchTypeOK, Progress, Polls, Statuses
<1>5. create.at = "idle" /\ create.active = NoFile /\ create.stage = 0 /\ ~create.named
  BY DEF BatchInit
<1>6. CreationInv
  BY <1>5 DEF BatchInit, CreationInv, Unsubmitted, NoFile
<1>7. CopiesInv
  BY <1>5 DEF BatchInit, CopiesInv, AtRest, FileKeptWhileRunning, Stored
<1> QED BY <1>4, <1>6, <1>7 DEF BatchInv

-----------------------------------------------------------------------------
(* The creation *)

LEMMA GoesOn ==
    ASSUME BatchTypeOK, NEW at \in Creating, Goes(at)
    PROVE  /\ create' \in Progress /\ create'.at = at
           /\ create'.stage = create.stage /\ create'.old = create.old
           /\ create'.active = create.active /\ create'.named = create.named
<1>1. create \in Progress
  BY DEF BatchTypeOK, Progress
<1> QED BY <1>1 DEF Goes, Progress

\* While no record is stored there is no request to think of.
LEMMA Unrecorded ==
    ASSUME CopiesInv, record = NoRecord, UNCHANGED <<record, call>>, create'.at \notin {"clear", "ok"}
    PROVE  CopiesInv'
BY DEF CopiesInv, FileKeptWhileRunning, Stored

\* Steps before the submission.
LEMMA PreparingKeeps ==
    ASSUME BatchInv, Unsubmitted, Unsubmitted',
           UNCHANGED <<upstream, hints, record, call>>,
           create' \in Progress, create'.named = create.named,
           files' \subseteq FileIDs, mishap' \in BOOLEAN,
           create'.active <= create'.stage,
           create'.at # "idle",
           create'.at = "supersede" => create'.old < create'.active,
           create'.at \in {"prepare", "supersede", "submit"} /\ create'.active # NoFile =>
             create'.active \in files',
           ~mishap' => files' \subseteq {create'.active}
                         \cup (IF create'.at = "supersede" THEN {create'.old} ELSE {})
    PROVE  BatchInv'
<1>1. record = NoRecord /\ upstream = "none" /\ ~create.named /\ ~hints
  BY DEF BatchInv, CreationInv, Unsubmitted, Named
<1>2. create'.at \notin {"store", "clear", "ok", "dropFile", "dropHints", "dropBatch", "failed"}
  BY DEF Unsubmitted
<1>3. BatchTypeOK'
  BY DEF BatchInv, BatchTypeOK, Progress
<1>4. CreationInv'
  BY <1>1, <1>2 DEF CreationInv
<1>5. CopiesInv'
  BY <1>1, <1>2, Unrecorded DEF BatchInv
<1> QED BY <1>3, <1>4, <1>5 DEF BatchInv

LEMMA PrepareStepKeeps ==
    ASSUME BatchInv,
           PrepareKeeps \/ PrepareUploads \/ PrepareFails \/ DropSuperseded \/ Prepared
           \/ (BeginBatch /\ create'.at = "prepare")
    PROVE  BatchInv'
<1>1. /\ create \in Progress /\ files \subseteq FileIDs /\ mishap \in BOOLEAN
      /\ create.active <= create.stage /\ CreationInv
  BY DEF BatchInv, BatchTypeOK, Progress, CreationInv
<1>2. /\ create.stage \in 0..Preparers /\ create.active \in FileIDs \cup {NoFile}
      /\ create.old \in FileIDs \cup {NoFile}
  BY <1>1 DEF Progress
<1>3. Preparers \in Nat /\ create.stage \in Nat /\ create.active \in Nat /\ create.old \in Nat
  <2>1. \A file \in FileIDs \cup {NoFile} : file \in Nat
    BY FilesAreNumbers
  <2> QED BY <1>2, <2>1, FilesAreNumbers, Zenon
<1>4. CASE BeginBatch /\ create'.at = "prepare"
  <2>1. create.at = "idle" /\ Goes("prepare") /\ UNCHANGED <<upstream, files, hints, record, call, mishap>>
    BY <1>1, <1>4 DEF BeginBatch, Goes, Progress
  <2>2. Unsubmitted /\ create.active = NoFile /\ (~mishap => files \subseteq {create.active})
    BY <1>1, <2>1 DEF CreationInv, Unsubmitted
  <2>3. /\ create' \in Progress /\ create'.at = "prepare" /\ create'.stage = create.stage
        /\ create'.active = create.active /\ create'.named = create.named
    BY <2>1, GoesOn DEF BatchInv, Creating
  <2> QED BY <1>1, <2>1, <2>2, <2>3, PreparingKeeps DEF Unsubmitted
<1>5. CASE PrepareKeeps
  <2> DEFINE c == [create EXCEPT !.stage = create.stage + 1]
  <2>1. /\ create.at = "prepare" /\ create.stage < Preparers /\ create' = c
        /\ UNCHANGED <<upstream, files, hints, record, call, mishap>>
    BY <1>5 DEF PrepareKeeps
  <2>2. create.stage + 1 \in 0..Preparers /\ create.active <= create.stage + 1
    BY <1>1, <1>2, <1>3, <2>1
  <2>3. /\ c \in Progress /\ c.at = create.at /\ c.stage = create.stage + 1
        /\ c.active = create.active /\ c.named = create.named
    BY <1>1, <2>2 DEF Progress
  <2> HIDE DEF c
  <2>4. Unsubmitted /\ Unsubmitted'
    BY <2>1, <2>3 DEF Unsubmitted
  <2>5. /\ create.active # NoFile => create.active \in files
        /\ ~mishap => files \subseteq {create.active}
    BY <1>1, <2>1 DEF CreationInv
  <2> QED BY <1>1, <2>1, <2>2, <2>3, <2>4, <2>5, PreparingKeeps
<1>6. CASE PrepareUploads
  <2> DEFINE file == create.stage + 1
             at == IF create.active = NoFile THEN "prepare" ELSE "supersede"
             c == [create EXCEPT !.stage = file, !.active = file, !.old = create.active, !.at = at]
  <2>1. /\ create.at = "prepare" /\ create.stage < Preparers /\ create' = c /\ files' = files \cup {file}
        /\ UNCHANGED <<upstream, hints, record, call, mishap>>
    BY <1>6 DEF PrepareUploads
  <2>2. file \in FileIDs /\ file \in 0..Preparers /\ create.active < file /\ file \in Nat
    BY <1>1, <1>2, <1>3, <2>1 DEF FileIDs
  <2>3. at \in {"prepare", "supersede"} /\ (at = "prepare" => create.active = NoFile)
    OBVIOUS
  <2> HIDE DEF file, at
  <2>4. /\ c \in Progress /\ c.at = at /\ c.stage = file
        /\ c.active = file /\ c.named = create.named /\ c.old = create.active
    BY <1>1, <1>2, <2>2, <2>3 DEF Progress, Creating
  <2> HIDE DEF c
  <2>5. Unsubmitted /\ Unsubmitted' /\ create'.at # "idle"
    BY <2>1, <2>3, <2>4 DEF Unsubmitted
  <2>6. ~mishap => files \subseteq {create.active}
    BY <1>1, <2>1 DEF CreationInv
  <2>7. ~mishap => files' \subseteq {file} \cup (IF at = "supersede" THEN {create.active} ELSE {})
    BY <1>1, <2>1, <2>3, <2>6, FilesAreNumbers
  <2>8. files' \subseteq FileIDs /\ file \in files' /\ file <= file
    BY <1>1, <2>1, <2>2
  <2> QED BY <1>1, <2>1, <2>2, <2>4, <2>5, <2>7, <2>8, PreparingKeeps
<1>7. CASE PrepareFails
  <2>1. /\ create.at = "prepare" /\ create.stage < Preparers /\ Goes("abandon")
        /\ UNCHANGED <<upstream, hints, record, call>>
        /\ \/ UNCHANGED <<files, mishap>>
           \/ files' = files \cup {create.stage + 1} /\ mishap' = TRUE
    BY <1>7 DEF PrepareFails
  <2>2. /\ create' \in Progress /\ create'.at = "abandon" /\ create'.stage = create.stage
        /\ create'.active = create.active /\ create'.named = create.named
    BY <2>1, GoesOn DEF BatchInv, Creating
  <2>3. create.stage + 1 \in FileIDs
    BY <1>2, <1>3, <2>1 DEF FileIDs
  <2>4. files' \subseteq FileIDs /\ mishap' \in BOOLEAN
    BY <1>1, <2>1, <2>3
  <2>5. ~mishap' => files' \subseteq {create.active}
    BY <1>1, <2>1 DEF CreationInv
  <2>6. Unsubmitted /\ Unsubmitted'
    BY <2>1, <2>2 DEF Unsubmitted
  <2> QED BY <1>1, <2>1, <2>2, <2>4, <2>5, <2>6, PreparingKeeps
<1>8. CASE DropSuperseded
  <2> DEFINE c == [create EXCEPT !.at = "prepare", !.old = NoFile]
  <2>1. /\ create.at = "supersede" /\ Deletes(create.old) /\ create' = c
        /\ UNCHANGED <<upstream, hints, record, call>>
    BY <1>8 DEF DropSuperseded
  <2>2. /\ c \in Progress /\ c.at = "prepare" /\ c.stage = create.stage
        /\ c.active = create.active /\ c.named = create.named
    BY <1>1 DEF Progress, Creating
  <2> HIDE DEF c
  <2>3. create.old # create.active
    BY <1>1, <1>3, <2>1 DEF CreationInv
  <2>4. /\ files' \subseteq files /\ mishap' \in BOOLEAN
        /\ create.active \in files => create.active \in files'
        /\ ~mishap' => ~mishap /\ files' = files \ {create.old}
    BY <1>1, <2>1, <2>3 DEF Deletes
  <2>5. /\ create.active # NoFile => create.active \in files'
        /\ ~mishap' => files' \subseteq {create.active}
    BY <1>1, <2>1, <2>4 DEF CreationInv
  <2>6. Unsubmitted /\ Unsubmitted'
    BY <2>1, <2>2 DEF Unsubmitted
  <2> QED BY <1>1, <2>1, <2>2, <2>4, <2>5, <2>6, PreparingKeeps
<1>9. CASE Prepared
  <2>1. create.at = "prepare" /\ Goes("submit") /\ UNCHANGED <<upstream, files, hints, record, call, mishap>>
    BY <1>9 DEF Prepared
  <2>2. /\ create' \in Progress /\ create'.at = "submit" /\ create'.stage = create.stage
        /\ create'.active = create.active /\ create'.named = create.named
    BY <2>1, GoesOn DEF BatchInv, Creating
  <2>3. /\ create.active # NoFile => create.active \in files
        /\ ~mishap => files \subseteq {create.active}
    BY <1>1, <2>1 DEF CreationInv
  <2>4. Unsubmitted /\ Unsubmitted'
    BY <2>1, <2>2 DEF Unsubmitted
  <2> QED BY <1>1, <2>1, <2>2, <2>3, <2>4, PreparingKeeps
<1> QED BY <1>4, <1>5, <1>6, <1>7, <1>8, <1>9

\* The copies stay good while files only go, the batch stays ended once it has,
\* and the file of a batch under way is left alone.
LEMMA CopiesStay ==
    ASSUME BatchInv, UNCHANGED <<record, call>>, create'.active = create.active,
           files' \subseteq files,
           IsTerminalBatchStatus(upstream) => IsTerminalBatchStatus(upstream'),
           create'.at \in {"clear", "ok"} => create.at \in {"clear", "ok"} /\ files' = files
    PROVE  CopiesInv'
<1>1. ASSUME NEW copy, GoodCopy(copy) PROVE GoodCopy(copy)'
  BY <1>1 DEF GoodCopy, IsTerminalBatchStatus, Terminal
<1>2. /\ record # NoRecord => GoodCopy(record)
      /\ \A r \in Pollers : call[r].at # "idle" => record # NoRecord /\ GoodCopy(call[r].copy)
      /\ \A r \in Pollers : call[r].at = "clean" =>
           IsTerminalBatchStatus(call[r].copy.status) /\ call[r].copy.rewritten # NoFile
  BY DEF BatchInv, CopiesInv
<1>3. record' # NoRecord => GoodCopy(record)'
  BY <1>1, <1>2
<1>4. \A r \in Pollers : call'[r].at # "idle" => record' # NoRecord /\ GoodCopy(call[r].copy)'
  BY <1>1, <1>2
<1>5. FileKeptWhileRunning'
  BY DEF BatchInv, CopiesInv, FileKeptWhileRunning, Stored, IsTerminalBatchStatus, Terminal
<1> QED BY <1>2, <1>3, <1>4, <1>5 DEF CopiesInv, IsTerminalBatchStatus, Terminal, GoodCopy

\* The last deletion of a creation that fails.
LEMMA DeletesKeep ==
    ASSUME BatchInv, Deletes(create.active)
    PROVE  /\ files' \subseteq files /\ files' \subseteq FileIDs /\ mishap' \in BOOLEAN
           /\ ~mishap' => ~mishap /\ (create.at # "supersede" => files' = {})
<1>1. files \subseteq FileIDs /\ mishap \in BOOLEAN
  BY DEF BatchInv, BatchTypeOK
<1>2. ~mishap /\ create.at # "supersede" => files \subseteq {create.active}
  BY DEF BatchInv, CreationInv
<1> QED BY <1>1, <1>2 DEF Deletes

LEMMA FailsEarlyKeeps ==
    ASSUME BatchInv, (BeginBatch /\ create'.at # "prepare") \/ DropAbandoned
    PROVE  BatchInv'
<1>1. /\ create.at \in {"idle", "abandon"} /\ Goes("failed") /\ UNCHANGED <<upstream, hints, record, call>>
  BY GoesOn DEF BeginBatch, DropAbandoned, BatchInv, Creating
<1>2. /\ create' \in Progress /\ create'.at = "failed" /\ create'.stage = create.stage
      /\ create'.active = create.active /\ create'.named = create.named
  BY <1>1, GoesOn DEF BatchInv, Creating
<1>3. Unsubmitted /\ create.at # "supersede"
  BY <1>1 DEF Unsubmitted
<1>4. record = NoRecord /\ upstream = "none" /\ ~hints /\ create.active <= create.stage
  BY <1>1, <1>3 DEF BatchInv, CreationInv, Named
<1>5. /\ files' \subseteq FileIDs /\ mishap' \in BOOLEAN
      /\ ~mishap' => files' = {}
  <2>1. CASE DropAbandoned
    BY <1>3, <2>1, DeletesKeep DEF DropAbandoned
  <2>2. CASE BeginBatch
    <3>1. create.at = "idle" /\ UNCHANGED <<files, mishap>> /\ create.active = NoFile
      BY <2>2 DEF BeginBatch, BatchInv, CreationInv
    <3> QED BY <3>1, FilesAreNumbers DEF BatchInv, BatchTypeOK, CreationInv
  <2> QED BY <2>1, <2>2
<1>6. BatchTypeOK'
  BY <1>1, <1>2, <1>5 DEF BatchInv, BatchTypeOK, Progress
<1>7. CreationInv'
  BY <1>1, <1>2, <1>4, <1>5 DEF CreationInv, Unsubmitted
<1>8. CopiesInv'
  BY <1>1, <1>2, <1>4, Unrecorded DEF BatchInv
<1> QED BY <1>6, <1>7, <1>8 DEF BatchInv

LEMMA SubmitKeeps ==
    ASSUME BatchInv, SubmitAccepted \/ SubmitRefused
    PROVE  BatchInv'
<1>1. create.at = "submit" /\ UNCHANGED <<files, record, call>> /\ CreationInv /\ create \in Progress
  BY DEF SubmitAccepted, SubmitRefused, BatchInv, BatchTypeOK, Progress
<1>2. /\ record = NoRecord /\ upstream = "none" /\ ~hints /\ ~create.named
      /\ create.active <= create.stage
      /\ create.active # NoFile => create.active \in files
      /\ ~mishap => files \subseteq {create.active}
  BY <1>1 DEF CreationInv, Unsubmitted, Named
<1>3. CASE SubmitAccepted
  <2> DEFINE c == [create EXCEPT !.at = "store", !.named = TRUE]
  <2>1. create' = c /\ upstream' = "running" /\ hints' = TRUE /\ mishap' = mishap
    BY <1>3 DEF SubmitAccepted
  <2>2. /\ c \in Progress /\ c.at = "store" /\ c.stage = create.stage /\ c.active = create.active
        /\ c.named
    BY <1>1 DEF Progress, Creating
  <2> HIDE DEF c
  <2>3. BatchTypeOK'
    BY <1>1, <2>1, <2>2 DEF BatchInv, BatchTypeOK, Progress, Statuses
  <2>4. CreationInv'
    BY <1>1, <1>2, <2>1, <2>2 DEF CreationInv, Unsubmitted, Named
  <2>5. CopiesInv'
    BY <1>1, <1>2, <2>1, <2>2, Unrecorded DEF BatchInv
  <2> QED BY <2>3, <2>4, <2>5 DEF BatchInv
<1>4. CASE SubmitRefused
  <2>1. /\ Goes("dropFile") /\ hints' = hints
        /\ (UNCHANGED <<upstream, mishap>>) \/ (upstream' = "running" /\ mishap' = TRUE)
    BY <1>4 DEF SubmitRefused
  <2>2. /\ create' \in Progress /\ create'.at = "dropFile" /\ create'.stage = create.stage
        /\ create'.active = create.active /\ create'.named = create.named
    BY <2>1, GoesOn DEF BatchInv, Creating
  <2>3. BatchTypeOK'
    BY <1>1, <2>1, <2>2 DEF BatchInv, BatchTypeOK, Progress, Statuses
  <2>4. CreationInv'
    BY <1>1, <1>2, <2>1, <2>2 DEF CreationInv, Unsubmitted, Named
  <2>5. CopiesInv'
    BY <1>1, <1>2, <2>1, <2>2, Unrecorded DEF BatchInv
  <2> QED BY <2>3, <2>4, <2>5 DEF BatchInv
<1> QED BY <1>3, <1>4

LEMMA StoreKeeps ==
    ASSUME BatchInv, StoreAccepted \/ StoreRefused
    PROVE  BatchInv'
<1>1. /\ create.at = "store" /\ UNCHANGED <<upstream, files, hints, call>> /\ CreationInv
      /\ create \in Progress
  BY DEF StoreAccepted, StoreRefused, BatchInv, BatchTypeOK, Progress
<1>2. /\ record = NoRecord /\ hints /\ create.named /\ create.active <= create.stage
      /\ create.active # NoFile => create.active \in files
      /\ ~mishap => files \subseteq {create.active}
  BY <1>1 DEF CreationInv
<1>6. \A r \in Pollers : call[r].at = "idle"
  BY <1>2 DEF BatchInv, CopiesInv
<1>3. /\ NewRecord \in Records /\ NewRecord # NoRecord /\ GoodCopy(NewRecord)
  BY <1>1 DEF NewRecord, NoRecord, Records, Statuses, Terminal, GoodCopy, IsTerminalBatchStatus, Progress
<1>4. CASE StoreAccepted
  <2>1. record' = NewRecord /\ Goes("clear") /\ mishap' = mishap
    BY <1>4 DEF StoreAccepted
  <2>2. /\ create' \in Progress /\ create'.at = "clear" /\ create'.stage = create.stage
        /\ create'.active = create.active
    BY <2>1, GoesOn DEF BatchInv, Creating
  <2>3. BatchTypeOK'
    BY <1>1, <1>3, <2>1, <2>2 DEF BatchInv, BatchTypeOK, Progress
  <2>4. CreationInv'
    BY <1>1, <1>2, <1>3, <2>1, <2>2 DEF CreationInv, Unsubmitted, Named, NoRecord
  <2>5. CopiesInv'
    BY <1>1, <1>2, <1>3, <1>6, <2>1, <2>2 DEF CopiesInv, GoodCopy, FileKeptWhileRunning
  <2> QED BY <2>3, <2>4, <2>5 DEF BatchInv
<1>5. CASE StoreRefused
  <2>1. /\ Goes("dropFile")
        /\ (UNCHANGED <<record, mishap>>) \/ (record' = NewRecord /\ mishap' = TRUE)
    BY <1>5 DEF StoreRefused
  <2>2. /\ create' \in Progress /\ create'.at = "dropFile" /\ create'.stage = create.stage
        /\ create'.active = create.active /\ create'.named = create.named
    BY <2>1, GoesOn DEF BatchInv, Creating
  <2>3. BatchTypeOK'
    BY <1>1, <1>3, <2>1, <2>2 DEF BatchInv, BatchTypeOK, Progress
  <2>4. CreationInv'
    BY <1>1, <1>2, <2>1, <2>2 DEF CreationInv, Unsubmitted, Named
  <2>5. GoodCopy(NewRecord)'
    BY <1>1, <1>3, <2>2 DEF GoodCopy, NewRecord
  <2>6. record' # NoRecord' => GoodCopy(record)'
    BY <1>2, <2>1, <2>2, <2>5 DEF GoodCopy, NewRecord
  <2>7. CopiesInv'
    BY <1>1, <1>6, <2>2, <2>6 DEF CopiesInv, FileKeptWhileRunning, Stored
  <2> QED BY <2>3, <2>4, <2>7 DEF BatchInv
<1> QED BY <1>4, <1>5

\* A cancellation neither revives a batch nor leaves it running.
LEMMA Cancellation ==
    ASSUME NEW old \in Statuses, NEW new \in CancelledWith(old)
    PROVE  /\ new \in Statuses /\ new # "running"
           /\ IsTerminalBatchStatus(old) => IsTerminalBatchStatus(new)
BY DEF CancelledWith, Statuses, Terminal, IsTerminalBatchStatus

\* What follows the attempt to store the record.
LEMMA AftermathKeeps ==
    ASSUME BatchInv,
           ClearBatchResultHints \/ RollbackFile \/ RollbackHints \/ RollbackBatch
    PROVE  BatchInv'
<1>1. CreationInv /\ BatchTypeOK /\ UNCHANGED <<record, call>>
  BY DEF ClearBatchResultHints, RollbackFile, RollbackHints, RollbackBatch, BatchInv
<1>2. ASSUME NEW at \in {"ok", "failed", "dropHints", "dropBatch"}, Goes(at)
      PROVE  /\ create' \in Progress /\ create'.at = at /\ create'.stage = create.stage
             /\ create'.active = create.active /\ create'.named = create.named
  BY <1>1, <1>2, GoesOn DEF Creating
<1>3. CASE ClearBatchResultHints
  <2>1. create.at = "clear" /\ Goes("ok") /\ ~hints' /\ hints' \in BOOLEAN /\ UNCHANGED <<upstream, files, mishap>>
    BY <1>3 DEF ClearBatchResultHints
  <2>2. BatchTypeOK'
    BY <1>1, <1>2, <2>1 DEF BatchTypeOK, Progress
  <2>3. CreationInv'
    BY <1>1, <1>2, <2>1 DEF CreationInv, Unsubmitted
  <2>4. CopiesInv'
    BY <1>1, <1>2, <2>1, CopiesStay
  <2> QED BY <2>2, <2>3, <2>4 DEF BatchInv
<1>4. CASE RollbackFile
  <2> DEFINE at == IF create.named THEN "dropHints" ELSE "failed"
  <2>1. create.at = "dropFile" /\ Deletes(create.active) /\ Goes(at) /\ UNCHANGED <<upstream, hints>>
    BY <1>4 DEF RollbackFile
  <2>2. /\ create' \in Progress /\ create'.at = at /\ create'.stage = create.stage
        /\ create'.active = create.active /\ create'.named = create.named
    BY <1>2, <2>1
  <2>3. /\ files' \subseteq files /\ files' \subseteq FileIDs /\ mishap' \in BOOLEAN
        /\ ~mishap' => ~mishap /\ files' = {}
    BY <2>1, DeletesKeep
  <2>4. BatchTypeOK'
    BY <1>1, <2>1, <2>2, <2>3 DEF BatchTypeOK, Progress
  <2>5. hints => create.named
    BY <1>1, <2>1 DEF CreationInv, Named
  <2>6. ~mishap /\ ~create.named => upstream # "running"
    BY <1>1, <2>1 DEF CreationInv
  <2>7. CreationInv'
    BY <1>1, <2>1, <2>2, <2>3, <2>5, <2>6 DEF CreationInv, Unsubmitted, Named
  <2>8. CopiesInv'
    BY <1>1, <2>1, <2>2, <2>3, CopiesStay
  <2> QED BY <2>4, <2>7, <2>8 DEF BatchInv
<1>5. CASE RollbackHints
  <2>1. create.at = "dropHints" /\ Goes("dropBatch") /\ ~hints' /\ hints' \in BOOLEAN /\ UNCHANGED <<upstream, files, mishap>>
    BY <1>5 DEF RollbackHints
  <2>2. BatchTypeOK'
    BY <1>1, <1>2, <2>1 DEF BatchTypeOK, Progress
  <2>3. CreationInv'
    BY <1>1, <1>2, <2>1 DEF CreationInv, Unsubmitted
  <2>4. CopiesInv'
    BY <1>1, <1>2, <2>1, CopiesStay
  <2> QED BY <2>2, <2>3, <2>4 DEF BatchInv
<1>6. CASE RollbackBatch
  <2>1. /\ create.at = "dropBatch" /\ Goes("failed") /\ UNCHANGED <<files, hints>>
        /\ (upstream' \in CancelledWith(upstream) /\ mishap' = mishap)
           \/ (upstream' \in {upstream} \cup CancelledWith(upstream) /\ mishap' = TRUE)
    BY <1>6 DEF RollbackBatch
  <2>2. /\ upstream' \in Statuses /\ mishap' \in BOOLEAN
        /\ IsTerminalBatchStatus(upstream) => IsTerminalBatchStatus(upstream')
        /\ ~mishap' => ~mishap /\ upstream' # "running"
    <3>1. upstream \in Statuses /\ mishap \in BOOLEAN
      BY <1>1 DEF BatchTypeOK
    <3>2. CASE upstream' \in CancelledWith(upstream) /\ mishap' = mishap
      BY <3>1, <3>2, Cancellation
    <3>3. CASE upstream' \in {upstream} \cup CancelledWith(upstream) /\ mishap' = TRUE
      BY <3>1, <3>3, Cancellation
    <3> QED BY <2>1, <3>2, <3>3
  <2>3. BatchTypeOK'
    BY <1>1, <1>2, <2>1, <2>2 DEF BatchTypeOK, Progress
  <2>4. ~hints
    BY <1>1, <2>1 DEF CreationInv, Named
  <2>5. CreationInv'
    BY <1>1, <1>2, <2>1, <2>2, <2>4 DEF CreationInv, Unsubmitted
  <2>6. CopiesInv'
    BY <1>1, <1>2, <2>1, <2>2, CopiesStay
  <2> QED BY <2>3, <2>5, <2>6 DEF BatchInv
<1> QED BY <1>3, <1>4, <1>5, <1>6

-----------------------------------------------------------------------------
(* The requests *)

\* GoodCopy of the state that a step leads to.
GoodNext(copy) ==
  /\ copy.hinted
  /\ copy.rewritten \in {create'.active, NoFile}
  /\ IsTerminalBatchStatus(copy.status) => IsTerminalBatchStatus(upstream')
  /\ create'.active \in files' => copy.rewritten = create'.active

\* A step of a request: its copy stays good, the provider's status only gets
\* nearer to the end, and a file is deleted only by one that knows of the end.
LEMMA PollKeeps ==
    ASSUME BatchInv, NEW r \in Pollers, NEW e \in Polls, call' = [call EXCEPT ![r] = e],
           UNCHANGED <<hints, create, mishap>>,
           upstream' \in Statuses,
           IsTerminalBatchStatus(upstream) => IsTerminalBatchStatus(upstream'),
           upstream' = "running" => upstream = "running",
           upstream' # "none" => upstream # "none" \/ record # NoRecord,
           files' \subseteq files,
           files' = files \/ IsTerminalBatchStatus(upstream),
           record # NoRecord,
           record' \in Records, record' # NoRecord, GoodNext(record'),
           e.at # "idle" => GoodNext(e.copy),
           e.at = "clean" => IsTerminalBatchStatus(e.copy.status) /\ e.copy.rewritten # NoFile
    PROVE  BatchInv'
<1>1. CreationInv /\ BatchTypeOK
  BY DEF BatchInv
<1>2. /\ call' \in [Pollers -> Polls] /\ call'[r] = e
      /\ \A q \in Pollers \ {r} : call'[q] = call[q]
  BY <1>1 DEF BatchTypeOK, Polls
<1>3. BatchTypeOK'
  BY <1>1, <1>2 DEF BatchTypeOK, Polls
<1>4. ~Unsubmitted /\ create.at # "store"
  BY <1>1 DEF CreationInv
<1>5. CreationInv'
  BY <1>1, <1>4 DEF CreationInv, Unsubmitted, Named
<1>6. ASSUME NEW q \in Pollers, call'[q].at # "idle" PROVE GoodNext(call'[q].copy)
  <2>1. CASE q = r
    BY <1>2, <1>6, <2>1
  <2>2. CASE q # r
    <3>1. call'[q] = call[q] /\ GoodCopy(call[q].copy)
      BY <1>2, <1>6, <2>2 DEF BatchInv, CopiesInv
    <3> QED BY <3>1 DEF GoodCopy, GoodNext
  <2> QED BY <2>1, <2>2
<1>7. \A q \in Pollers : call'[q].at = "clean" =>
         IsTerminalBatchStatus(call'[q].copy.status) /\ call'[q].copy.rewritten # NoFile
  BY <1>2 DEF BatchInv, CopiesInv
<1>8. FileKeptWhileRunning'
  BY DEF BatchInv, CopiesInv, FileKeptWhileRunning, Stored, IsTerminalBatchStatus, Terminal
<1>9. CopiesInv'
  BY <1>6, <1>7, <1>8 DEF CopiesInv, GoodCopy, GoodNext
<1> QED BY <1>3, <1>5, <1>9 DEF BatchInv

\* What a request in progress has to go by.
LEMMA Polling ==
    ASSUME BatchInv, NEW r \in Pollers, call[r].at # "idle"
    PROVE  /\ record # NoRecord /\ record \in Records /\ GoodCopy(record)
           /\ call[r] \in Polls /\ call[r].copy \in Records /\ GoodCopy(call[r].copy)
           /\ upstream \in Statuses
BY DEF BatchInv, BatchTypeOK, CopiesInv, Polls

LEMMA RestIsPoll == AtRest \in Polls /\ AtRest.at = "idle"
<1>1. NoRecord \in Records
  BY DEF NoRecord, Records, Statuses
<1> QED BY <1>1 DEF AtRest, Polls

\* A provider's status, old or new, that a step may leave.
Further(old) == {old} \cup CancelledWith(old)

LEMMA CopyLasts ==
    ASSUME upstream \in Statuses, upstream' \in Further(upstream), UNCHANGED create,
           files' \subseteq files, NEW copy, GoodCopy(copy)
    PROVE  GoodNext(copy)
BY Cancellation DEF GoodCopy, GoodNext, Further

\* A step of a request that calls the provider, at most, for its status.
LEMMA PollMoves ==
    ASSUME BatchInv, NEW r \in Pollers, NEW e \in Polls, call' = [call EXCEPT ![r] = e],
           UNCHANGED <<files, hints, record, create, mishap>>,
           upstream' \in Further(upstream),
           record # NoRecord,
           e.at # "idle" => GoodNext(e.copy),
           e.at = "clean" => IsTerminalBatchStatus(e.copy.status) /\ e.copy.rewritten # NoFile
    PROVE  BatchInv'
<1>1. record \in Records /\ GoodCopy(record) /\ upstream \in Statuses
  BY DEF BatchInv, BatchTypeOK, CopiesInv
<1>2. /\ upstream' \in Statuses
      /\ IsTerminalBatchStatus(upstream) => IsTerminalBatchStatus(upstream')
      /\ upstream' = "running" => upstream = "running"
  BY <1>1, Cancellation DEF Further
<1>3. GoodNext(record)
  BY <1>1, CopyLasts
<1>4. record' = record /\ files' \subseteq files /\ files' = files
  OBVIOUS
<1> QED BY <1>1, <1>2, <1>3, <1>4, PollKeeps

\* Merging the provider's status keeps a copy good.
LEMMA MergedCopy ==
    ASSUME upstream \in Statuses, upstream' \in Further(upstream), UNCHANGED <<create, files>>,
           NEW copy \in Records, GoodCopy(copy), NEW status \in {upstream', ""}
    PROVE  Merged(copy, status) \in Records /\ GoodNext(Merged(copy, status))
<1>1. GoodNext(copy)
  BY CopyLasts
<1>2. upstream' \in Statuses
  BY Cancellation DEF Further
<1>3. CASE status = ""
  BY <1>1, <1>3 DEF Merged
<1>4. CASE status # ""
  <2> DEFINE merged == [copy EXCEPT !.status = status]
  <2>1. /\ merged \in Records /\ merged.status = upstream'
        /\ merged.rewritten = copy.rewritten /\ merged.hinted = copy.hinted
    BY <1>2, <1>4 DEF Records
  <2>2. Merged(copy, status) = merged
    BY <1>4 DEF Merged
  <2> HIDE DEF merged
  <2> QED BY <1>1, <2>1, <2>2 DEF GoodNext
<1> QED BY <1>3, <1>4

LEMMA ResumeKeeps ==
    ASSUME BatchInv, NEW r \in Pollers, call[r].at # "idle",
           NEW copy \in Records, GoodNext(copy), NEW dirty \in BOOLEAN, Resume(r, copy, dirty),
           upstream' \in Further(upstream), UNCHANGED <<files, hints, record, create, mishap>>
    PROVE  BatchInv'
<1> DEFINE at == After(copy, dirty)
           e == [call[r] EXCEPT !.at = at, !.copy = copy, !.dirty = dirty]
<1>1. record # NoRecord /\ call[r] \in Polls
  BY Polling
<1>2. /\ at \in {"idle", "clean", "save"}
      /\ at = "clean" => IsTerminalBatchStatus(copy.status) /\ copy.rewritten # NoFile
  BY DEF After
<1>3. call' = [call EXCEPT ![r] = AtRest] \/ call' = [call EXCEPT ![r] = e]
  BY DEF Resume, Leave, Edit
<1> HIDE DEF at
<1>4. e \in Polls /\ e.at = at /\ e.copy = copy
  BY <1>1, <1>2 DEF Polls
<1> HIDE DEF e
<1> QED BY <1>1, <1>2, <1>3, <1>4, RestIsPoll, PollMoves

LEMMA AnswersKeep ==
    ASSUME BatchInv, NEW r \in Pollers,
           GetAnswered(r) \/ CancelAnswered(r) \/ ResultsAnswered(r)
    PROVE  BatchInv'
<1>1. call[r].at # "idle" /\ UNCHANGED <<files, hints, record, create, mishap>>
  BY DEF GetAnswered, CancelAnswered, ResultsAnswered, Calling
<1>2. call[r].copy \in Records /\ GoodCopy(call[r].copy) /\ upstream \in Statuses
  BY <1>1, Polling
<1>3. upstream' \in Further(upstream)
  BY DEF GetAnswered, CancelAnswered, ResultsAnswered, Further
<1>4. CASE GetAnswered(r) \/ CancelAnswered(r)
  <2>1. PICK status \in {upstream', ""} : Resume(r, Merged(call[r].copy, status), TRUE)
    BY <1>4 DEF GetAnswered, CancelAnswered, BatchAnswers
  <2>2. Merged(call[r].copy, status) \in Records /\ GoodNext(Merged(call[r].copy, status))
    BY <1>1, <1>2, <1>3, MergedCopy
  <2> QED BY <1>1, <1>3, <2>1, <2>2, ResumeKeeps
<1>5. CASE ResultsAnswered(r)
  <2>1. PICK logged \in BOOLEAN : Resume(r, call[r].copy, logged)
    BY <1>5 DEF ResultsAnswered
  <2>2. GoodNext(call[r].copy)
    BY <1>1, <1>2, <1>3, CopyLasts
  <2> QED BY <1>1, <1>2, <1>3, <2>1, <2>2, ResumeKeeps
<1> QED BY <1>4, <1>5

LEMMA WaitsKeep ==
    ASSUME BatchInv, NEW r \in Pollers,
           CallFails(r) \/ ResultsNotFound(r) \/ PendingAnswered(r) \/ PendingFails(r)
    PROVE  BatchInv'
<1>1. call[r].at # "idle" /\ UNCHANGED <<files, hints, record, create, mishap>>
  BY DEF CallFails, ResultsNotFound, PendingAnswered, PendingFails, Calling
<1>2. /\ call[r] \in Polls /\ call[r].copy \in Records /\ GoodCopy(call[r].copy)
      /\ record # NoRecord /\ upstream \in Statuses
  BY <1>1, Polling
<1>3. upstream' \in Further(upstream)
  BY DEF CallFails, ResultsNotFound, PendingAnswered, PendingFails, Further
<1>4. CASE Leave(r)
  BY <1>1, <1>2, <1>3, <1>4, RestIsPoll, PollMoves DEF Leave, Edit
<1>5. CASE ResultsNotFound(r)
  <2> DEFINE e == [call[r] EXCEPT !.at = "pending"]
  <2>1. e \in Polls /\ e.at = "pending" /\ e.copy = call[r].copy
    BY <1>2 DEF Polls
  <2>2. call' = [call EXCEPT ![r] = e]
    BY <1>5 DEF ResultsNotFound, Edit
  <2> HIDE DEF e
  <2>3. GoodNext(e.copy)
    BY <1>1, <1>2, <1>3, <2>1, CopyLasts
  <2> QED BY <1>1, <1>2, <1>3, <2>1, <2>2, <2>3, PollMoves
<1>6. CASE PendingAnswered(r) /\ ~Leave(r)
  <2>1. PICK status \in {upstream', ""} :
          Edit(r, [call[r] EXCEPT !.at = "save", !.copy = Merged(@, status), !.dirty = TRUE])
    BY <1>6 DEF PendingAnswered, BatchAnswers
  <2> DEFINE copy == Merged(call[r].copy, status)
             e == [call[r] EXCEPT !.at = "save", !.copy = copy, !.dirty = TRUE]
  <2>2. copy \in Records /\ GoodNext(copy)
    BY <1>1, <1>2, <1>3, MergedCopy
  <2>3. call' = [call EXCEPT ![r] = e]
    BY <2>1 DEF Edit
  <2> HIDE DEF copy
  <2>4. e \in Polls /\ e.at = "save" /\ e.copy = copy
    BY <1>2, <2>2 DEF Polls
  <2> HIDE DEF e
  <2> QED BY <1>1, <1>2, <1>3, <2>2, <2>3, <2>4, PollMoves
<1> QED BY <1>4, <1>5, <1>6 DEF CallFails, PendingFails

LEMMA RequireKeeps ==
    ASSUME BatchInv, NEW r \in Pollers, NEW op \in {"get", "cancel", "results"}, requireStoredBatch(r, op)
    PROVE  BatchInv'
<1> DEFINE e == [op |-> op, at |-> "call", copy |-> record, dirty |-> FALSE]
<1>1. /\ record # NoRecord /\ call' = [call EXCEPT ![r] = e]
      /\ UNCHANGED <<upstream, files, hints, record, create, mishap>>
  BY DEF requireStoredBatch, Edit
<1>2. record \in Records /\ GoodCopy(record) /\ upstream \in Statuses /\ upstream' \in Further(upstream)
  BY <1>1 DEF BatchInv, BatchTypeOK, CopiesInv, Further
<1>3. e \in Polls /\ e.at = "call" /\ e.copy = record
  BY <1>2 DEF Polls
<1> HIDE DEF e
<1>4. GoodNext(record)
  BY <1>1, <1>2, CopyLasts
<1> QED BY <1>1, <1>2, <1>3, <1>4, PollMoves

\* A request deletes the file of a batch that its copy knows has ended.
LEMMA CleanupKeeps ==
    ASSUME BatchInv, NEW r \in Pollers, CleanupDeletes(r) \/ CleanupFails(r)
    PROVE  BatchInv'
<1> DEFINE copy == call[r].copy
<1>1. /\ call[r].at = "clean" /\ files' \in {files, files \ {copy.rewritten}}
      /\ UNCHANGED <<upstream, hints, record, create, mishap>>
  BY DEF CleanupDeletes, CleanupFails
<1>2. /\ call[r] \in Polls /\ copy \in Records /\ GoodCopy(copy)
      /\ record # NoRecord /\ record \in Records /\ GoodCopy(record) /\ upstream \in Statuses
  BY <1>1, Polling
<1>3. IsTerminalBatchStatus(upstream)
  BY <1>1, <1>2 DEF BatchInv, CopiesInv, GoodCopy
<1>4. upstream' \in Further(upstream) /\ files' \subseteq files
  BY <1>1 DEF Further
<1>5. GoodNext(record) /\ GoodNext(copy)
  BY <1>1, <1>2, <1>4, CopyLasts
<1>6. ASSUME NEW e \in Polls, call' = [call EXCEPT ![r] = e],
             e.at \in {"idle", "save"}, e.at # "idle" => GoodNext(e.copy)
      PROVE  BatchInv'
  BY <1>1, <1>2, <1>3, <1>4, <1>5, <1>6, PollKeeps
<1>7. CASE CleanupDeletes(r)
  <2> DEFINE forgets == [copy EXCEPT !.rewritten = NoFile]
             e == [call[r] EXCEPT !.at = "save", !.copy = forgets]
  <2>1. forgets \in Records /\ forgets.rewritten = NoFile
        /\ forgets.status = copy.status /\ forgets.hinted = copy.hinted
    BY <1>2 DEF Records
  <2>2. call' = [call EXCEPT ![r] = e] /\ files' = files \ {copy.rewritten} /\ copy.rewritten \in files
    BY <1>7 DEF CleanupDeletes, Edit
  <2>3. create'.active \notin files'
    BY <1>1, <1>2, <2>2, FilesAreNumbers DEF GoodCopy, BatchInv, BatchTypeOK
  <2>4. GoodNext(forgets)
    BY <1>5, <2>1, <2>3 DEF GoodNext
  <2> HIDE DEF forgets
  <2>5. e \in Polls /\ e.at = "save" /\ e.copy = forgets
    BY <1>2, <2>1 DEF Polls
  <2> HIDE DEF e
  <2> QED BY <1>6, <2>2, <2>4, <2>5
<1>8. CASE CleanupFails(r)
  <2> DEFINE e == [call[r] EXCEPT !.at = "save"]
  <2>1. e \in Polls /\ e.at = "save" /\ e.copy = copy
    BY <1>2 DEF Polls
  <2>2. call' = [call EXCEPT ![r] = e] \/ call' = [call EXCEPT ![r] = AtRest]
    BY <1>8 DEF CleanupFails, Edit, Leave
  <2> HIDE DEF e
  <2> QED BY <1>5, <1>6, <2>1, <2>2, RestIsPoll
<1> QED BY <1>7, <1>8

LEMMA WriteBackKeeps ==
    ASSUME BatchInv, NEW r \in Pollers, WriteBack(r)
    PROVE  BatchInv'
<1>1. /\ call[r].at = "save" /\ record' \in {record, call[r].copy} /\ call' = [call EXCEPT ![r] = AtRest]
      /\ UNCHANGED <<upstream, files, hints, create, mishap>>
  BY DEF WriteBack, Leave, Edit
<1>2. /\ call[r].copy \in Records /\ GoodCopy(call[r].copy)
      /\ record # NoRecord /\ record \in Records /\ GoodCopy(record) /\ upstream \in Statuses
  BY <1>1, Polling
<1>3. upstream' \in Further(upstream) /\ files' \subseteq files /\ files' = files
  BY <1>1 DEF Further
<1>4. GoodNext(record) /\ GoodNext(call[r].copy)
  BY <1>1, <1>2, <1>3, CopyLasts
<1>5. call[r].copy # NoRecord
  BY <1>2 DEF GoodCopy, NoRecord
<1>6. record' \in Records /\ record' # NoRecord /\ GoodNext(record')
  BY <1>1, <1>2, <1>4, <1>5
<1> QED BY <1>1, <1>2, <1>3, <1>6, RestIsPoll, PollKeeps

LEMMA ProviderKeeps == ASSUME BatchInv, ProviderEnds PROVE BatchInv'
<1>1. /\ upstream \in {"running", "cancelling"} /\ upstream' \in {"completed", "cancelled"}
      /\ UNCHANGED <<files, hints, record, create, call, mishap>>
  BY DEF ProviderEnds
<1>2. BatchTypeOK'
  BY <1>1 DEF BatchInv, BatchTypeOK, Statuses, Terminal
<1>3. CreationInv'
  BY <1>1 DEF BatchInv, CreationInv, Unsubmitted, Named
<1>4. CopiesInv'
  BY <1>1, CopiesStay DEF IsTerminalBatchStatus, Terminal
<1> QED BY <1>2, <1>3, <1>4 DEF BatchInv

LEMMA BatchStepKeeps ==
    ASSUME BatchInv, [BatchNext]_batchVars
    PROVE  BatchInv'
<1>1. CASE UNCHANGED batchVars
  BY <1>1 DEF batchVars, BatchInv, BatchTypeOK, CreationInv, Unsubmitted, Named, CopiesInv, GoodCopy,
              FileKeptWhileRunning, Stored
<1>2. CASE CreateStep
  BY <1>2, PrepareStepKeeps, FailsEarlyKeeps, SubmitKeeps, StoreKeeps, AftermathKeeps DEF CreateStep
<1>3. ASSUME NEW r \in Pollers, RequestStep(r) PROVE BatchInv'
  BY <1>3, AnswersKeep, WaitsKeep, CleanupKeeps, WriteBackKeeps DEF RequestStep
<1> QED BY <1>1, <1>2, <1>3, RequireKeeps, ProviderKeeps DEF BatchNext

LEMMA BatchInvariance == BatchSpec => []BatchInv
BY BatchStarts, BatchStepKeeps, PTL DEF BatchSpec

\* However many requests poll, cancel and write old copies back, and however far
\* the creation came: every file the provider holds is named by the stored
\* record, and a failed creation leaves nothing behind unless an undo call of
\* its own failed (batch_orchestrator.go).
THEOREM BatchLosesNothing == BatchSpec => []NothingOrphaned
<1>1. BatchInv => NothingOrphaned
  <2> SUFFICES ASSUME BatchInv PROVE NothingOrphaned
    OBVIOUS
  <2>1. create.at \in {"store", "clear", "ok"} => hints \/ record.hinted
    BY DEF BatchInv, CreationInv, CopiesInv, GoodCopy
  <2>2. ASSUME ~mishap, Stored PROVE files \subseteq {record.rewritten}
    <3>1. record # NoRecord /\ files \subseteq {create.active}
      BY <2>2 DEF BatchInv, CreationInv, Stored
    <3> QED BY <3>1 DEF BatchInv, CopiesInv, GoodCopy
  <2>3. ASSUME ~mishap, create.at = "failed" PROVE files = {} /\ upstream \notin {"running"} /\ ~hints
    BY <2>3 DEF BatchInv, CreationInv, Named
  <2> QED BY <2>1, <2>2, <2>3 DEF NothingOrphaned
<1> QED BY <1>1, BatchInvariance, PTL

\* While the provider runs a stored batch its rewritten input is there, whatever
\* stale copies the requests go by (cleanupStoredBatchRewrittenInputFile).
THEOREM BatchKeepsInput == BatchSpec => []FileKeptWhileRunning
<1>1. BatchInv => FileKeptWhileRunning
  BY DEF BatchInv, CopiesInv
<1> QED BY <1>1, BatchInvariance, PTL

-----------------------------------------------------------------------------
(* Conversations and responses *)

LEMMA FreshIsRequest == NoEntry \in Entries /\ Fresh \in CallStates /\ Fresh.at = "idle"
<1>1. NoEntry \in Entries
  <2>1. <<>> \in Seq(Calls \X {"input", "output"})
    OBVIOUS
  <2> QED BY <2>1 DEF NoEntry, Entries
<1> HIDE DEF NoEntry
<1> QED BY <1>1 DEF Fresh, CallStates

LEMMA ConversationsStart == ConversationsInit => ConversationsInv
<1> SUFFICES ASSUME ConversationsInit PROVE ConversationsInv
  OBVIOUS
<1>1. DOMAIN items = {} /\ gone = {} /\ now \in Nat
  BY DEF ConversationsInit
<1>2. EntriesInv
  BY <1>1, FS_EmptySet, RetentionAssumption DEF EntriesInv, GoneStaysGone
<1>3. \A c \in Calls : request[c] = Fresh /\ request[c].at = "idle"
  BY FreshIsRequest DEF ConversationsInit
<1>4. HandlersInv
  BY <1>1, <1>3, FreshIsRequest DEF HandlersInv, ConversationsInit
<1> QED BY <1>2, <1>4 DEF ConversationsInv

\* An operation that adds no entry, and keeps the times of those it changes.
LEMMA StoreShrinks ==
    ASSUME EntriesInv, NEW store, Becomes(store), DOMAIN store \subseteq DOMAIN items,
           \A id \in DOMAIN store : store[id] \in Entries /\ Timed(store[id])
    PROVE  /\ EntriesInv'
           /\ DOMAIN items' \cup gone' \subseteq DOMAIN items \cup gone
<1>1. items' = store /\ gone' = gone \cup (DOMAIN items \ DOMAIN store)
  BY DEF Becomes
<1>2. /\ IsFiniteSet(DOMAIN store) /\ Cardinality(DOMAIN store) <= Cardinality(DOMAIN items)
      /\ Cardinality(DOMAIN store) \in Nat /\ Cardinality(DOMAIN items) \in Nat
  BY FS_Subset, FS_CardinalityType DEF EntriesInv
<1>3. Cardinality(DOMAIN store) <= MaxEntries
  BY <1>2, RetentionAssumption DEF EntriesInv, GoneStaysGone
<1>4. gone' \cap DOMAIN items' = {}
  BY <1>1 DEF EntriesInv, GoneStaysGone
<1>5. \A id \in DOMAIN items' : items'[id].expiresAt = items'[id].storedAt + TTL
  BY <1>1 DEF Timed
<1>6. GoneStaysGone'
  BY <1>1, <1>3, <1>4, <1>5 DEF GoneStaysGone
<1>7. EntriesInv'
  BY <1>1, <1>2, <1>6 DEF EntriesInv
<1> QED BY <1>1, <1>7

LEMMA RestrictKeeps ==
    ASSUME EntriesInv, NEW S \in SUBSET DOMAIN items
    PROVE  /\ DOMAIN Restrict(items, S) = S
           /\ \A id \in S : /\ Restrict(items, S)[id] = items[id]
                            /\ items[id] \in Entries /\ Timed(items[id])
BY DEF Restrict, EntriesInv, GoneStaysGone, Timed

\* A request moves on; what it holds is timed, and only its own creation can
\* have been pending.
LEMMA HandlerMoves ==
    ASSUME HandlersInv, NEW c \in Calls, NEW e \in CallStates, request' = [request EXCEPT ![c] = e],
           now' \in Nat,
           DOMAIN items' \cup gone' \subseteq DOMAIN items \cup gone,
           e.at \in {"idle", "create"} => request[c].at \in {"idle", "create"},
           e.at \in {"clone", "call", "update"} => Timed(e.copy),
           e.at \in {"get", "clone", "call"} => e.op \in {"get", "turn", "update", "delete"}
    PROVE  HandlersInv'
<1>1. /\ request' \in [Calls -> CallStates] /\ request'[c] = e
      /\ \A d \in Calls \ {c} : request'[d] = request[d]
  BY DEF HandlersInv
<1>2. \A d \in Calls : request'[d].at \in {"idle", "create"} => request[d].at \in {"idle", "create"}
  BY <1>1
<1>3. \A d \in Calls : request'[d].at \in {"clone", "call", "update"} => Timed(request'[d].copy)
  BY <1>1 DEF HandlersInv
<1>4. \A d \in Calls : request'[d].at \in {"get", "clone", "call"} =>
        request'[d].op \in {"get", "turn", "update", "delete"}
  BY <1>1 DEF HandlersInv
<1> QED BY <1>1, <1>2, <1>3, <1>4 DEF HandlersInv, Timed

LEMMA EndedIsRequest ==
    ASSUME HandlersInv, NEW c \in Calls
    PROVE  Ended(c) \in CallStates /\ Ended(c).at = "done"
<1>1. request[c].op \in {"none", "create", "get", "turn", "update", "delete"}
  BY DEF HandlersInv, CallStates
<1> HIDE DEF Fresh
<1> QED BY <1>1, FreshIsRequest DEF Ended, CallStates

LEMMA BeginsKeep ==
    ASSUME ConversationsInv, NEW c \in Calls,
           BeginCreate(c) \/ \E id \in Calls, op \in {"get", "turn", "update", "delete"} : Begin(c, op, id)
    PROVE  ConversationsInv'
<1>1. request[c].at = "idle" /\ UNCHANGED <<now, items, gone>>
  BY DEF BeginCreate, Begin, storeVars
<1>2. now \in Nat /\ HandlersInv
  BY DEF ConversationsInv, HandlersInv
<1>3. EntriesInv'
  BY <1>1 DEF ConversationsInv, EntriesInv, GoneStaysGone
<1> HIDE DEF Fresh
<1>4. CASE BeginCreate(c)
  <2> DEFINE e == [Fresh EXCEPT !.at = "create", !.op = "create", !.id = c, !.clock = now]
  <2>1. request' = [request EXCEPT ![c] = e]
    BY <1>4 DEF BeginCreate
  <2>2. e \in CallStates /\ e.at = "create"
    BY <1>2, FreshIsRequest DEF CallStates
  <2> HIDE DEF e
  <2>3. HandlersInv'
    BY <1>1, <1>2, <2>1, <2>2, HandlerMoves
  <2> QED BY <1>3, <2>3 DEF ConversationsInv
<1>5. ASSUME NEW id \in Calls, NEW op \in {"get", "turn", "update", "delete"}, Begin(c, op, id)
      PROVE  ConversationsInv'
  <2> DEFINE at == IF op = "delete" /\ kind = "conversations" THEN "delete" ELSE "get"
             e == [Fresh EXCEPT !.at = at, !.op = op, !.id = id, !.clock = now]
  <2>1. request' = [request EXCEPT ![c] = e] /\ at \in {"delete", "get"}
    BY <1>5 DEF Begin
  <2> HIDE DEF at
  <2>2. e \in CallStates /\ e.at = at /\ e.op = op
    BY <1>2, <2>1, FreshIsRequest DEF CallStates
  <2> HIDE DEF e
  <2>3. HandlersInv'
    BY <1>1, <1>2, <2>1, <2>2, HandlerMoves
  <2> QED BY <1>3, <2>3 DEF ConversationsInv
<1> QED BY <1>4, <1>5

\* What the sweep leaves, and the throwing out of an entry that is not there.
LEMMA SweepKeeps ==
    ASSUME EntriesInv, NEW clock, NEW id,
           Becomes(Restrict(items, Kept(clock))) \/ Becomes(Without(id, clock))
    PROVE  EntriesInv' /\ DOMAIN items' \cup gone' \subseteq DOMAIN items \cup gone
<1>1. PICK S \in SUBSET DOMAIN items : Becomes(Restrict(items, S))
  <2>1. Kept(clock) \in SUBSET DOMAIN items /\ Kept(clock) \ {id} \in SUBSET DOMAIN items
    BY DEF Kept
  <2> QED BY <2>1 DEF Without
<1>2. /\ DOMAIN Restrict(items, S) \subseteq DOMAIN items
      /\ \A k \in DOMAIN Restrict(items, S) : Restrict(items, S)[k] \in Entries /\ Timed(Restrict(items, S)[k])
  BY RestrictKeeps
<1> QED BY <1>1, <1>2, StoreShrinks

\* The only operation that adds an entry adds one that never was in the store.
LEMMA CreateKeeps ==
    ASSUME ConversationsInv, NEW c \in Calls, Create(c)
    PROVE  ConversationsInv'
<1> DEFINE clock == request[c].clock
           kept == Restrict(items, Kept(clock))
           entry == [items |-> <<>>, storedAt |-> clock, expiresAt |-> clock + TTL, object |-> c]
           grown == With(kept, c, entry)
<1>1. PICK store \in enforceMaxEntries(grown) : Becomes(store)
  BY DEF Create
<1>2. request[c].at = "create" /\ Ends(c) /\ UNCHANGED now
  BY DEF Create
<1>3. clock \in Nat
  BY DEF ConversationsInv, HandlersInv, CallStates
<1>4. entry \in Entries /\ Timed(entry)
  <2>1. clock + TTL \in Nat /\ <<>> \in Seq(Calls \X {"input", "output"})
    BY <1>3, RetentionAssumption
  <2> QED BY <1>3, <2>1 DEF Entries, Timed
<1> HIDE DEF clock, entry
<1>5. /\ DOMAIN kept \subseteq DOMAIN items
      /\ \A id \in DOMAIN kept : kept[id] \in Entries /\ Timed(kept[id])
  <2>1. Kept(clock) \in SUBSET DOMAIN items
    BY DEF Kept
  <2> QED BY <2>1, RestrictKeeps DEF ConversationsInv
<1> HIDE DEF kept
<1>6. /\ DOMAIN grown = DOMAIN kept \cup {c}
      /\ \A id \in DOMAIN grown : grown[id] \in Entries /\ Timed(grown[id])
  BY <1>4, <1>5 DEF With
<1>7. IsFiniteSet(DOMAIN grown) /\ Cardinality(DOMAIN grown) \in Nat
  <2>1. IsFiniteSet(DOMAIN kept)
    BY <1>5, FS_Subset DEF ConversationsInv, EntriesInv
  <2> QED BY <1>6, <2>1, FS_AddElement, FS_CardinalityType
<1> HIDE DEF grown
<1>8. /\ DOMAIN store \subseteq DOMAIN grown
      /\ \A id \in DOMAIN store : store[id] \in Entries /\ Timed(store[id])
      /\ Cardinality(DOMAIN store) <= MaxEntries
  <2>1. CASE Cardinality(DOMAIN grown) <= MaxEntries
    BY <1>1, <1>6, <2>1 DEF enforceMaxEntries
  <2>2. CASE ~(Cardinality(DOMAIN grown) <= MaxEntries)
    <3>1. PICK S \in SUBSET DOMAIN grown : Cardinality(S) = MaxEntries /\ store = Restrict(grown, S)
      BY <1>1, <2>2 DEF enforceMaxEntries
    <3>2. DOMAIN store = S /\ \A id \in S : store[id] = grown[id]
      BY <3>1 DEF Restrict
    <3>3. Cardinality(DOMAIN store) <= MaxEntries
      BY <3>1, <3>2, RetentionAssumption
    <3> QED BY <1>6, <3>2, <3>3
  <2> QED BY <2>1, <2>2
<1>9. IsFiniteSet(DOMAIN store) /\ DOMAIN store \subseteq DOMAIN items \cup {c}
  BY <1>5, <1>6, <1>7, <1>8, FS_Subset
<1>10. c \notin DOMAIN items \cup gone
  BY <1>2 DEF ConversationsInv, HandlersInv
<1>11. items' = store /\ gone' = gone \cup (DOMAIN items \ DOMAIN store)
  BY <1>1 DEF Becomes
<1>12. EntriesInv'
  <2>1. gone' \cap DOMAIN items' = {}
    BY <1>9, <1>10, <1>11 DEF ConversationsInv, EntriesInv, GoneStaysGone
  <2>2. \A id \in DOMAIN items' : items'[id].expiresAt = items'[id].storedAt + TTL
    BY <1>8, <1>11 DEF Timed
  <2> QED BY <1>8, <1>9, <1>11, <2>1, <2>2 DEF ConversationsInv, EntriesInv, GoneStaysGone
<1>13. HandlersInv'
  <2>1. /\ request' = [request EXCEPT ![c] = Ended(c)]
        /\ Ended(c) \in CallStates /\ Ended(c).at = "done"
    BY <1>2, EndedIsRequest DEF Ends, ConversationsInv
  <2> DEFINE e == Ended(c)
  <2>2. e \in CallStates /\ e.at = "done"
    BY <2>1
  <2> HIDE DEF e
  <2>3. request' \in [Calls -> CallStates] /\ request'[c] = e /\ \A d \in Calls \ {c} : request'[d] = request[d]
    BY <2>1, <2>2 DEF ConversationsInv, HandlersInv, e
  <2>4. ASSUME NEW d \in Calls, request'[d].at \in {"idle", "create"}
        PROVE  d \notin DOMAIN items' \cup gone'
    <3>1. d # c /\ request[d].at \in {"idle", "create"}
      BY <2>2, <2>3, <2>4
    <3>2. d \notin DOMAIN items \cup gone
      BY <3>1 DEF ConversationsInv, HandlersInv
    <3> QED BY <1>9, <1>11, <3>1, <3>2
  <2>5. \A d \in Calls : request'[d].at \in {"clone", "call", "update"} => Timed(request'[d].copy)
    BY <2>2, <2>3 DEF ConversationsInv, HandlersInv
  <2>6. \A d \in Calls : request'[d].at \in {"get", "clone", "call"} =>
          request'[d].op \in {"get", "turn", "update", "delete"}
    BY <2>2, <2>3 DEF ConversationsInv, HandlersInv
  <2>7. now' \in Nat
    BY <1>2 DEF ConversationsInv, HandlersInv
  <2> QED BY <2>3, <2>4, <2>5, <2>6, <2>7 DEF HandlersInv, Timed
<1> QED BY <1>12, <1>13 DEF ConversationsInv

LEMMA EndsKeeps ==
    ASSUME HandlersInv, NEW c \in Calls, Ends(c), UNCHANGED now,
           DOMAIN items' \cup gone' \subseteq DOMAIN items \cup gone
    PROVE  HandlersInv'
<1> DEFINE e == Ended(c)
<1>1. request' = [request EXCEPT ![c] = e] /\ e \in CallStates /\ e.at = "done"
  BY EndedIsRequest DEF Ends
<1>2. now' \in Nat
  BY DEF HandlersInv
<1> HIDE DEF e
<1> QED BY <1>1, <1>2, HandlerMoves

LEMMA GotoKeeps ==
    ASSUME HandlersInv, NEW c \in Calls, NEW at \in {"get", "call", "append", "update", "delete"},
           request[c].at \in {"get", "clone", "call"}, Goto(c, at),
           UNCHANGED <<now, items, gone>>, at \in {"call", "update"} => Timed(request[c].copy)
    PROVE  HandlersInv'
<1> DEFINE e == [request[c] EXCEPT !.at = at, !.clock = now]
<1>1. /\ request[c] \in CallStates /\ now \in Nat
      /\ request[c].op \in {"get", "turn", "update", "delete"}
  BY DEF HandlersInv
<1>2. e \in CallStates /\ e.at = at /\ e.copy = request[c].copy /\ e.op = request[c].op
  BY <1>1 DEF CallStates
<1>3. request' = [request EXCEPT ![c] = e]
  BY DEF Goto
<1> HIDE DEF e
<1> QED BY <1>1, <1>2, <1>3, HandlerMoves

\* An operation on an entry that is not there ends its request.
LEMMA NotFoundKeeps ==
    ASSUME ConversationsInv, NEW c \in Calls, NEW clock, NotFound(c, clock)
    PROVE  EntriesInv' /\ DOMAIN items' \cup gone' \subseteq DOMAIN items \cup gone
<1>1. Becomes(Without(request[c].id, clock))
  BY DEF NotFound
<1> QED BY <1>1, SweepKeeps DEF ConversationsInv

LEMMA GetKeeps ==
    ASSUME ConversationsInv, NEW c \in Calls, Get(c)
    PROVE  ConversationsInv'
<1> DEFINE id == request[c].id
           clock == request[c].clock
<1>1. request[c].at = "get" /\ UNCHANGED now
  BY DEF Get
<1>2. CASE NotFound(c, clock) /\ Ends(c)
  BY <1>1, <1>2, NotFoundKeeps, EndsKeeps DEF ConversationsInv
<1>3. CASE /\ Present(id, clock)
           /\ Becomes(Restrict(items, Kept(clock)))
           /\ request' = [request EXCEPT ![c].at = "clone", ![c].copy = items[id], ![c].raced = FALSE]
  <2>1. EntriesInv' /\ DOMAIN items' \cup gone' \subseteq DOMAIN items \cup gone
    BY <1>3, SweepKeeps DEF ConversationsInv
  <2>2. items[id] \in Entries /\ Timed(items[id])
    <3>1. id \in DOMAIN items
      BY <1>3 DEF Present, Kept
    <3> QED BY <3>1 DEF ConversationsInv, EntriesInv, GoneStaysGone, Timed
  <2> DEFINE e == [request[c] EXCEPT !.at = "clone", !.copy = items[id], !.raced = FALSE]
  <2>3. /\ e \in CallStates /\ e.at = "clone" /\ e.copy = items[id]
        /\ e.op \in {"get", "turn", "update", "delete"}
    BY <1>1, <2>2 DEF ConversationsInv, HandlersInv, CallStates
  <2>4. request' = [request EXCEPT ![c] = e]
    BY <1>3
  <2>5. now' \in Nat
    BY <1>1 DEF ConversationsInv, HandlersInv
  <2>6. Timed(e.copy)
    BY <2>2, <2>3
  <2> HIDE DEF e
  <2>7. HandlersInv'
    BY <2>1, <2>3, <2>4, <2>5, <2>6, HandlerMoves DEF ConversationsInv
  <2> QED BY <2>1, <2>7 DEF ConversationsInv
<1> QED BY <1>2, <1>3 DEF Get

\* The copy that is made is of the entry or of a later state of it, whose times
\* are the same.
LEMMA CloneKeeps ==
    ASSUME ConversationsInv, NEW c \in Calls, Clone(c)
    PROVE  ConversationsInv'
<1> DEFINE id == request[c].id
<1>1. request[c].at = "clone" /\ UNCHANGED <<now, items, gone>>
  BY DEF Clone, storeVars
<1>2. EntriesInv'
  BY <1>1 DEF ConversationsInv, EntriesInv, GoneStaysGone
<1>3. AfterGet(c) \in {"done", "update", "call"}
  BY DEF AfterGet
<1>4. /\ HandlersInv /\ Timed(request[c].copy) /\ request[c] \in CallStates /\ now \in Nat
      /\ request[c].op \in {"get", "turn", "update", "delete"}
  BY <1>1 DEF ConversationsInv, HandlersInv
<1>5. CASE Ends(c)
  BY <1>1, <1>2, <1>4, <1>5, EndsKeeps DEF ConversationsInv
<1>6. CASE AfterGet(c) # "done" /\ Goto(c, AfterGet(c))
  <2>1. HandlersInv'
    <3> DEFINE at == AfterGet(c)
    <3>1. at \in {"get", "call", "append", "update", "delete"} /\ Goto(c, at)
      BY <1>3, <1>6
    <3> HIDE DEF at
    <3> QED BY <1>1, <1>4, <3>1, GotoKeeps
  <2> QED BY <1>2, <2>1 DEF ConversationsInv
<1>7. CASE /\ AfterGet(c) # "done" /\ id \in DOMAIN items
           /\ request' = [request EXCEPT ![c].at = AfterGet(c), ![c].clock = now, ![c].copy = items[id]]
  <2> DEFINE at == AfterGet(c)
             e == [request[c] EXCEPT !.at = at, !.clock = now, !.copy = items[id]]
  <2>1. at \in {"update", "call"} /\ items[id] \in Entries /\ Timed(items[id])
    BY <1>3, <1>7 DEF ConversationsInv, EntriesInv, GoneStaysGone, Timed
  <2>2. request' = [request EXCEPT ![c] = e]
    BY <1>7
  <2> HIDE DEF at
  <2>3. e \in CallStates /\ e.at = at /\ e.copy = items[id] /\ e.op = request[c].op
    BY <1>4, <2>1 DEF CallStates
  <2>4. Timed(e.copy)
    BY <2>1, <2>3
  <2> HIDE DEF e
  <2>5. HandlersInv'
    BY <1>1, <1>4, <2>1, <2>2, <2>3, <2>4, HandlerMoves
  <2> QED BY <1>2, <2>5 DEF ConversationsInv
<1> QED BY <1>5, <1>6, <1>7 DEF Clone

LEMMA ProviderAnswersKeep ==
    ASSUME ConversationsInv, NEW c \in Calls, ProviderAnswers(c)
    PROVE  ConversationsInv'
<1> DEFINE at == IF request[c].op = "turn" THEN "append" ELSE request[c].op
<1>1. request[c].at = "call" /\ UNCHANGED <<now, items, gone>>
  BY DEF ProviderAnswers, storeVars
<1>2. EntriesInv'
  BY <1>1 DEF ConversationsInv, EntriesInv, GoneStaysGone
<1>3. /\ HandlersInv /\ Timed(request[c].copy)
      /\ request[c].op \in {"get", "turn", "update", "delete"}
  BY <1>1 DEF ConversationsInv, HandlersInv
<1>4. CASE Ends(c)
  BY <1>1, <1>2, <1>3, <1>4, EndsKeeps DEF ConversationsInv
<1>5. CASE Goto(c, at) 
  <2>1. at \in {"get", "call", "append", "update", "delete"}
    BY <1>3
  <2> HIDE DEF at
  <2> QED BY <1>1, <1>2, <1>3, <1>5, <2>1, GotoKeeps DEF ConversationsInv
<1> QED BY <1>4, <1>5 DEF ProviderAnswers

\* An append leaves an entry its name and its times, and marks the requests
\* that are copying it.
LEMMA AppendKeeps ==
    ASSUME ConversationsInv, NEW c \in Calls, AppendItems(c)
    PROVE  ConversationsInv'
<1> DEFINE id == request[c].id
           clock == request[c].clock
<1>1. UNCHANGED now /\ request[c].at = "append"
  BY DEF AppendItems
<1>2. CASE NotFound(c, clock) /\ Ends(c)
  BY <1>1, <1>2, NotFoundKeeps, EndsKeeps DEF ConversationsInv
<1>3. ASSUME Present(id, clock),
             Becomes([Restrict(items, Kept(clock)) EXCEPT ![id].items = @ \o Exchange(c)]),
             NEW readers \in SUBSET (Calls \ {c}),
             request' = [d \in Calls |-> IF d = c THEN Ended(c)
                                         ELSE IF d \in readers THEN [request[d] EXCEPT !.raced = TRUE]
                                         ELSE request[d]]
      PROVE  ConversationsInv'
  <2> DEFINE kept == Restrict(items, Kept(clock))
             longer == kept[id].items \o Exchange(c)
             entry == [kept[id] EXCEPT !.items = longer]
             store == [kept EXCEPT ![id] = entry]
  <2>1. id \in Kept(clock) /\ Kept(clock) \in SUBSET DOMAIN items
    BY <1>3 DEF Present, Kept
  <2>2. /\ DOMAIN kept = Kept(clock) /\ kept[id] = items[id]
        /\ \A k \in Kept(clock) : kept[k] = items[k] /\ items[k] \in Entries /\ Timed(items[k])
    BY <2>1, RestrictKeeps DEF ConversationsInv
  <2>3. Becomes(store)
    BY <1>3
  <2> HIDE DEF kept
  <2>4. longer \in Seq(Calls \X {"input", "output"})
    <3>1. kept[id].items \in Seq(Calls \X {"input", "output"})
      BY <2>1, <2>2 DEF Entries
    <3>2. Exchange(c) \in Seq(Calls \X {"input", "output"})
      BY DEF Exchange
    <3> QED BY <3>1, <3>2
  <2> HIDE DEF longer
  <2>5. entry \in Entries /\ Timed(entry)
    BY ZenonT(90), <2>1, <2>2, <2>4 DEF Entries, Timed
  <2> HIDE DEF entry
  <2>6. DOMAIN store \subseteq DOMAIN items /\ \A k \in DOMAIN store : store[k] \in Entries /\ Timed(store[k])
    BY <2>1, <2>2, <2>5
  <2>7. EntriesInv' /\ DOMAIN items' \cup gone' \subseteq DOMAIN items \cup gone
    BY <2>3, <2>6, StoreShrinks DEF ConversationsInv
  <2>8. \A d \in Calls : /\ request'[d] \in CallStates
                         /\ request'[d].at \in {"idle", "create"} => request[d].at \in {"idle", "create"}
                         /\ request'[d].at # "done" => /\ request'[d].at = request[d].at
                                                       /\ request'[d].op = request[d].op
                                                       /\ request'[d].copy = request[d].copy
    <3> SUFFICES ASSUME NEW d \in Calls
                 PROVE  /\ request'[d] \in CallStates
                        /\ request'[d].at # "done" => /\ request'[d].at = request[d].at
                                                      /\ request'[d].op = request[d].op
                                                      /\ request'[d].copy = request[d].copy
      OBVIOUS
    <3>1. request[d] \in CallStates
      BY DEF ConversationsInv, HandlersInv
    <3>2. CASE d = c
      BY <1>3, <3>2, EndedIsRequest DEF ConversationsInv
    <3>3. CASE d # c
      <4> DEFINE e == [request[d] EXCEPT !.raced = TRUE]
      <4>1. e \in CallStates /\ e.at = request[d].at /\ e.op = request[d].op /\ e.copy = request[d].copy
        BY <3>1 DEF CallStates
      <4>2. request'[d] \in {e, request[d]}
        BY <1>3, <3>3
      <4> HIDE DEF e
      <4> QED BY <3>1, <4>1, <4>2
    <3> QED BY <3>2, <3>3
  <2>9. request' \in [Calls -> CallStates]
    <3>1. DOMAIN request' = Calls /\ request' = [d \in Calls |-> request'[d]]
      BY <1>3
    <3> QED BY <2>8, <3>1
  <2>10. HandlersInv'
    BY <1>1, <2>7, <2>8, <2>9 DEF ConversationsInv, HandlersInv, Timed
  <2> QED BY <2>7, <2>10 DEF ConversationsInv
<1>4. CASE /\ Present(id, clock)
           /\ Becomes([Restrict(items, Kept(clock)) EXCEPT ![id].items = @ \o Exchange(c)])
           /\ ~ (NotFound(c, clock) /\ Ends(c))
  <2> DEFINE readers == {d \in Calls \ {c} : /\ request[d].at = "clone" /\ id \in DOMAIN items
                                             /\ request[d].id = id /\ request[d].copy.object = items[id].object}
  <2>1. request' = [d \in Calls |-> IF d = c THEN Ended(c)
                                    ELSE IF d \in readers THEN [request[d] EXCEPT !.raced = TRUE]
                                    ELSE request[d]]
    BY <1>4 DEF AppendItems
  <2>2. readers \in SUBSET (Calls \ {c})
    OBVIOUS
  <2> HIDE DEF readers
  <2> QED BY <1>3, <1>4, <2>1, <2>2
<1> QED BY <1>2, <1>4 DEF AppendItems

\* A write of a copy only replaces an entry that is there, and the copy was
\* promised no more time than its entry.
LEMMA UpdateKeeps ==
    ASSUME ConversationsInv, NEW c \in Calls, Update(c)
    PROVE  ConversationsInv'
<1> DEFINE id == request[c].id
           clock == request[c].clock
           kept == Restrict(items, Kept(clock))
           entry == [request[c].copy EXCEPT !.object = c]
           store == With(kept, id, entry)
<1>1. request[c].at = "update" /\ Ends(c) /\ UNCHANGED now
  BY DEF Update
<1>2. CASE NotFound(c, clock)
  BY <1>1, <1>2, NotFoundKeeps, EndsKeeps DEF ConversationsInv
<1>3. CASE Present(id, clock) /\ Becomes(store)
  <2>1. id \in Kept(clock) /\ Kept(clock) \in SUBSET DOMAIN items
    BY <1>3 DEF Present, Kept
  <2>2. entry \in Entries /\ Timed(entry)
    <3>1. request[c].copy \in Entries /\ Timed(request[c].copy)
      BY <1>1 DEF ConversationsInv, HandlersInv, CallStates
    <3> QED BY <3>1 DEF Entries, Timed
  <2>3. /\ DOMAIN kept = Kept(clock)
        /\ \A k \in Kept(clock) : kept[k] \in Entries /\ Timed(kept[k])
    BY <2>1, RestrictKeeps DEF ConversationsInv
  <2> HIDE DEF entry, kept
  <2>4. DOMAIN store \subseteq DOMAIN items /\ \A k \in DOMAIN store : store[k] \in Entries /\ Timed(store[k])
    BY <2>1, <2>2, <2>3 DEF With
  <2>5. EntriesInv' /\ DOMAIN items' \cup gone' \subseteq DOMAIN items \cup gone
    BY <1>3, <2>4, StoreShrinks DEF ConversationsInv
  <2> QED BY <1>1, <2>5, EndsKeeps DEF ConversationsInv
<1> QED BY <1>2, <1>3 DEF Update

LEMMA DeleteKeeps ==
    ASSUME ConversationsInv, NEW c \in Calls, Delete(c)
    PROVE  ConversationsInv'
<1>1. Becomes(Without(request[c].id, now)) /\ Ends(c) /\ UNCHANGED now
  BY DEF Delete
<1>2. EntriesInv' /\ DOMAIN items' \cup gone' \subseteq DOMAIN items \cup gone
  BY <1>1, SweepKeeps DEF ConversationsInv
<1> QED BY <1>1, <1>2, EndsKeeps DEF ConversationsInv

LEMMA ConversationsStepKeeps ==
    ASSUME ConversationsInv, [ConversationsNext]_conversationVars
    PROVE  ConversationsInv'
<1>1. CASE UNCHANGED conversationVars
  BY <1>1 DEF conversationVars, storeVars, ConversationsInv, EntriesInv, HandlersInv, GoneStaysGone, Timed
<1>2. CASE Tick
  <2>1. now' \in Nat /\ UNCHANGED <<items, gone, request>>
    BY <1>2 DEF Tick, storeVars, ConversationsInv, HandlersInv
  <2> QED BY <2>1 DEF ConversationsInv, EntriesInv, HandlersInv, GoneStaysGone, Timed
<1>3. ASSUME NEW c \in Calls, BeginCreate(c) \/ Serve(c) PROVE ConversationsInv'
  BY <1>3, BeginsKeep, CreateKeeps, GetKeeps, CloneKeeps, ProviderAnswersKeep, AppendKeeps,
     UpdateKeeps, DeleteKeeps DEF Serve
<1>4. ASSUME NEW c \in Calls, NEW id \in Calls, NEW op \in {"get", "turn", "update", "delete"}, Begin(c, op, id)
      PROVE  ConversationsInv'
  BY <1>4, BeginsKeep
<1> QED BY <1>1, <1>2, <1>3, <1>4 DEF ConversationsNext

\* For any cap, retention, sweep interval and requests: what was deleted,
\* evicted or has expired does not come back, though handlers still hold and
\* write copies of it, and no write prolongs an entry's life (store_memory.go).
THEOREM GoneForGood == ConversationsSpec => []GoneStaysGone
<1>1. ConversationsInv => GoneStaysGone
  BY DEF ConversationsInv, EntriesInv
<1> QED BY <1>1, ConversationsStart, ConversationsStepKeeps, PTL DEF ConversationsSpec

-----------------------------------------------------------------------------
(* What a conversation holds *)

\* A step that adds no entry, appends nothing, and gives no entry other items
\* without a note.
LEMMA ItemsStay ==
    ASSUME ExchangesInv, UNCHANGED appended, overwritten \subseteq overwritten',
           DOMAIN items \subseteq DOMAIN items' \cup gone', gone \subseteq gone',
           DOMAIN items' \subseteq DOMAIN items,
           \A id \in DOMAIN items' \ overwritten' : items'[id].items = items[id].items
    PROVE  ExchangesInv'
<1>1. appended' \in [Calls -> Seq(Calls)]
  BY DEF ExchangesInv
<1>2. \A id \in Calls \ (DOMAIN items' \cup gone') : appended'[id] = <<>>
  BY DEF ExchangesInv
<1>3. ASSUME NEW id \in DOMAIN items' \ overwritten'
      PROVE  AreExchangesOf(items'[id].items, appended'[id])
  <2>1. AreExchangesOf(items[id].items, appended[id])
    BY <1>3 DEF ExchangesInv, KeptUnlessOverwritten
  <2>2. items'[id].items = items[id].items /\ appended'[id] = appended[id]
    BY <1>3
  <2> QED BY <2>1, <2>2
<1>4. KeptUnlessOverwritten'
  BY <1>3 DEF KeptUnlessOverwritten
<1> QED BY <1>1, <1>2, <1>4 DEF ExchangesInv

\* Sweeping, and throwing out an entry, among them.
LEMMA RestrictingStays ==
    ASSUME ExchangesInv, UNCHANGED appended, overwritten \subseteq overwritten',
           NEW S \in SUBSET DOMAIN items, Becomes(Restrict(items, S))
    PROVE  ExchangesInv'
<1>1. /\ DOMAIN Restrict(items, S) = S
      /\ \A id \in S : Restrict(items, S)[id] = items[id]
  BY DEF Restrict
<1>2. items' = Restrict(items, S) /\ gone' = gone \cup (DOMAIN items \ S)
  BY <1>1 DEF Becomes
<1>3. DOMAIN items' = S /\ \A id \in S : items'[id].items = items[id].items
  BY <1>1, <1>2
<1>4. gone \subseteq gone' /\ DOMAIN items \subseteq DOMAIN items' \cup gone'
  BY <1>2, <1>3
<1> QED BY <1>3, <1>4, ItemsStay

LEMMA NotFoundStays ==
    ASSUME ExchangesInv, UNCHANGED <<appended, overwritten>>, NEW c, NEW clock, NotFound(c, clock)
    PROVE  ExchangesInv'
<1>1. PICK S \in SUBSET DOMAIN items : Becomes(Restrict(items, S))
  <2>1. Kept(clock) \ {request[c].id} \in SUBSET DOMAIN items
    BY DEF Kept
  <2> QED BY <2>1 DEF NotFound, Without
<1> QED BY <1>1, RestrictingStays

\* A conversation is created without items, and was never appended to.
LEMMA CreateStays ==
    ASSUME ConversationsInv, ExchangesInv, NEW c \in Calls, Create(c)
    PROVE  ExchangesInv'
<1> DEFINE clock == request[c].clock
           kept == Restrict(items, Kept(clock))
           entry == [items |-> <<>>, storedAt |-> clock, expiresAt |-> clock + TTL, object |-> c]
           grown == With(kept, c, entry)
<1>1. PICK store \in enforceMaxEntries(grown) : Becomes(store)
  BY DEF Create
<1>2. UNCHANGED <<appended, overwritten>>
  BY DEF Create
<1>3. c \notin DOMAIN items \cup gone
  BY DEF Create, ConversationsInv, HandlersInv
<1>4. entry.items = <<>>
  OBVIOUS
<1> HIDE DEF clock, entry
<1>5. DOMAIN kept \subseteq DOMAIN items /\ \A id \in DOMAIN kept : kept[id] = items[id]
  BY DEF Kept, Restrict
<1> HIDE DEF kept
<1>6. /\ DOMAIN grown = DOMAIN kept \cup {c} /\ grown[c] = entry
      /\ \A id \in DOMAIN kept : id # c => grown[id] = items[id]
  BY <1>5 DEF With
<1> HIDE DEF grown
<1>7. DOMAIN store \subseteq DOMAIN grown /\ \A id \in DOMAIN store : store[id] = grown[id]
  <2>1. CASE store = grown
    BY <2>1
  <2>2. CASE \E S \in SUBSET DOMAIN grown : store = Restrict(grown, S)
    BY <2>2 DEF Restrict
  <2> QED BY <1>1, <2>1, <2>2 DEF enforceMaxEntries
<1>8. items' = store /\ gone' = gone \cup (DOMAIN items \ DOMAIN store)
  BY <1>1 DEF Becomes
<1>9. ASSUME NEW id \in DOMAIN items' \ overwritten'
      PROVE  AreExchangesOf(items'[id].items, appended'[id])
  <2>1. CASE id = c
    <3>1. c \in Calls \ (DOMAIN items \cup gone)
      BY <1>3
    <3>2. items'[id].items = <<>> /\ appended'[id] = <<>>
      BY <1>2, <1>4, <1>6, <1>7, <1>8, <1>9, <2>1, <3>1 DEF ExchangesInv
    <3> QED BY <3>2 DEF AreExchangesOf
  <2>2. CASE id # c
    <3>1. id \in DOMAIN items \ overwritten /\ items'[id] = items[id]
      BY <1>2, <1>5, <1>6, <1>7, <1>8, <1>9, <2>2
    <3> QED BY <1>2, <3>1 DEF ExchangesInv, KeptUnlessOverwritten
  <2> QED BY <2>1, <2>2
<1>10. KeptUnlessOverwritten'
  BY <1>9 DEF KeptUnlessOverwritten
<1>11. \A id \in Calls \ (DOMAIN items' \cup gone') : id \in Calls \ (DOMAIN items \cup gone)
  BY <1>8
<1>12. appended' \in [Calls -> Seq(Calls)]
       /\ \A id \in Calls \ (DOMAIN items' \cup gone') : appended'[id] = <<>>
  BY <1>2, <1>11 DEF ExchangesInv
<1> QED BY <1>10, <1>12 DEF ExchangesInv

\* One more turn, one more exchange, at the end.
LEMMA ExchangeAdded ==
    ASSUME NEW its \in Seq(Calls \X {"input", "output"}), NEW turns \in Seq(Calls), NEW c \in Calls,
           AreExchangesOf(its, turns)
    PROVE  AreExchangesOf(its \o Exchange(c), Append(turns, c))
<1> DEFINE longer == its \o Exchange(c)
           n == Len(turns)
<1>1. Len(Exchange(c)) = 2 /\ Exchange(c) \in Seq(Calls \X {"input", "output"})
  BY DEF Exchange
<1>2. n \in Nat /\ Len(its) = 2 * n /\ Len(longer) = 2 * n + 2
  <2>1. n \in Nat /\ Len(its) = 2 * n
    BY DEF AreExchangesOf
  <2>2. \A S : \A s, t \in Seq(S) : Len(s \o t) = Len(s) + Len(t)
    OBVIOUS
  <2>3. Len(longer) = Len(its) + Len(Exchange(c))
    BY <1>1, <2>2
  <2> QED BY <1>1, <2>1, <2>3
<1>3. \A i \in 1..(2 * n) : longer[i] = its[i]
  BY <1>1, <1>2
<1>4. longer[2 * n + 1] = Exchange(c)[1] /\ longer[2 * n + 2] = Exchange(c)[2]
  BY <1>1, <1>2
<1>5. Len(Append(turns, c)) = n + 1 /\ Append(turns, c)[n + 1] = c
      /\ DOMAIN Append(turns, c) = 1..(n + 1) /\ DOMAIN turns = 1..n
      /\ \A k \in 1..n : Append(turns, c)[k] = turns[k]
  OBVIOUS
<1> HIDE DEF longer, n
<1>6. ASSUME NEW k \in 1..(n + 1)
      PROVE  <<longer[2 * k - 1], longer[2 * k]>> = Exchange(Append(turns, c)[k])
  <2>1. CASE k = n + 1
    <3>1. 2 * k - 1 = 2 * n + 1 /\ 2 * k = 2 * n + 2
      BY <1>2, <2>1
    <3>2. <<Exchange(c)[1], Exchange(c)[2]>> = Exchange(c)
      BY DEF Exchange
    <3> QED BY <1>4, <1>5, <2>1, <3>1, <3>2
  <2>2. CASE k # n + 1
    <3>1. k \in 1..n
      BY <1>2, <1>6, <2>2
    <3>2. 2 * k - 1 \in 1..(2 * n) /\ 2 * k \in 1..(2 * n)
      BY <1>2, <3>1
    <3>3. <<its[2 * k - 1], its[2 * k]>> = Exchange(turns[k])
      BY <1>5, <3>1 DEF AreExchangesOf
    <3> QED BY <1>3, <1>5, <3>1, <3>2, <3>3
  <2> QED BY <2>1, <2>2
<1>7. Len(longer) = 2 * Len(Append(turns, c))
  BY <1>2, <1>5
<1> QED BY <1>5, <1>6, <1>7 DEF AreExchangesOf, longer

LEMMA AppendStays ==
    ASSUME ConversationsInv, ExchangesInv, NEW c \in Calls, AppendItems(c)
    PROVE  ExchangesInv'
<1> DEFINE id == request[c].id
           clock == request[c].clock
<1>1. CASE NotFound(c, clock) /\ UNCHANGED appended
  BY <1>1, NotFoundStays DEF AppendItems
<1>2. CASE /\ Present(id, clock)
           /\ Becomes([Restrict(items, Kept(clock)) EXCEPT ![id].items = @ \o Exchange(c)])
           /\ appended' = [appended EXCEPT ![id] = Append(@, c)]
  <2> DEFINE kept == Restrict(items, Kept(clock))
             entry == [kept[id] EXCEPT !.items = @ \o Exchange(c)]
             store == [kept EXCEPT ![id] = entry]
  <2>1. id \in DOMAIN items /\ id \in Calls /\ Kept(clock) \subseteq DOMAIN items /\ id \in Kept(clock)
    BY <1>2 DEF Present, Kept, ConversationsInv, EntriesInv
  <2>2. DOMAIN kept = Kept(clock) /\ \A k \in Kept(clock) : kept[k] = items[k]
    BY DEF Restrict
  <2>3. Becomes(store) /\ UNCHANGED overwritten
    BY <1>2 DEF AppendItems
  <2> HIDE DEF kept
  <2>4. items[id] \in Entries
    BY <2>1 DEF ConversationsInv, EntriesInv
  <2>5. entry.items = items[id].items \o Exchange(c)
    BY <2>1, <2>2, <2>4 DEF Entries
  <2> HIDE DEF entry
  <2>6. DOMAIN store = Kept(clock) /\ store[id] = entry /\ \A k \in Kept(clock) \ {id} : store[k] = items[k]
    BY <2>1, <2>2
  <2> HIDE DEF store
  <2>7. items' = store /\ gone' = gone \cup (DOMAIN items \ Kept(clock))
    BY <2>3, <2>6 DEF Becomes
  <2>8. /\ appended \in [Calls -> Seq(Calls)] /\ appended' \in [Calls -> Seq(Calls)]
        /\ appended'[id] = Append(appended[id], c)
        /\ \A k \in Calls \ {id} : appended'[k] = appended[k]
    BY SMTT(60), <1>2, <2>1 DEF ExchangesInv
  <2>9. ASSUME NEW k \in DOMAIN items' \ overwritten'
        PROVE  AreExchangesOf(items'[k].items, appended'[k])
    <3>1. k \in DOMAIN items \ overwritten /\ k \in Calls
      BY <2>1, <2>3, <2>6, <2>7, <2>9 DEF ConversationsInv, EntriesInv
    <3>2. AreExchangesOf(items[k].items, appended[k])
      BY <3>1 DEF ExchangesInv, KeptUnlessOverwritten
    <3>3. CASE k = id
      <4>1. items[id].items \in Seq(Calls \X {"input", "output"}) /\ appended[id] \in Seq(Calls)
        BY <2>1, <2>4, <2>8 DEF Entries
      <4>2. AreExchangesOf(items[id].items \o Exchange(c), Append(appended[id], c))
        BY <3>2, <3>3, <4>1, ExchangeAdded
      <4> QED BY <2>5, <2>6, <2>7, <2>8, <3>3, <4>2
    <3>4. CASE k # id
      <4>1. items'[k] = items[k] /\ appended'[k] = appended[k]
        BY <2>6, <2>7, <2>8, <2>9, <3>1, <3>4
      <4> QED BY <3>2, <4>1
    <3> QED BY <3>3, <3>4
  <2>10. KeptUnlessOverwritten'
    BY <2>9 DEF KeptUnlessOverwritten
  <2>11. ASSUME NEW k \in Calls \ (DOMAIN items' \cup gone') PROVE appended'[k] = <<>>
    <3>1. k \in Calls \ (DOMAIN items \cup gone) /\ k # id
      BY <2>1, <2>6, <2>7, <2>11
    <3> QED BY <2>8, <3>1 DEF ExchangesInv
  <2> QED BY <2>8, <2>10, <2>11 DEF ExchangesInv
<1> QED BY <1>1, <1>2 DEF AppendItems

\* A copy that replaces its entry has its items, or is noted.
LEMMA UpdateStays ==
    ASSUME ConversationsInv, ExchangesInv, NEW c \in Calls, Update(c)
    PROVE  ExchangesInv'
<1> DEFINE id == request[c].id
           clock == request[c].clock
<1>1. CASE NotFound(c, clock) /\ UNCHANGED overwritten
  BY <1>1, NotFoundStays DEF Update
<1>2. CASE Present(id, clock) /\ ~(NotFound(c, clock))
  <2> DEFINE kept == Restrict(items, Kept(clock))
             copy == [request[c].copy EXCEPT !.object = c]
             store == With(kept, id, copy)
  <2>1. id \in Kept(clock) /\ Kept(clock) \subseteq DOMAIN items
    BY <1>2 DEF Present, Kept
  <2>2. /\ Becomes(store) /\ UNCHANGED appended
        /\ overwritten' = IF request[c].copy.items = items[id].items THEN overwritten
                          ELSE overwritten \cup {id}
    BY <1>2 DEF Update
  <2>3. DOMAIN kept = Kept(clock) /\ \A k \in Kept(clock) : kept[k] = items[k]
    BY DEF Restrict
  <2> HIDE DEF kept
  <2>4. copy.items = request[c].copy.items
    <3>1. request[c].copy \in Entries
      BY DEF ConversationsInv, HandlersInv, CallStates
    <3> QED BY <3>1 DEF Entries
  <2> HIDE DEF copy
  <2>5. /\ DOMAIN store = Kept(clock) /\ store[id] = copy
        /\ \A k \in Kept(clock) \ {id} : store[k] = items[k]
    BY <2>1, <2>3 DEF With
  <2> HIDE DEF store
  <2>6. items' = store /\ gone' = gone \cup (DOMAIN items \ Kept(clock))
    BY <2>2, <2>5 DEF Becomes
  <2>7. ASSUME NEW k \in DOMAIN items' \ overwritten' PROVE items'[k].items = items[k].items
    <3>1. CASE k = id
      BY <2>2, <2>4, <2>5, <2>6, <2>7, <3>1
    <3>2. CASE k # id
      BY <2>5, <2>6, <2>7, <3>2
    <3> QED BY <3>1, <3>2
  <2>8. /\ overwritten \subseteq overwritten' /\ gone \subseteq gone'
        /\ DOMAIN items \subseteq DOMAIN items' \cup gone' /\ DOMAIN items' \subseteq DOMAIN items
    BY <2>1, <2>2, <2>5, <2>6
  <2> QED BY <2>2, <2>7, <2>8, ItemsStay
<1> QED BY <1>1, <1>2 DEF Update, NotFound

LEMMA ExchangesStepStays ==
    ASSUME ConversationsInv, ExchangesInv, [ConversationsNext]_conversationVars
    PROVE  ExchangesInv'
<1>1. ASSUME UNCHANGED <<items, gone, appended, overwritten>> PROVE ExchangesInv'
  BY <1>1 DEF ExchangesInv, KeptUnlessOverwritten
<1>2. ASSUME NEW c \in Calls, Get(c) PROVE ExchangesInv'
  <2>1. CASE NotFound(c, request[c].clock)
    BY <1>2, <2>1, NotFoundStays DEF Get
  <2>2. CASE Becomes(Restrict(items, Kept(request[c].clock)))
    <3>1. Kept(request[c].clock) \in SUBSET DOMAIN items
      BY DEF Kept
    <3> QED BY <1>2, <2>2, <3>1, RestrictingStays DEF Get
  <2> QED BY <1>2, <2>1, <2>2 DEF Get
<1>3. ASSUME NEW c \in Calls, Delete(c) PROVE ExchangesInv'
  <2>1. Kept(now) \ {request[c].id} \in SUBSET DOMAIN items
    BY DEF Kept
  <2> QED BY <1>3, <2>1, RestrictingStays DEF Delete, Without
<1>4. ASSUME NEW c \in Calls, BeginCreate(c) \/ Clone(c) \/ ProviderAnswers(c) PROVE ExchangesInv'
  BY <1>1, <1>4 DEF BeginCreate, Clone, ProviderAnswers, storeVars
<1>5. ASSUME NEW c \in Calls, NEW id \in Calls, NEW op, Begin(c, op, id) PROVE ExchangesInv'
  BY <1>1, <1>5 DEF Begin, storeVars
<1>6. CASE Tick
  BY <1>1, <1>6 DEF Tick, storeVars
<1>7. CASE UNCHANGED conversationVars
  BY <1>1, <1>7 DEF conversationVars, storeVars
<1>8. ASSUME NEW c \in Calls, Serve(c) PROVE ExchangesInv'
  BY <1>2, <1>3, <1>4, <1>8, CreateStays, AppendStays, UpdateStays DEF Serve
<1> QED BY <1>4, <1>5, <1>6, <1>7, <1>8 DEF ConversationsNext

\* However many turns run at once, and whatever expires, is evicted or deleted
\* between their steps: what is stored of a conversation is every exchange that
\* was appended to it, whole, in order, unless an update put back older items.
THEOREM KeepsExchanges == ConversationsSpec => []KeptUnlessOverwritten
<1>1. ConversationsInit => ExchangesInv
  <2> SUFFICES ASSUME ConversationsInit PROVE ExchangesInv
    OBVIOUS
  <2>1. DOMAIN items = {}
    BY DEF ConversationsInit
  <2>2. appended \in [Calls -> Seq(Calls)] /\ \A id \in Calls : appended[id] = <<>>
    BY DEF ConversationsInit
  <2> QED BY <2>1, <2>2 DEF ExchangesInv, KeptUnlessOverwritten
<1>2. ConversationsInv /\ ExchangesInv /\ [ConversationsNext]_conversationVars
      => (ConversationsInv /\ ExchangesInv)'
  BY ConversationsStepKeeps, ExchangesStepStays
<1>3. ExchangesInv => KeptUnlessOverwritten
  BY DEF ExchangesInv
<1> QED BY ConversationsStart, <1>1, <1>2, <1>3, PTL DEF ConversationsSpec

-----------------------------------------------------------------------------
(* The tables kept in memory *)

EditSteps == {"idle", "write", "apply", "list", "swap", "rollback", "reconcile"}

LEMMA IdleShape == NoEdit \in TableEdits /\ NoEdit.at = "idle"
<1>1. (CHOOSE k \in TableKeys : TRUE) \in TableKeys
  BY TableNames
<1>2. EmptyTable \in [TableKeys -> Nat]
  BY DEF EmptyTable
<1> HIDE DEF EmptyTable
<1> QED BY <1>1, <1>2 DEF NoEdit, TableEdits

LEMMA TablesStart == TablesInit => TablesInv
<1> SUFFICES ASSUME TablesInit PROVE TablesInv
  OBVIOUS
<1>1. EmptyTable \in [TableKeys -> Nat]
  BY DEF EmptyTable
<1>2. \A w \in Editing : edit[w] = NoEdit /\ edit[w].at = "idle"
  BY IdleShape DEF TablesInit
<1>3. TablesShape
  BY <1>1, <1>2, IdleShape DEF TablesInit, TablesShape, Editing
<1>4. MutexInv /\ FreeInv
  <2>1. \A w \in Editing : w # "free"
    BY TableNames DEF Editing
  <2> QED BY <1>2, <2>1 DEF TablesInit, MutexInv, FreeInv
<1> QED BY <1>3, <1>4 DEF TablesInv

\* What an edit's record becomes in the step of w, and that the others stay.
LEMMA EditChanges ==
    ASSUME TablesShape, NEW w \in Editing, NEW e \in TableEdits,
           edit' = [edit EXCEPT ![w] = e]
    PROVE  /\ edit' \in [Editing -> TableEdits] /\ edit'[w] = e
           /\ \A v \in Editing \ {w} : edit'[v] = edit[v]
BY DEF TablesShape

LEMMA Advance ==
    ASSUME TablesShape, NEW w \in Editing, NEW at \in EditSteps, GoesTo(w, at)
    PROVE  /\ edit' \in [Editing -> TableEdits]
           /\ edit'[w].at = at /\ edit'[w].key = edit[w].key /\ edit'[w].value = edit[w].value
           /\ edit'[w].previous = edit[w].previous
           /\ \A v \in Editing \ {w} : edit'[v] = edit[v]
           /\ writerMu' = writerMu
<1>1. edit[w] \in TableEdits
  BY DEF TablesShape
<1> DEFINE e == [edit[w] EXCEPT !.at = at]
<1>2. /\ e \in TableEdits /\ e.at = at /\ e.key = edit[w].key /\ e.value = edit[w].value
      /\ e.previous = edit[w].previous
  BY <1>1 DEF TableEdits, EditSteps
<1>3. edit' = [edit EXCEPT ![w] = e] /\ writerMu' = writerMu
  BY DEF GoesTo
<1> HIDE DEF e
<1> QED BY <1>2, <1>3, EditChanges

LEMMA Leaves ==
    ASSUME TablesShape, NEW w \in Editing, EndEdit(w)
    PROVE  /\ edit' \in [Editing -> TableEdits] /\ edit'[w].at = "idle"
           /\ \A v \in Editing \ {w} : edit'[v] = edit[v]
           /\ writerMu' = IF writerMu = w THEN "free" ELSE writerMu
BY EditChanges, IdleShape DEF EndEdit

\* Under the mutex the edit under way is alone.
LEMMA Alone ==
    ASSUME TablesShape, MutexInv, NEW w \in Editing, edit[w].at # "idle"
    PROVE  /\ writerMu = w
           /\ \A v \in Editing \ {w} : edit[v].at = "idle"
BY DEF MutexInv

LEMMA MutexAfter ==
    ASSUME NEW w \in Editing, ~raced',
           \A v \in Editing \ {w} : edit'[v].at = "idle",
           writerMu' = IF edit'[w].at = "idle" THEN "free" ELSE w,
           edit'[w].at # "apply",
           (edit'[w].at = "idle" \/ w = "loop") /\ ~torn' => view' = table',
           edit'[w].at \in {"write", "list", "rollback", "reconcile"} =>
             edit'[w].previous = view'[edit'[w].key],
           edit'[w].at = "write" /\ ~torn' => table' = view',
           edit'[w].at \in {"list", "rollback", "reconcile"} /\ ~torn' =>
             table' = [view' EXCEPT ![edit'[w].key] = edit'[w].value],
           edit'[w].at = "swap" => edit'[w].listing = table'
    PROVE  MutexInv'
<1>1. \A v \in Editing : v # "free"
  BY TableNames DEF Editing
<1> QED BY <1>1 DEF MutexInv, Edited

LEMMA BeginKeeps ==
    ASSUME TablesInv, NEW w \in Writers, NEW k \in TableKeys, NEW value \in NewValues(k),
           BeginEdit(w, k, value)
    PROVE  TablesInv'
<1> DEFINE e == [at |-> "write", key |-> k, value |-> value, previous |-> view[k], listing |-> EmptyTable]
<1>1. /\ edit' = [edit EXCEPT ![w] = e] /\ edits' = edits + 1 /\ Lock(w)
      /\ UNCHANGED <<service, table, view, raced, torn>>
      /\ edit[w].at = "idle"
  BY DEF BeginEdit
<1>2. value \in Nat
  BY DEF NewValues, TablesInv, TablesShape
<1>3. EmptyTable \in [TableKeys -> Nat]
  BY DEF EmptyTable
<1>4. view[k] \in Nat
  BY DEF TablesInv, TablesShape
<1> HIDE DEF EmptyTable
<1>5. e \in TableEdits
  BY <1>2, <1>3, <1>4 DEF TableEdits
<1>6. e.at = "write" /\ e.key = k /\ e.previous = view[k]
  OBVIOUS
<1> HIDE DEF e
<1>7. /\ w \in Editing /\ w # "loop"
      /\ edit' \in [Editing -> TableEdits] /\ edit'[w] = e
      /\ \A v \in Editing \ {w} : edit'[v] = edit[v]
  BY <1>1, <1>5, EditChanges, TableNames DEF TablesInv, Editing
<1>8. TablesShape'
  <2>1. writerMu' \in Editing \cup {"free"}
    BY <1>1, <1>7 DEF Lock, TablesInv, TablesShape
  <2>2. edits' \in Nat
    BY <1>1 DEF TablesInv, TablesShape
  <2>3. edit'["loop"] = edit["loop"]
    BY <1>7 DEF Editing
  <2> QED BY <1>1, <1>7, <2>1, <2>2, <2>3 DEF TablesInv, TablesShape
<1>9. CASE Serialised
  <2>1. MutexInv /\ writerMu = "free" /\ writerMu' = w
    BY <1>1, <1>9 DEF TablesInv, Lock
  <2>2. \A v \in Editing : edit[v].at = "idle"
    BY <2>1, TableNames DEF MutexInv, Editing
  <2>3. MutexInv'
    BY <1>1, <1>6, <1>7, <2>1, <2>2, MutexAfter DEF MutexInv
  <2> QED BY <1>1, <1>8, <1>9, <2>3 DEF TablesInv, Serialised
<1>10. CASE ~Serialised
  <2>1. FreeInv'
    BY <1>1, <1>6, <1>7, <1>10 DEF TablesInv, FreeInv, Editing
  <2> QED BY <1>1, <1>8, <1>10, <2>1 DEF TablesInv, Serialised
<1> QED BY <1>9, <1>10

\* The stored table moves away from the snapshot by the edit of its writer.
LEMMA WriteKeeps ==
    ASSUME TablesInv, NEW w \in Editing, WriteTable(w)
    PROVE  TablesInv'
<1> DEFINE k == edit[w].key
           at == IF service = "authkeys" THEN "apply" ELSE "list"
<1>1. /\ table' = [table EXCEPT ![k] = edit[w].value] /\ GoesTo(w, at)
      /\ edit[w].at = "write" /\ UNCHANGED <<service, view, raced, torn, edits>>
  BY DEF WriteTable
<1>2. k \in TableKeys /\ edit[w].value \in Nat
  BY DEF TablesInv, TablesShape, TableEdits
<1>3. w # "loop" /\ w \in Writers
  BY <1>1 DEF TablesInv, TablesShape, Editing
<1>4. /\ edit' \in [Editing -> TableEdits]
      /\ edit'[w].at = at /\ edit'[w].key = k /\ edit'[w].value = edit[w].value
      /\ edit'[w].previous = edit[w].previous
      /\ \A v \in Editing \ {w} : edit'[v] = edit[v]
      /\ writerMu' = writerMu
  BY <1>1, Advance DEF TablesInv, EditSteps
<1>5. table' \in [TableKeys -> Nat] /\ \A l \in TableKeys \ {k} : table'[l] = table[l]
  BY <1>1, <1>2 DEF TablesInv, TablesShape
<1>6. TablesShape'
  <2>1. edit'["loop"] = edit["loop"]
    BY <1>3, <1>4 DEF Editing
  <2> QED BY <1>1, <1>4, <1>5, <2>1 DEF TablesInv, TablesShape
<1> HIDE DEF k
<1>7. CASE Serialised
  <2>1. MutexInv /\ at = "list"
    BY <1>7 DEF TablesInv, Serialised
  <2>2. writerMu = w /\ \A v \in Editing \ {w} : edit[v].at = "idle"
    BY <1>1, <2>1, Alone DEF TablesInv
  <2>3. edit[w].previous = view[k] /\ (~torn => table = view)
    BY <1>1, <2>1 DEF MutexInv, k
  <2>4. MutexInv'
    BY <1>1, <1>3, <1>4, <2>1, <2>2, <2>3, MutexAfter DEF MutexInv
  <2> QED BY <1>1, <1>6, <1>7, <2>4 DEF TablesInv, Serialised
<1>8. CASE ~Serialised
  <2>1. FreeInv
    BY <1>8 DEF TablesInv
  <2>2. CASE service = "authkeys"
    <3>1. ASSUME ~raced, ~torn, NEW l \in TableKeys, view[l] # table'[l]
          PROVE  \E v \in Writers : edit'[v].at = "apply" /\ edit'[v].key = l
      <4>1. CASE l = k
        BY <1>3, <1>4, <2>2, <4>1
      <4>2. CASE l # k
        <5>1. PICK v \in Writers : edit[v].at = "apply" /\ edit[v].key = l
          BY <1>5, <2>1, <2>2, <3>1, <4>2 DEF FreeInv
        <5> QED BY <1>1, <1>4, <5>1 DEF Editing
      <4> QED BY <4>1, <4>2
    <3> QED BY <1>1, <1>4, <1>6, <1>8, <2>1, <2>2, <3>1 DEF TablesInv, FreeInv, Serialised
  <2>3. CASE service # "authkeys"
    BY <1>1, <1>3, <1>4, <1>6, <1>8, <2>1, <2>3 DEF TablesInv, FreeInv, Serialised
  <2> QED BY <2>2, <2>3
<1> QED BY <1>7, <1>8

\* An edit is over: the one that held the mutex leaves the table as the snapshot,
\* and one without a mutex nothing that it was still to apply or to list.
LEMMA EndKeeps ==
    ASSUME TablesInv, NEW w \in Editing, EndEdit(w), edit[w].at # "idle",
           UNCHANGED <<service, edits>>,
           table' \in [TableKeys -> Nat], view' \in [TableKeys -> Nat],
           raced' \in BOOLEAN, torn' \in BOOLEAN,
           Serialised => ~raced' /\ (~torn' => view' = table'),
           ~Serialised => \/ raced' \/ torn' \/ view' = table'
                          \/ edit[w].at \notin {"apply", "list", "swap"}
                             /\ UNCHANGED <<table, view, raced, torn>>
                          \/ edit[w].at = "list" /\ service = "authkeys"
                             /\ UNCHANGED <<table, view, raced, torn>>
    PROVE  TablesInv'
<1>1. /\ edit' \in [Editing -> TableEdits] /\ edit'[w].at = "idle"
      /\ \A v \in Editing \ {w} : edit'[v] = edit[v]
      /\ writerMu' = IF writerMu = w THEN "free" ELSE writerMu
  BY Leaves DEF TablesInv
<1>2. TablesShape'
  <2>1. writerMu' \in Editing \cup {"free"}
    BY <1>1 DEF TablesInv, TablesShape
  <2>2. edit'["loop"].at \in {"idle", "swap"}
    BY <1>1 DEF TablesInv, TablesShape, Editing
  <2> QED BY <1>1, <2>1, <2>2 DEF TablesInv, TablesShape
<1>3. CASE Serialised
  <2>1. MutexInv
    BY <1>3 DEF TablesInv
  <2>2. writerMu = w /\ \A v \in Editing \ {w} : edit[v].at = "idle"
    BY <2>1, Alone DEF TablesInv
  <2>3. MutexInv'
    BY <1>1, <1>3, <2>2, MutexAfter
  <2> QED BY <1>2, <1>3, <2>3 DEF TablesInv, Serialised
<1>4. CASE ~Serialised
  <2>1. FreeInv
    BY <1>4 DEF TablesInv
  <2>2. FreeInv'
    <3>1. CASE raced' \/ torn' \/ view' = table'
      BY <1>1, <2>1, <3>1 DEF FreeInv
    <3>2. CASE edit[w].at \notin {"apply", "list", "swap"} /\ UNCHANGED <<table, view, raced, torn>>
      BY <1>1, <2>1, <3>2 DEF FreeInv, Editing
    <3>3. CASE edit[w].at = "list" /\ service = "authkeys" /\ UNCHANGED <<table, view, raced, torn>>
      BY <1>1, <2>1, <3>3 DEF FreeInv, Editing
    <3> QED BY <1>4, <3>1, <3>2, <3>3
  <2> QED BY <1>2, <1>4, <2>2 DEF TablesInv, Serialised
<1> QED BY <1>3, <1>4

LEMMA WriteFailKeeps ==
    ASSUME TablesInv, NEW w \in Editing, WriteTableFails(w)
    PROVE  TablesInv'
<1>1. /\ edit[w].at = "write" /\ EndEdit(w) /\ UNCHANGED <<service, view, raced, edits>>
      /\ edit[w].key \in TableKeys /\ edit[w].value \in Nat
  BY DEF WriteTableFails, TablesInv, TablesShape, TableEdits
<1>2. CASE torn' = TRUE /\ table' = [table EXCEPT ![edit[w].key] = edit[w].value]
  <2>1. /\ table' \in [TableKeys -> Nat] /\ view' \in [TableKeys -> Nat] /\ raced' \in BOOLEAN
        /\ torn' \in BOOLEAN /\ torn'
    BY <1>1, <1>2 DEF TablesInv, TablesShape
  <2>2. Serialised => ~raced'
    BY <1>1 DEF TablesInv, MutexInv
  <2> QED BY <1>1, <2>1, <2>2, EndKeeps
<1>3. CASE UNCHANGED <<table, torn>>
  <2>1. /\ table' \in [TableKeys -> Nat] /\ view' \in [TableKeys -> Nat] /\ raced' \in BOOLEAN
        /\ torn' \in BOOLEAN
    BY <1>1, <1>3 DEF TablesInv, TablesShape
  <2>2. Serialised => ~raced' /\ (~torn' => view' = table')
    BY <1>1, <1>3 DEF TablesInv, MutexInv
  <2> QED BY <1>1, <1>3, <2>1, <2>2, EndKeeps
<1> QED BY <1>2, <1>3 DEF WriteTableFails

LEMMA SwapKeeps ==
    ASSUME TablesInv, NEW w \in Editing, SwapTable(w)
    PROVE  TablesInv'
<1> DEFINE listing == edit[w].listing
<1>1. /\ edit[w].at = "swap" /\ view' = listing /\ raced' = (listing # table)
      /\ torn' = (torn /\ listing # table) /\ EndEdit(w) /\ UNCHANGED <<service, table, edits>>
  BY DEF SwapTable
<1>2. listing \in [TableKeys -> Nat]
  BY DEF TablesInv, TablesShape, TableEdits
<1>3. Serialised => listing = table
  BY <1>1 DEF TablesInv, MutexInv
<1> HIDE DEF listing
<1>4. table' \in [TableKeys -> Nat] /\ view' \in [TableKeys -> Nat]
  BY <1>1, <1>2 DEF TablesInv, TablesShape
<1>5. raced' \in BOOLEAN /\ torn' \in BOOLEAN /\ (raced' <=> listing # table)
  BY <1>1
<1> QED BY <1>1, <1>3, <1>4, <1>5, EndKeeps

LEMMA RollbackKeeps ==
    ASSUME TablesInv, NEW w \in Editing, Rollback(w)
    PROVE  TablesInv'
<1> DEFINE k == edit[w].key
<1>1. /\ edit[w].at = "rollback" /\ EndEdit(w) /\ UNCHANGED <<service, view, raced, torn, edits>>
      /\ table' = [table EXCEPT ![k] = edit[w].previous]
  BY DEF Rollback
<1>2. k \in TableKeys /\ edit[w].previous \in Nat /\ edit[w].value \in Nat
  BY DEF TablesInv, TablesShape, TableEdits
<1>3. Serialised /\ MutexInv
  BY <1>1 DEF TablesInv, FreeInv
<1>4. /\ table' \in [TableKeys -> Nat] /\ view' \in [TableKeys -> Nat]
      /\ raced' \in BOOLEAN /\ torn' \in BOOLEAN /\ ~raced'
  BY <1>1, <1>2, <1>3 DEF TablesInv, TablesShape, MutexInv
<1>5. ASSUME ~torn' PROVE view' = table'
  <2>1. table = [view EXCEPT ![k] = edit[w].value] /\ edit[w].previous = view[k]
    BY <1>1, <1>3, <1>5 DEF MutexInv, Edited
  <2> QED BY <1>1, <1>2, <2>1 DEF TablesInv, TablesShape
<1> QED BY <1>1, <1>3, <1>4, <1>5, EndKeeps

\* applyUpsert and applyDeactivate: the entry now agrees, or is marked raced.
LEMMA ApplyKeeps ==
    ASSUME TablesInv, NEW w \in Editing, Apply(w)
    PROVE  TablesInv'
<1> DEFINE k == edit[w].key
<1>1. /\ edit[w].at = "apply" /\ GoesTo(w, "list") /\ UNCHANGED <<service, table, torn, edits>>
      /\ view' = view \/ view' = [view EXCEPT ![k] = edit[w].value]
      /\ raced' = (raced \/ view'[k] # table[k])
  BY DEF Apply
<1>2. k \in TableKeys /\ edit[w].value \in Nat
  BY DEF TablesInv, TablesShape, TableEdits
<1>3. ~Serialised /\ FreeInv /\ service = "authkeys"
  BY <1>1 DEF TablesInv, MutexInv, FreeInv
<1>4. /\ edit' \in [Editing -> TableEdits] /\ edit'[w].at = "list"
      /\ \A v \in Editing \ {w} : edit'[v] = edit[v]
      /\ writerMu' = writerMu
  BY <1>1, Advance DEF TablesInv, EditSteps
<1>5. view' \in [TableKeys -> Nat] /\ \A l \in TableKeys \ {k} : view'[l] = view[l]
  BY <1>1, <1>2 DEF TablesInv, TablesShape
<1>6. w # "loop" /\ edit'["loop"] = edit["loop"]
  BY <1>1, <1>4 DEF TablesInv, TablesShape, Editing
<1>7. raced' \in BOOLEAN /\ (~raced' => ~raced /\ view'[k] = table[k])
  BY <1>1 DEF TablesInv, TablesShape
<1>8. TablesShape'
  BY <1>1, <1>4, <1>5, <1>6, <1>7 DEF TablesInv, TablesShape
<1> HIDE DEF k
<1>9. ASSUME ~raced', ~torn', NEW l \in TableKeys, view'[l] # table'[l]
      PROVE  \E v \in Writers : edit'[v].at = "apply" /\ edit'[v].key = l
  <2>1. l # k /\ view[l] # table[l] /\ ~raced /\ ~torn
    BY <1>1, <1>5, <1>7, <1>9
  <2>2. PICK v \in Writers : edit[v].at = "apply" /\ edit[v].key = l
    BY <1>3, <2>1 DEF FreeInv
  <2>3. v # w
    BY <2>1, <2>2 DEF k
  <2> QED BY <1>4, <2>2, <2>3 DEF Editing
<1>10. FreeInv'
  BY <1>1, <1>3, <1>4, <1>9 DEF FreeInv
<1> QED BY <1>1, <1>3, <1>8, <1>10 DEF TablesInv, Serialised

LEMMA ListKeeps ==
    ASSUME TablesInv, NEW w \in Editing, List(w)
    PROVE  TablesInv'
<1> DEFINE e == [edit[w] EXCEPT !.at = "swap", !.listing = table]
<1>1. /\ edit' = [edit EXCEPT ![w] = e]
      /\ UNCHANGED <<service, table, view, raced, torn, edits>>
      /\ \/ edit[w].at \in {"list", "reconcile"} /\ UNCHANGED writerMu
         \/ edit[w].at = "idle" /\ w = "loop" /\ Lock(w)
  BY DEF List
<1>2. edit[w] \in TableEdits /\ table \in [TableKeys -> Nat]
  BY DEF TablesInv, TablesShape
<1>3. e \in TableEdits /\ e.at = "swap" /\ e.listing = table
  BY <1>2 DEF TableEdits
<1> HIDE DEF e
<1>4. /\ edit' \in [Editing -> TableEdits] /\ edit'[w] = e
      /\ \A v \in Editing \ {w} : edit'[v] = edit[v]
  BY <1>1, <1>3, EditChanges DEF TablesInv
<1>5. TablesShape'
  <2>1. edit'["loop"].at \in {"idle", "swap"}
    BY <1>3, <1>4 DEF TablesInv, TablesShape, Editing
  <2>2. writerMu' \in Editing \cup {"free"}
    BY <1>1 DEF Lock, TablesInv, TablesShape
  <2> QED BY <1>1, <1>4, <2>1, <2>2 DEF TablesInv, TablesShape
<1>6. CASE Serialised
  <2>1. MutexInv
    BY <1>6 DEF TablesInv
  <2>2. /\ writerMu' = w /\ \A v \in Editing \ {w} : edit[v].at = "idle"
        /\ w = "loop" /\ ~torn => view = table
    <3>1. CASE edit[w].at \in {"list", "reconcile"} /\ UNCHANGED writerMu
      BY <2>1, <3>1, Alone DEF TablesInv, TablesShape
    <3>2. CASE Lock(w)
      BY <1>6, <2>1, <3>2, TableNames DEF Lock, MutexInv, Editing
    <3> QED BY <1>1, <3>1, <3>2
  <2>3. MutexInv'
    BY <1>1, <1>3, <1>4, <2>1, <2>2, MutexAfter DEF MutexInv
  <2> QED BY <1>1, <1>5, <1>6, <2>3 DEF TablesInv, Serialised
<1>7. CASE ~Serialised
  <2>1. FreeInv
    BY <1>7 DEF TablesInv
  <2>2. FreeInv'
    BY <1>1, <1>3, <1>4, <2>1 DEF FreeInv, Editing
  <2> QED BY <1>1, <1>5, <1>7, <2>2 DEF TablesInv, Serialised
<1> QED BY <1>6, <1>7

\* Steps that only move the holder of the mutex on.
LEMMA HolderMoves ==
    ASSUME TablesInv, Serialised, NEW w \in Editing,
           edit[w].at \in {"list", "rollback"}, NEW at \in {"rollback", "reconcile"}, GoesTo(w, at),
           UNCHANGED <<service, table, view, raced, torn, edits>>
    PROVE  TablesInv'
<1>1. MutexInv
  BY DEF TablesInv
<1>2. writerMu = w /\ \A v \in Editing \ {w} : edit[v].at = "idle"
  BY <1>1, Alone DEF TablesInv
<1>3. /\ edit' \in [Editing -> TableEdits]
      /\ edit'[w].at = at /\ edit'[w].key = edit[w].key /\ edit'[w].value = edit[w].value
      /\ edit'[w].previous = edit[w].previous
      /\ \A v \in Editing \ {w} : edit'[v] = edit[v]
      /\ writerMu' = writerMu
  BY Advance DEF TablesInv, EditSteps
<1>4. TablesShape'
  <2>1. edit'["loop"] = edit["loop"]
    BY <1>3 DEF TablesInv, TablesShape, Editing
  <2> QED BY <1>3, <2>1 DEF TablesInv, TablesShape
<1>5. edit[w].previous = view[edit[w].key] /\ (~torn => table = Edited(w))
  BY <1>1 DEF MutexInv
<1>6. MutexInv'
  BY <1>1, <1>2, <1>3, <1>5, MutexAfter DEF MutexInv, Edited
<1> QED BY <1>4, <1>6 DEF TablesInv, Serialised

LEMMA FailuresKeep ==
    ASSUME TablesInv, NEW w \in Editing, ListFails(w) \/ RollbackFails(w)
    PROVE  TablesInv'
<1>1. UNCHANGED <<service, table, view, raced, edits>>
  BY DEF ListFails, RollbackFails
<1>2. /\ table' \in [TableKeys -> Nat] /\ view' \in [TableKeys -> Nat] /\ raced' \in BOOLEAN
      /\ Serialised => ~raced'
  BY <1>1 DEF TablesInv, TablesShape, MutexInv
<1>3. ASSUME EndEdit(w), torn' \in BOOLEAN, torn', edit[w].at # "idle" PROVE TablesInv'
  BY <1>1, <1>2, <1>3, EndKeeps
<1>4. CASE ListFails(w)
  <2>1. CASE edit[w].at = "list" /\ Serialised /\ GoesTo(w, "rollback") /\ UNCHANGED torn
    BY <1>1, <2>1, HolderMoves
  <2>2. CASE EndEdit(w) /\ edit[w].at \in {"list", "reconcile"} /\ torn' = (torn \/ service # "authkeys")
    <3>1. CASE service # "authkeys"
      BY <1>3, <2>2, <3>1
    <3>2. CASE service = "authkeys"
      <4>1. ~Serialised /\ FreeInv
        BY <3>2 DEF TablesInv, Serialised
      <4>2. edit[w].at = "list"
        BY <2>2, <4>1 DEF FreeInv
      <4>3. torn' = torn /\ torn' \in BOOLEAN
        BY <2>2, <3>2 DEF TablesInv, TablesShape
      <4> QED BY <1>1, <1>2, <2>2, <3>2, <4>1, <4>2, <4>3, EndKeeps
    <3> QED BY <3>1, <3>2
  <2> QED BY <1>4, <2>1, <2>2 DEF ListFails
<1>5. CASE RollbackFails(w)
  <2>1. edit[w].at = "rollback" /\ Serialised
    BY <1>5 DEF RollbackFails, TablesInv, FreeInv
  <2>2. CASE GoesTo(w, "reconcile") /\ UNCHANGED torn
    BY <1>1, <2>1, <2>2, HolderMoves
  <2>3. CASE EndEdit(w) /\ torn' = TRUE
    BY <1>3, <2>1, <2>3
  <2> QED BY <1>5, <2>2, <2>3 DEF RollbackFails
<1> QED BY <1>4, <1>5

LEMMA TablesStepKeeps ==
    ASSUME TablesInv, [TablesNext]_tableVars
    PROVE  TablesInv'
<1>1. CASE UNCHANGED tableVars
  BY <1>1 DEF tableVars, TablesInv, TablesShape, MutexInv, FreeInv, Serialised, Edited
<1>2. CASE TablesNext
  BY <1>2, BeginKeeps, WriteKeeps, WriteFailKeeps, ApplyKeeps, ListKeeps, SwapKeeps, FailuresKeep,
     RollbackKeeps
     DEF TablesNext, EditContinues, Refreshes
<1> QED BY <1>1, <1>2

\* With no edit under way every admin table is served as it is stored, for any
\* number of entries, concurrent edits and failing store calls, except where a
\* failure was reported (torn) or, in the services without a mutex, a listing
\* came late (raced): authkeys, aliases, modeloverrides, pricingoverrides and
\* budget, each service.go.
THEOREM InStep == TablesSpec => []InStepAtRest
<1>1. TablesInv => InStepAtRest
  <2> SUFFICES ASSUME TablesInv PROVE InStepAtRest
    OBVIOUS
  <2>1. CASE Serialised
    <3>1. MutexInv
      BY <2>1 DEF TablesInv
    <3>2. ASSUME \A w \in Writers : edit[w].at = "idle", ~torn PROVE view = table
      <4>1. writerMu \in {"free", "loop"}
        BY <3>1, <3>2 DEF MutexInv, TablesInv, TablesShape, Editing
      <4> QED BY <3>1, <3>2, <4>1 DEF MutexInv
    <3> QED BY <2>1, <3>1, <3>2 DEF InStepAtRest, MutexInv
  <2>2. CASE ~Serialised
    <3>1. FreeInv /\ view \in [TableKeys -> Nat] /\ table \in [TableKeys -> Nat]
      BY <2>2 DEF TablesInv, TablesShape
    <3>2. ASSUME \A w \in Writers : edit[w].at = "idle", ~raced, ~torn PROVE view = table
      <4>1. service = "authkeys" => \A k \in TableKeys : view[k] = table[k]
        BY <3>1, <3>2 DEF FreeInv
      <4>2. service # "authkeys" => view = table
        BY <3>1, <3>2 DEF FreeInv
      <4> QED BY <3>1, <4>1, <4>2
    <3> QED BY <2>2, <3>2 DEF InStepAtRest
  <2> QED BY <2>1, <2>2
<1> QED BY <1>1, TablesStart, TablesStepKeeps, PTL DEF TablesSpec

-----------------------------------------------------------------------------
(* The application's life *)

\* The orders, place by place.
LEMMA StartPlaces ==
    /\ Len(StartOrder) = 14
    /\ StartOrder[1] = "live" /\ StartOrder[2] = "providers" /\ StartOrder[3] = "audit"
    /\ StartOrder[4] = "usage" /\ StartOrder[5] = "budgets" /\ StartOrder[6] = "batch"
    /\ StartOrder[7] = "fileStore" /\ StartOrder[8] = "aliases"
    /\ StartOrder[9] = "modelOverrides" /\ StartOrder[10] = "pricingOverrides"
    /\ StartOrder[11] = "guardrails" /\ StartOrder[12] = "workflows"
    /\ StartOrder[13] = "authKeys" /\ StartOrder[14] = "responseCache"
BY DEF StartOrder

LEMMA ShutdownPlaces ==
    /\ Len(ShutdownOrder) = 13
    /\ ShutdownOrder[1] = "responseCache" /\ ShutdownOrder[2] = "providers"
    /\ ShutdownOrder[3] = "aliases" /\ ShutdownOrder[4] = "workflows"
    /\ ShutdownOrder[5] = "modelOverrides" /\ ShutdownOrder[6] = "pricingOverrides"
    /\ ShutdownOrder[7] = "guardrails" /\ ShutdownOrder[8] = "authKeys"
    /\ ShutdownOrder[9] = "fileStore" /\ ShutdownOrder[10] = "batch"
    /\ ShutdownOrder[11] = "budgets" /\ ShutdownOrder[12] = "usage" /\ ShutdownOrder[13] = "audit"
BY DEF ShutdownOrder

Components == {StartOrder[k] : k \in 1..Len(StartOrder)}

LEMMA ComponentNames ==
    Components = {"live", "providers", "audit", "usage", "budgets", "batch", "fileStore",
                  "aliases", "modelOverrides", "pricingOverrides", "guardrails", "workflows",
                  "authKeys", "responseCache"}
<1>1. 1..14 = {1, 2, 3, 4, 5, 6, 7, 8, 9, 10, 11, 12, 13, 14}
  OBVIOUS
<1> QED BY <1>1, StartPlaces DEF Components

LEMMA StartsOnce ==
    \A j, k \in 1..Len(StartOrder) : StartOrder[j] = StartOrder[k] => j = k
<1> SUFFICES ASSUME NEW j \in 1..14, NEW k \in 1..14, StartOrder[j] = StartOrder[k]
             PROVE  j = k
  BY StartPlaces
<1>1. j \in {1, 2, 3, 4, 5, 6, 7, 8, 9, 10, 11, 12, 13, 14}
  OBVIOUS
<1>2. k \in {1, 2, 3, 4, 5, 6, 7, 8, 9, 10, 11, 12, 13, 14}
  OBVIOUS
<1> QED BY <1>1, <1>2, StartPlaces

LEMMA ClosesOnce ==
    \A j, k \in 1..Len(ShutdownOrder) : ShutdownOrder[j] = ShutdownOrder[k] => j = k
<1> SUFFICES ASSUME NEW j \in 1..13, NEW k \in 1..13, ShutdownOrder[j] = ShutdownOrder[k]
             PROVE  j = k
  BY ShutdownPlaces
<1>1. j \in {1, 2, 3, 4, 5, 6, 7, 8, 9, 10, 11, 12, 13}
  OBVIOUS
<1>2. k \in {1, 2, 3, 4, 5, 6, 7, 8, 9, 10, 11, 12, 13}
  OBVIOUS
<1> QED BY <1>1, <1>2, ShutdownPlaces

\* The lender is the first of the components that store, in the start.
LEMMA LenderFirst ==
    /\ Lender \in Components /\ Stores(Lender) /\ Claims(Lender)
    /\ \A k \in 1..Len(StartOrder) :
         Stores(StartOrder[k]) => \E p \in 1..k : StartOrder[p] = Lender
<1>1. Lender \in Components /\ Stores(Lender) /\ Claims(Lender)
  BY ComponentNames DEF Lender, Stores, Claims, Enabled, Features
<1>2. ASSUME NEW k \in 1..14, Stores(StartOrder[k])
      PROVE  \E p \in 1..k : StartOrder[p] = Lender
  <2>1. CASE "audit" \in settings
    <3>1. Lender = StartOrder[3]
      BY <2>1, StartPlaces DEF Lender
    <3>2. k \notin {1, 2}
      BY <1>2, StartPlaces DEF Stores
    <3> QED BY <3>1, <3>2
  <2>2. CASE "audit" \notin settings /\ "usage" \in settings
    <3>1. Lender = StartOrder[4]
      BY <2>2, StartPlaces DEF Lender
    <3>2. k \notin {1, 2, 3}
      BY <1>2, <2>2, StartPlaces DEF Stores, Enabled, Features
    <3> QED BY <3>1, <3>2
  <2>3. CASE "audit" \notin settings /\ "usage" \notin settings
    <3>1. Lender = StartOrder[6]
      BY <2>3, StartPlaces DEF Lender
    <3>2. k \notin {1, 2, 3, 4, 5}
      BY <1>2, <2>3, StartPlaces DEF Stores, Enabled, Features
    <3> QED BY <3>1, <3>2
  <2> QED BY <2>1, <2>2, <2>3
<1> QED BY <1>1, <1>2, StartPlaces

\* It is the last of them in the shutdown.
LEMMA LenderLast ==
    \E p \in 1..Len(ShutdownOrder) :
       /\ Lender = ShutdownOrder[p]
       /\ \A c \in Components : Stores(c) => \E i \in 1..p : ShutdownOrder[i] = c
<1>1. CASE "audit" \in settings
  <2>1. Lender = ShutdownOrder[13]
    BY <1>1, ShutdownPlaces DEF Lender
  <2>2. \A c \in Components : Stores(c) => \E i \in 1..13 : ShutdownOrder[i] = c
    BY ComponentNames, ShutdownPlaces DEF Stores
  <2> QED BY <2>1, <2>2, ShutdownPlaces
<1>2. CASE "audit" \notin settings /\ "usage" \in settings
  <2>1. Lender = ShutdownOrder[12]
    BY <1>2, ShutdownPlaces DEF Lender
  <2>2. \A c \in Components : Stores(c) => \E i \in 1..12 : ShutdownOrder[i] = c
    BY <1>2, ComponentNames, ShutdownPlaces DEF Stores, Enabled, Features
  <2> QED BY <2>1, <2>2, ShutdownPlaces
<1>3. CASE "audit" \notin settings /\ "usage" \notin settings
  <2>1. Lender = ShutdownOrder[10]
    BY <1>3, ShutdownPlaces DEF Lender
  <2>2. \A c \in Components : Stores(c) => \E i \in 1..10 : ShutdownOrder[i] = c
    BY <1>3, ComponentNames, ShutdownPlaces DEF Stores, Enabled, Features
  <2> QED BY <2>1, <2>2, ShutdownPlaces
<1> QED BY <1>1, <1>2, <1>3


LEMMA LifeStarts == LifeInit => LifeInv
<1> SUFFICES ASSUME LifeInit PROVE LifeInv
  OBVIOUS
<1>1. LifeTypeOK /\ CallersTypeOK
  <2>1. 1 \in 1..(Len(ShutdownOrder) + 1) /\ 0 \in 0..Len(StartOrder) /\ 0 \in 0..MaxInflight
    BY InflightAssumption, StartPlaces, ShutdownPlaces
  <2>2. LifeTypeOK
    BY <2>1 DEF LifeInit, LifeTypeOK
  <2>3. CallersTypeOK
    BY <2>1 DEF LifeInit, CallersTypeOK
  <2> QED BY <2>2, <2>3
<1>2. Built = {}
  BY DEF LifeInit, Built
<1>3. StorageInv
  <2>1. DOMAIN storage = {}
    BY DEF LifeInit
  <2> QED BY <1>2, <2>1 DEF LifeInit, StorageInv
<1>4. ClosedInv
  BY DEF LifeInit, ClosedInv
<1>5. ServerInv
  BY DEF LifeInit, ServerInv
<1> QED BY <1>1, <1>3, <1>4, <1>5 DEF LifeInv

LEMMA BuildKeeps == LifeInv /\ BuildComponent => LifeInv'
<1> SUFFICES ASSUME LifeInv, BuildComponent PROVE LifeInv'
  OBVIOUS
<1> USE DEF LifeInv
<1>1. PICK c : c = StartOrder[built + 1]
  OBVIOUS
<1>2. PICK owner : owner = IF sharedStorage = None THEN c ELSE sharedStorage
  OBVIOUS
<1>3. /\ main = "new" /\ built \in 0..13 /\ built' = built + 1
      /\ UNCHANGED <<settings, main, closed, server, inflight, serverDone, shutdown, caller, late>>
  BY StartPlaces DEF BuildComponent, LifeTypeOK
<1>4. IF Stores(c)
      THEN /\ storage' = [d \in DOMAIN storage \cup {c} |-> IF d = c THEN owner ELSE storage[d]]
           /\ sharedStorage' = IF Claims(c) THEN owner ELSE sharedStorage
      ELSE UNCHANGED <<storage, sharedStorage>>
  BY <1>1, <1>2 DEF BuildComponent
<1>5. LifeTypeOK' /\ CallersTypeOK'
  BY <1>3, StartPlaces DEF LifeTypeOK, CallersTypeOK
<1>6. Built' = Built \cup {c}
  <2>1. 1..(built + 1) = (1..built) \cup {built + 1}
    BY <1>3
  <2> QED BY <1>1, <1>3, <2>1 DEF Built
<1>7. c \notin Built /\ c \in Components
  <2>1. built + 1 \in 1..14 /\ \A j \in 1..built : j \in 1..14 /\ j # built + 1
    BY <1>3
  <2> QED BY <1>1, <2>1, StartsOnce, StartPlaces DEF Built, Components
<1>8. Lender' = Lender /\ \A d : (Stores(d))' = Stores(d)
  BY <1>3 DEF Lender, Stores, Enabled
<1>9. StorageInv'
  <2>1. CASE ~Stores(c)
    <3>1. c # Lender
      BY <2>1, LenderFirst
    <3>2. storage' = storage /\ sharedStorage' = sharedStorage
      BY <1>4, <2>1
    <3>3. {d \in Built' : Stores(d)} = {d \in Built : Stores(d)}
      BY <1>6, <2>1
    <3> QED BY <1>6, <1>8, <3>1, <3>2, <3>3 DEF StorageInv
  <2>2. CASE Stores(c)
    <3>1. owner = Lender /\ Lender \in Built'
      <4>1. CASE c = Lender
        BY <1>2, <1>6, <1>7, <4>1 DEF StorageInv
      <4>2. CASE c # Lender
        <5>1. PICK p \in 1..(built + 1) : StartOrder[p] = Lender
          BY <1>1, <1>3, <2>2, LenderFirst, StartPlaces
        <5>2. p \in 1..built
          BY <1>1, <1>3, <4>2, <5>1
        <5>3. Lender \in Built
          BY <5>1, <5>2 DEF Built
        <5>4. Lender # None
          BY DEF Lender, None
        <5> QED BY <1>2, <1>6, <5>3, <5>4 DEF StorageInv
      <4> QED BY <4>1, <4>2
    <3>2. /\ DOMAIN storage' = DOMAIN storage \cup {c}
          /\ \A d \in DOMAIN storage' : storage'[d] = Lender
      BY <1>4, <2>2, <3>1 DEF StorageInv
    <3>3. sharedStorage' = Lender
      <4>1. CASE Claims(c)
        BY <1>4, <2>2, <3>1, <4>1
      <4>2. CASE ~Claims(c)
        <5>1. c # Lender
          BY <4>2, LenderFirst
        <5>2. sharedStorage' = sharedStorage
          BY <1>4, <2>2, <4>2
        <5> QED BY <1>6, <3>1, <5>1, <5>2 DEF StorageInv
      <4> QED BY <4>1, <4>2
    <3>4. {d \in Built' : Stores(d)} = {d \in Built : Stores(d)} \cup {c}
      BY <1>6, <2>2
    <3> QED BY <1>8, <3>1, <3>2, <3>3, <3>4 DEF StorageInv
  <2> QED BY <2>1, <2>2
<1>10. ClosedInv' /\ ServerInv'
  BY <1>3, StartPlaces DEF ClosedInv, ServerInv
<1> QED BY <1>5, <1>9, <1>10

\* The other steps leave what was built, and on whose connection, alone.
LEMMA StorageStays ==
    StorageInv /\ UNCHANGED <<settings, built, storage, sharedStorage>> => StorageInv'
BY DEF StorageInv, Built, Lender, Stores, Enabled

LEMMA UnwindKeeps == LifeInv /\ (BuildFails \/ Unwind \/ NewReturns) => LifeInv'
<1> SUFFICES ASSUME LifeInv, BuildFails \/ Unwind \/ NewReturns PROVE LifeInv'
  OBVIOUS
<1> USE DEF LifeInv
<1>1. StorageInv'
  BY StorageStays DEF BuildFails, Unwind, NewReturns
<1>2. built \in 0..14 /\ Built' = Built /\ Built \subseteq Components
  <2>1. built \in 0..14 /\ built' = built
    BY StartPlaces DEF LifeTypeOK, BuildFails, Unwind, NewReturns
  <2>2. \A j \in 1..built : j \in 1..14
    BY <2>1
  <2> QED BY <2>1, <2>2, StartPlaces DEF Built, Components
<1>3. CASE BuildFails
  <2>1. LifeTypeOK' /\ CallersTypeOK' /\ ServerInv'
    BY <1>3 DEF LifeTypeOK, CallersTypeOK, ServerInv, BuildFails
  <2>2. closed' = {StartOrder[j] : j \in (built + 1)..built} /\ built \in 0..built
    <3>1. (built + 1)..built = {} /\ built \in 0..built
      BY <1>2
    <3> QED BY <1>3, <3>1 DEF ClosedInv, BuildFails
  <2>3. ClosedInv'
    BY <1>3, <2>2 DEF ClosedInv, BuildFails, ServerInv
  <2> QED BY <1>1, <2>1, <2>3
<1>4. CASE NewReturns
  <2>1. LifeTypeOK' /\ CallersTypeOK' /\ ServerInv'
    BY <1>4 DEF LifeTypeOK, CallersTypeOK, ServerInv, NewReturns
  <2>2. closed' = {} /\ built' = Len(StartOrder) /\ \A c \in Callers : caller'[c].step = 1
    BY <1>4 DEF ClosedInv, ServerInv, NewReturns
  <2>3. {k \in 1..Len(ShutdownOrder) : \E c \in Callers : k < caller'[c].step} = {}
    BY <2>2, ShutdownPlaces
  <2>4. ClosedInv'
    BY <1>4, <2>2, <2>3 DEF ClosedInv, NewReturns
  <2> QED BY <1>1, <2>1, <2>4
<1>5. CASE Unwind /\ main' = "exited" /\ closed' = closed /\ Built \subseteq closed
  <2>1. LifeTypeOK' /\ CallersTypeOK' /\ ServerInv'
    BY <1>5 DEF LifeTypeOK, CallersTypeOK, ServerInv, Unwind
  <2>2. closed' = Built'
    <3>1. PICK k \in 0..built : closed = {StartOrder[j] : j \in (k + 1)..built}
      BY <1>5 DEF ClosedInv, Unwind
    <3>2. \A j \in (k + 1)..built : j \in 1..built
      BY <1>2, <3>1
    <3>3. closed \subseteq Built
      BY <3>1, <3>2 DEF Built
    <3> QED BY <1>2, <1>5, <3>3
  <2>3. server' = "off"
    BY <1>5 DEF Unwind, ServerInv
  <2>4. ClosedInv'
    BY <1>5, <2>2, <2>3 DEF ClosedInv
  <2> QED BY <1>1, <2>1, <2>4
<1>6. ASSUME NEW k \in 1..built,
             \A j \in 1..built : StartOrder[j] \in closed <=> j > k,
             closed' = closed \cup {StartOrder[k]}, Unwind, main' = main
      PROVE  LifeInv'
  <2>1. closed' \subseteq Components
    <3>1. closed \subseteq Components
      BY DEF LifeTypeOK, Components
    <3>2. k \in 1..Len(StartOrder)
      BY <1>2, <1>6, StartPlaces
    <3> QED BY <1>6, <3>1, <3>2 DEF Components
  <2>2. LifeTypeOK' /\ CallersTypeOK' /\ ServerInv'
    BY <1>6, <2>1 DEF LifeTypeOK, CallersTypeOK, ServerInv, Unwind, Components
  <2>3. closed' = {StartOrder[j] : j \in ((k - 1) + 1)..built}
    <3>1. PICK h \in 0..built : closed = {StartOrder[j] : j \in (h + 1)..built}
      BY <1>6 DEF ClosedInv, Unwind
    <3>2. \A j \in (h + 1)..built : j \in 1..built /\ StartOrder[j] \in closed
      BY <1>2, <3>1
    <3>3. \A j \in (h + 1)..built : j > k
      BY <1>6, <3>2
    <3>4. \A j \in (k + 1)..built : j \in 1..built /\ StartOrder[j] \in closed
      BY <1>2, <1>6
    <3>5. closed = {StartOrder[j] : j \in (k + 1)..built}
      <4>1. \A x \in closed : \E j \in (k + 1)..built : x = StartOrder[j]
        <5> TAKE x \in closed
        <5>1. PICK j \in (h + 1)..built : x = StartOrder[j]
          BY <3>1
        <5>2. j \in (k + 1)..built
          BY <1>2, <3>2, <3>3, <5>1
        <5> QED BY <5>1, <5>2
      <4> QED BY <3>4, <4>1
    <3>6. ((k - 1) + 1)..built = {k} \cup ((k + 1)..built)
      BY <1>2
    <3> QED BY <1>6, <3>5, <3>6
  <2>4. k - 1 \in 0..built /\ built' = built /\ main' = "unwinding"
    BY <1>2, <1>6 DEF Unwind
  <2>5. server' = "off"
    BY <1>6 DEF Unwind, ServerInv
  <2>6. ClosedInv'
    BY <2>3, <2>4, <2>5 DEF ClosedInv
  <2> QED BY <1>1, <2>2, <2>6
<1> QED BY <1>3, <1>4, <1>5, <1>6 DEF Unwind

\* The server's own steps close nothing and move no caller.
LEMMA ServerKeeps == LifeInv /\ (startServer \/ Accept \/ Complete \/ ServerStops \/ Exit) => LifeInv'
<1> SUFFICES ASSUME LifeInv, startServer \/ Accept \/ Complete \/ ServerStops \/ Exit
             PROVE  LifeInv'
  OBVIOUS
<1> USE DEF LifeInv
<1>1. StorageInv'
  BY StorageStays DEF startServer, Accept, Complete, ServerStops, Exit
<1>2. UNCHANGED <<settings, built, storage, closed, shutdown, caller>>
  BY DEF startServer, Accept, Complete, ServerStops, Exit
<1>3. CallersTypeOK' /\ Built' = Built
  BY <1>2 DEF CallersTypeOK, Built
<1>4. LifeTypeOK'
  <2>1. inflight' \in 0..MaxInflight
    BY InflightAssumption DEF LifeTypeOK, startServer, Accept, Complete, ServerStops, Exit
  <2>2. /\ main' \in {"serving", "returned", "failed", "exited"} \cup {main}
        /\ server' \in {"on", "stopped"} \cup {server} /\ serverDone' \in {TRUE, FALSE, serverDone}
    BY DEF startServer, Accept, Complete, ServerStops, Exit
  <2>3. late' \subseteq {"deadline", "early"}
    BY DEF LifeTypeOK, startServer, Accept, Complete, ServerStops, Exit
  <2> QED BY <1>2, <2>1, <2>2, <2>3 DEF LifeTypeOK
<1>5. main \notin {"new", "unwinding"} \/ inflight > 0
  BY DEF startServer, Accept, Complete, ServerStops, Exit
<1>6. /\ main \notin {"new", "unwinding"} /\ main' \notin {"new", "unwinding"}
      /\ main = "starting" \/ server # "off"
  BY <1>4, <1>5 DEF ServerInv, LifeTypeOK, startServer, Accept, Complete, ServerStops, Exit
<1>7. server' # "off" \/ main' = "starting"
  BY <1>6 DEF ServerInv, startServer, Accept, Complete, ServerStops, Exit
<1>8. ClosedInv'
  <2>1. built' = Len(StartOrder)
    BY <1>2, <1>6 DEF ClosedInv, LifeTypeOK, ServerInv
  <2>2. server' = "off" => main' # "exited"
    BY <1>7
  <2>3. closed' \ {"live"} = {ShutdownOrder[j] : j \in {k \in 1..Len(ShutdownOrder) :
                                                 \E c \in Callers : k < caller'[c].step}}
    BY <1>2, <1>6 DEF ClosedInv
  <2> QED BY <1>6, <2>1, <2>2, <2>3 DEF ClosedInv
<1>9. ServerInv'
  <2>1. CASE startServer
    BY <2>1 DEF ServerInv, startServer
  <2>2. CASE Accept
    BY <2>2 DEF ServerInv, Accept
  <2>3. CASE Complete
    BY <2>3 DEF ServerInv, LifeTypeOK, Complete
  <2>4. CASE ServerStops
    BY <2>4 DEF ServerInv, ServerStops
  <2>5. CASE Exit
    BY <2>5 DEF ServerInv, Exit
  <2> QED BY <2>1, <2>2, <2>3, <2>4, <2>5
<1> QED BY <1>1, <1>3, <1>4, <1>8, <1>9

\* A caller of Shutdown, up to its first component.
LEMMA StoppingKeeps ==
    LifeInv /\ (\E c \in Callers : CallsShutdown(c) \/ StopServer(c) \/ Waited(c)) => LifeInv'
<1> SUFFICES ASSUME LifeInv, NEW c \in Callers, CallsShutdown(c) \/ StopServer(c) \/ Waited(c)
             PROVE  LifeInv'
  OBVIOUS
<1> USE DEF LifeInv
<1>1. StorageInv'
  BY StorageStays DEF CallsShutdown, StopServer, Waited
<1>2. PICK at \in {"stop", "wait", "close", "done"} : caller' = [caller EXCEPT ![c].at = at]
  BY DEF CallsShutdown, StopServer, Waited, Now
<1>3. /\ caller' \in [Callers -> [at : {"idle", "stop", "wait", "close", "done"},
                                  step : 1..(Len(ShutdownOrder) + 1)]]
      /\ \A d \in Callers : caller'[d].step = caller[d].step
      /\ \A d \in Callers \ {c} : caller'[d] = caller[d]
      /\ caller'[c].at = at
  BY <1>2 DEF CallersTypeOK
<1>4. CallersTypeOK'
  BY <1>3 DEF CallersTypeOK
<1>5. "live" \in Components
  BY ComponentNames
<1>6. LifeTypeOK'
  BY <1>5 DEF LifeTypeOK, Components, CallsShutdown, StopServer, Waited
<1>7. caller[c].at \in {"idle", "stop", "wait"} /\ caller[c].step = 1
  BY DEF CallsShutdown, StopServer, Waited, ServerInv
<1>8. main \notin {"new", "unwinding", "exited"} /\ main' = main /\ built' = built
  BY DEF ServerInv, LifeTypeOK, CallsShutdown, StopServer, Waited
<1>9. /\ main = "starting" \/ server # "off"
      /\ closed' \ {"live"} = closed \ {"live"}
      /\ (server' = "off") <=> (server = "off")
  BY <1>8 DEF LifeTypeOK, ServerInv, CallsShutdown, StopServer, Waited
<1>10. ClosedInv'
  <2>1. {k \in 1..Len(ShutdownOrder) : \E d \in Callers : k < caller'[d].step}
        = {k \in 1..Len(ShutdownOrder) : \E d \in Callers : k < caller[d].step}
    BY <1>3
  <2>2. closed' \ {"live"} = {ShutdownOrder[j] : j \in {k \in 1..Len(ShutdownOrder) :
                                                 \E d \in Callers : k < caller'[d].step}}
    BY <1>9, <2>1 DEF ClosedInv
  <2>3. ~(built' < Len(StartOrder))
    BY <1>8 DEF ClosedInv
  <2> QED BY <1>8, <2>2, <2>3 DEF ClosedInv
<1>11. ServerInv'
  <2>1. CASE CallsShutdown(c)
    BY <1>3, <1>7, <1>8, <2>1 DEF ServerInv, CallsShutdown
  <2>2. CASE StopServer(c)
    <3>1. serverDone' = serverDone /\ late \subseteq late' /\ inflight' = inflight
      BY <2>2 DEF StopServer
    <3>2. server' = IF server = "on" THEN "draining" ELSE server
      BY <2>2 DEF StopServer
    <3>3. at = IF serverDone THEN "wait" ELSE "close"
      BY <1>3, <2>2 DEF StopServer, Now, CallersTypeOK
    <3>4. main = "starting" => late' # {}
      BY <2>2 DEF StopServer
    <3>5. at = "close" => late' # {} \/ server' = "stopped"
      BY <1>8, <3>2, <3>3, <3>4 DEF ServerInv, LifeTypeOK
    <3>6. at = "wait" => server' # "off"
      BY <3>2, <3>3 DEF ServerInv
    <3>7. (server' = "off" \/ (server' = "stopped" /\ late' = {})) => inflight' = 0
      BY <3>1, <3>2 DEF ServerInv
    <3>8. \A d \in Callers \ {c} :
            /\ caller[d].at = "wait" => server' # "off"
            /\ caller[d].at = "close" \/ caller[d].step > 1 => late' # {} \/ server' = "stopped"
      BY <3>1, <3>2 DEF ServerInv
    <3>9. /\ serverDone' <=> main' = "serving"
          /\ serverDone' <=> server' \in {"on", "draining"}
          /\ main' \in {"new", "unwinding", "starting"} => server' = "off"
          /\ main' \in {"returned", "failed"} => server' = "stopped"
      BY <1>8, <3>1, <3>2 DEF ServerInv
    <3> QED BY <1>3, <1>7, <1>8, <3>3, <3>5, <3>6, <3>7, <3>8, <3>9 DEF ServerInv
  <2>3. CASE Waited(c)
    <3>1. at = "close"
      BY <1>3, <2>3 DEF Waited, Now, CallersTypeOK
    <3>2. late' # {} \/ server = "stopped"
      BY <2>3 DEF Waited, ServerInv, LifeTypeOK
    <3>3. late \subseteq late' /\ UNCHANGED <<main, server, serverDone, inflight>>
      BY <2>3 DEF Waited
    <3> QED BY <1>3, <1>7, <1>8, <3>1, <3>2, <3>3 DEF ServerInv
  <2> QED BY <2>1, <2>2, <2>3
<1> QED BY <1>1, <1>4, <1>6, <1>10, <1>11

\* A caller closes the next component of the closing order.
LEMMA CloseKeeps == LifeInv /\ (\E c \in Callers : CloseNext(c)) => LifeInv'
<1> SUFFICES ASSUME LifeInv, NEW c \in Callers, CloseNext(c) PROVE LifeInv'
  OBVIOUS
<1> USE DEF LifeInv
<1>1. StorageInv'
  BY StorageStays DEF CloseNext
<1>2. PICK s \in 1..14 : s = caller[c].step
  BY ShutdownPlaces DEF CallersTypeOK
<1>3. /\ caller[c].at = "close" /\ main # "exited"
      /\ UNCHANGED <<settings, main, built, storage, sharedStorage, server, inflight, serverDone,
                     shutdown, late>>
  BY DEF CloseNext
<1>4. /\ main = "starting" \/ server # "off"
      /\ main \notin {"new", "unwinding", "exited"}
      /\ built' = built /\ ~(built < Len(StartOrder))
  BY <1>3 DEF LifeTypeOK, ServerInv, ClosedInv
<1>5. CASE s > 13
  <2>1. caller' = [caller EXCEPT ![c].at = "done"] /\ closed' = closed
    BY <1>2, <1>5, ShutdownPlaces DEF CloseNext, Now
  <2>2. /\ caller' \in [Callers -> [at : {"idle", "stop", "wait", "close", "done"},
                                    step : 1..(Len(ShutdownOrder) + 1)]]
        /\ \A d \in Callers : caller'[d].step = caller[d].step
        /\ \A d \in Callers \ {c} : caller'[d] = caller[d]
        /\ caller'[c].at = "done"
    BY <2>1 DEF CallersTypeOK
  <2>3. LifeTypeOK' /\ CallersTypeOK'
    BY <1>3, <2>1, <2>2 DEF LifeTypeOK, CallersTypeOK
  <2>4. {k \in 1..Len(ShutdownOrder) : \E d \in Callers : k < caller'[d].step}
        = {k \in 1..Len(ShutdownOrder) : \E d \in Callers : k < caller[d].step}
    BY <2>2
  <2>5. closed' \ {"live"} = {ShutdownOrder[j] : j \in {k \in 1..Len(ShutdownOrder) :
                                                 \E d \in Callers : k < caller'[d].step}}
    BY <1>4, <2>1, <2>4 DEF ClosedInv
  <2>6. ClosedInv'
    BY <1>3, <1>4, <2>5 DEF ClosedInv
  <2>7. ServerInv'
    BY <1>3, <1>4, <2>2 DEF ServerInv
  <2> QED BY <1>1, <2>3, <2>6, <2>7
<1>6. CASE s \in 1..13
  <2>1. caller' = [caller EXCEPT ![c].step = s + 1] /\ closed' = closed \cup {ShutdownOrder[s]}
    <3>1. ~(s > Len(ShutdownOrder))
      BY <1>6, ShutdownPlaces
    <3> QED BY <1>2, <3>1 DEF CloseNext
  <2>2. /\ caller' \in [Callers -> [at : {"idle", "stop", "wait", "close", "done"},
                                    step : 1..(Len(ShutdownOrder) + 1)]]
        /\ \A d \in Callers : caller'[d].at = caller[d].at
        /\ \A d \in Callers \ {c} : caller'[d] = caller[d]
        /\ caller'[c].step = s + 1
    <3>1. s + 1 \in 1..(Len(ShutdownOrder) + 1)
      BY <1>6, ShutdownPlaces
    <3> QED BY <2>1, <3>1 DEF CallersTypeOK
  <2>3. ShutdownOrder[s] \in Components /\ ShutdownOrder[s] # "live"
    <3>1. s \in {1, 2, 3, 4, 5, 6, 7, 8, 9, 10, 11, 12, 13}
      BY <1>6
    <3> QED BY <3>1, ShutdownPlaces, ComponentNames
  <2>4. LifeTypeOK' /\ CallersTypeOK'
    BY <1>3, <2>1, <2>2, <2>3 DEF LifeTypeOK, CallersTypeOK, Components
  <2>5. {k \in 1..Len(ShutdownOrder) : \E d \in Callers : k < caller'[d].step}
        = {k \in 1..Len(ShutdownOrder) : \E d \in Callers : k < caller[d].step} \cup {s}
    <3>1. \A d \in Callers : caller[d].step \in 1..14
      BY ShutdownPlaces DEF CallersTypeOK
    <3>2. \A k \in 1..13 : k < caller'[c].step <=> k < caller[c].step \/ k = s
      <4>1. s \in Nat /\ \A k \in 1..13 : k < s + 1 <=> k < s \/ k = s
        BY <1>6
      <4>2. caller[c].step = s /\ caller'[c].step = s + 1
        BY <1>2, <2>2
      <4> QED BY <4>1, <4>2
    <3>3. \A k \in 1..13, d \in Callers \ {c} : k < caller'[d].step <=> k < caller[d].step
      BY <2>2
    <3>4. \A k \in 1..13 : (\E d \in Callers : k < caller'[d].step)
                           <=> (\E d \in Callers : k < caller[d].step) \/ k = s
      BY <3>2, <3>3
    <3> QED BY <1>6, <3>4, ShutdownPlaces
  <2>6. closed' \ {"live"} = {ShutdownOrder[j] : j \in {k \in 1..Len(ShutdownOrder) :
                                                 \E d \in Callers : k < caller'[d].step}}
    <3>1. closed' \ {"live"} = (closed \ {"live"}) \cup {ShutdownOrder[s]}
      BY <2>1, <2>3
    <3>2. closed \ {"live"} = {ShutdownOrder[j] : j \in {k \in 1..Len(ShutdownOrder) :
                                                 \E d \in Callers : k < caller[d].step}}
      BY <1>4 DEF ClosedInv
    <3> QED BY <2>5, <3>1, <3>2
  <2>7. ClosedInv'
    BY <1>3, <1>4, <2>6 DEF ClosedInv
  <2>8. ServerInv'
    BY <1>3, <1>4, <2>2 DEF ServerInv
  <2> QED BY <1>1, <2>4, <2>7, <2>8
<1> QED BY <1>2, <1>5, <1>6

LEMMA LifeInductive == LifeSpec => []LifeInv
<1>1. LifeInv /\ LifeNext => LifeInv'
  BY BuildKeeps, UnwindKeeps, ServerKeeps, StoppingKeeps, CloseKeeps
     DEF LifeNext, ShutdownSteps
<1>2. LifeInv /\ UNCHANGED lifeVars => LifeInv'
  BY DEF lifeVars, LifeInv, LifeTypeOK, CallersTypeOK, StorageInv, ClosedInv, ServerInv,
         Built, Lender, Stores, Enabled
<1> QED BY LifeStarts, <1>1, <1>2, PTL DEF LifeSpec

\* The connection closes after those that use it, whichever way it comes down.
LEMMA InvGivesStorage == LifeInv => StorageOutlivesUsers
<1> SUFFICES ASSUME LifeInv PROVE StorageOutlivesUsers
  OBVIOUS
<1> USE DEF LifeInv
<1>1. main = "exited" /\ built < Len(StartOrder) => closed = Built
  BY DEF ClosedInv
<1>2. ASSUME NEW c \in DOMAIN storage, c \notin closed, Lender \in closed PROVE FALSE
  <2>1. c \in Built /\ Stores(c) /\ built \in 0..14
    BY StartPlaces DEF StorageInv, LifeTypeOK
  <2>2. PICK m \in 1..built : c = StartOrder[m]
    BY <2>1 DEF Built
  <2>3. m \in 1..14 /\ c \in Components
    <3>1. m \in 1..14
      BY <2>1, <2>2
    <3> QED BY <2>2, <3>1, StartPlaces DEF Components
  <2>4. CASE main = "unwinding"
    <3>1. PICK k \in 0..built : closed = {StartOrder[j] : j \in (k + 1)..built}
      BY <2>4 DEF ClosedInv
    <3>2. PICK p \in 1..m : StartOrder[p] = Lender
      BY <2>1, <2>2, <2>3, LenderFirst, StartPlaces
    <3>3. PICK j \in (k + 1)..built : StartOrder[j] = Lender
      BY <1>2, <3>1
    <3>4. p \in 1..14 /\ j \in 1..14
      BY <2>1, <2>3, <3>1, <3>2, <3>3
    <3>5. p = j
      BY <3>2, <3>3, <3>4, StartsOnce, StartPlaces
    <3>6. m \in (k + 1)..built
      BY <2>1, <2>2, <3>1, <3>2, <3>3, <3>5
    <3> QED BY <1>2, <2>2, <3>1, <3>6
  <2>5. CASE main = "starting" \/ server # "off"
    <3>1. closed \ {"live"} = {ShutdownOrder[j] : j \in {k \in 1..Len(ShutdownOrder) :
                                                 \E d \in Callers : k < caller[d].step}}
      BY <2>5 DEF ClosedInv
    <3>2. PICK p \in 1..Len(ShutdownOrder) :
            /\ Lender = ShutdownOrder[p]
            /\ \A d \in Components : Stores(d) => \E i \in 1..p : ShutdownOrder[i] = d
      BY LenderLast
    <3>3. Lender # "live"
      BY DEF Lender
    <3>4. PICK j \in 1..13 : Lender = ShutdownOrder[j] /\ \E d \in Callers : j < caller[d].step
      BY <1>2, <3>1, <3>3, ShutdownPlaces
    <3>5. PICK d \in Callers : j < caller[d].step
      BY <3>4
    <3>6. p = j
      <4>1. j \in 1..Len(ShutdownOrder)
        BY <3>4, ShutdownPlaces
      <4> QED BY <3>2, <3>4, <4>1, ClosesOnce
    <3>7. PICK i \in 1..p : ShutdownOrder[i] = c
      BY <2>1, <2>3, <3>2
    <3>8. i \in 1..Len(ShutdownOrder) /\ i < caller[d].step
      <4>1. caller[d].step \in 1..14
        BY ShutdownPlaces DEF CallersTypeOK
      <4> QED BY <3>2, <3>5, <3>6, <3>7, <4>1, ShutdownPlaces
    <3> QED BY <1>2, <3>1, <3>7, <3>8
  <2>6. CASE main \notin {"unwinding", "starting"} /\ server = "off"
    <3>1. closed = {} \/ closed = Built
      BY <2>6 DEF ClosedInv, ServerInv, LifeTypeOK
    <3> QED BY <1>2, <2>1, <3>1
  <2> QED BY <2>4, <2>5, <2>6
<1> QED BY <1>1, <1>2 DEF StorageOutlivesUsers, StorageInv

LEMMA InvGivesDrained == LifeInv => ClosedOnceDrained
<1> SUFFICES ASSUME LifeInv, closed \ {"live"} # {}, main # "unwinding", late = {}
             PROVE  inflight = 0
  BY DEF ClosedOnceDrained
<1> USE DEF LifeInv
<1>1. CASE server = "off"
  BY <1>1 DEF ServerInv
<1>2. CASE server # "off"
  <2>1. PICK j \in 1..Len(ShutdownOrder) : \E c \in Callers : j < caller[c].step
    BY <1>2 DEF ClosedInv
  <2>2. PICK c \in Callers : j < caller[c].step
    BY <2>1
  <2>3. caller[c].step > 1
    BY <2>1, <2>2, ShutdownPlaces DEF CallersTypeOK
  <2> QED BY <2>2, <2>3 DEF ServerInv
<1> QED BY <1>1, <1>2

\* Whichever features are on, however far the start came, and whoever calls
\* Shutdown: the shared connection is closed last, and nothing but the live
\* broker is closed under a request, except past a deadline or a signal that
\* came before the server.
THEOREM ComesDownInOrder == LifeSpec => []DownInOrder
<1>1. LifeInv => DownInOrder
  BY InvGivesStorage, InvGivesDrained DEF DownInOrder
<1> QED BY LifeInductive, <1>1, PTL

\* For any number of requests.
THEOREM LifeTypes == LifeSpec => []LifeTypeOK
<1>1. LifeInv => LifeTypeOK
  BY DEF LifeInv
<1> QED BY LifeInductive, <1>1, PTL
=============================================================================
