------------------------------ MODULE LLMClient ------------------------------
(***************************************************************************)
(* The logical requests of one provider's client (internal/llmclient/      *)
(* client.go) sharing its circuit breaker.  DoRaw, DoStream and            *)
(* DoPassthrough differ only in how many attempts they may make and in how *)
(* an answer is handed to the caller; what they do to the breaker and to   *)
(* the metrics hooks is the same, so one life cycle stands for all three:  *)
(*                                                                         *)
(*   idle -> acquire -> attempt <-> backoff                                *)
(*                        |             \                                  *)
(*                      record -> 429 -> end -> idle                       *)
(*                                                                         *)
(* A request slot is reused, so runs are not limited in length.            *)
(***************************************************************************)
EXTENDS CircuitBreaker, FiniteSets

CONSTANTS
    Requests,      \* request slots: goroutines calling the client
    MaxAttempts,   \* MaxRetries + 1, at least 1 (maxAttempts())
    LocalErrors    \* BOOLEAN: requests that buildRequest refuses occur

ASSUME ClientAssumption ==
    /\ MaxAttempts \in Nat \ {0}
    /\ LocalErrors \in BOOLEAN

VARIABLES
    pc,        \* where each request is
    probe,     \* scope.halfOpenProbe
    budget,    \* maxAttempts of this request
    attempts,  \* upstream attempts made
    last,      \* class of the last attempt's outcome
    gauge,     \* OnRequestStart calls minus OnRequestEnd calls, per request
    healthy    \* the provider has recovered for good

clientVars == <<pc, probe, budget, attempts, last, gauge, healthy>>
vars == <<breaker, history, clientVars>>

(***************************************************************************)
(* What an attempt can come back with.                                     *)
(*   ok         HTTP 200                                                   *)
(*   refused    4xx other than 429: charged as a success                   *)
(*   limited    429: retried, charged only when half-open                  *)
(*   busy       502, 503, 504: retried, charged                            *)
(*   broken     500 and other 5xx: not retried, charged                    *)
(*   transport  no response, not a timeout: retried, charged               *)
(*   timeout    the client's own timeout: not retried, charged             *)
(*   local      buildRequest failed, the provider was never contacted      *)
(***************************************************************************)
Outcomes == {"ok", "refused", "limited", "busy", "broken",
             "transport", "timeout", "local"}
Retryable == {"limited", "busy", "transport"}
Failing == {"busy", "broken", "transport", "timeout"}

\* What the provider can answer now: only 200 once it has recovered.
Possible ==
    {o \in Outcomes : /\ o = "local" => LocalErrors
                      /\ healthy => o \in {"ok", "local"}}

Stages == {"idle", "acquire", "attempt", "backoff", "record", "charge429", "end"}

Init ==
    /\ BreakerInit
    /\ pc = [r \in Requests |-> "idle"]
    /\ probe = [r \in Requests |-> FALSE]
    /\ budget = [r \in Requests |-> 1]
    /\ attempts = [r \in Requests |-> 0]
    /\ last = [r \in Requests |-> "ok"]
    /\ gauge = [r \in Requests |-> 0]
    /\ healthy = FALSE

GoTo(r, stage) == pc' = [pc EXCEPT ![r] = stage]

\* finishRequest: OnRequestEnd; the request's locals go with its stack.
Finish(r) ==
    /\ GoTo(r, "idle")
    /\ gauge' = [gauge EXCEPT ![r] = @ - 1]
    /\ probe' = [probe EXCEPT ![r] = FALSE]
    /\ budget' = [budget EXCEPT ![r] = 1]
    /\ attempts' = [attempts EXCEPT ![r] = 0]
    /\ last' = [last EXCEPT ![r] = "ok"]
    /\ UNCHANGED healthy

\* A stream, a streamed body and a passthrough that is not idempotent get one
\* attempt, every other request MaxAttempts.
Budgets == {1, MaxAttempts}

\* beginRequest up to OnRequestStart.
Start(r) ==
    /\ pc[r] = "idle"
    /\ GoTo(r, "acquire")
    /\ \E n \in Budgets : budget' = [budget EXCEPT ![r] = n]
    /\ gauge' = [gauge EXCEPT ![r] = @ + 1]
    /\ UNCHANGED <<breaker, history, probe, attempts, last, healthy>>

\* beginRequest: the breaker's answer.
Admitted(r) ==
    /\ pc[r] = "acquire"
    /\ AdmitClosed
    /\ GoTo(r, "attempt")
    /\ UNCHANGED <<probe, budget, attempts, last, gauge, healthy>>

AdmittedAsProbe(r) ==
    /\ pc[r] = "acquire"
    /\ AdmitProbe
    /\ GoTo(r, "attempt")
    /\ probe' = [probe EXCEPT ![r] = TRUE]
    /\ UNCHANGED <<budget, attempts, last, gauge, healthy>>

Rejected(r) ==
    /\ pc[r] = "acquire"
    /\ Reject
    /\ Finish(r)

\* Another pass of the retry loop follows an attempt that came back with o.
Retries(r, o) ==
    /\ o \in Retryable
    /\ ~probe[r]
    /\ attempts[r] + 1 < budget[r]

\* One pass of the retry loop: send, and decide what the outcome leads to.
Attempt(r) ==
    /\ pc[r] = "attempt"
    /\ \E o \in Possible :
         /\ last' = [last EXCEPT ![r] = o]
         /\ attempts' = [attempts EXCEPT ![r] = @ + 1]
         /\ \/ o = "local" /\ GoTo(r, "end")
            \/ Retries(r, o) /\ GoTo(r, "backoff")
            \/ o # "local" /\ ~Retries(r, o) /\ GoTo(r, "record")
    /\ UNCHANGED <<breaker, history, probe, budget, gauge, healthy>>

\* waitForRetryAttempt: the backoff ends, or the caller gives up during it.
BackoffEnds(r) ==
    /\ pc[r] = "backoff"
    /\ GoTo(r, "attempt")
    /\ UNCHANGED <<breaker, history, probe, budget, attempts, last, gauge, healthy>>

\* Bug: the caller that gives up is never reported to OnRequestEnd.
CancelledUnobserved(r) ==
    /\ pc[r] = "backoff"
    /\ GoTo(r, "idle")
    /\ probe' = [probe EXCEPT ![r] = FALSE]
    /\ budget' = [budget EXCEPT ![r] = 1]
    /\ attempts' = [attempts EXCEPT ![r] = 0]
    /\ last' = [last EXCEPT ![r] = "ok"]
    /\ UNCHANGED <<breaker, history, gauge, healthy>>

Cancelled(r) ==
    /\ pc[r] = "backoff"
    /\ Finish(r)
    /\ UNCHANGED <<breaker, history>>

\* recordCircuitBreakerCompletion.  For a 429 the state is read in one
\* critical section and the failure recorded in another.
RecordOutcome(r) ==
    /\ pc[r] = "record"
    /\ \/ /\ last[r] \in Failing
          /\ RecordFailure
          /\ GoTo(r, "end")
       \/ /\ last[r] = "limited"
          /\ GoTo(r, IF IsHalfOpen THEN "charge429" ELSE "end")
          /\ UNCHANGED <<breaker, history>>
       \/ /\ last[r] \in {"ok", "refused"}
          /\ RecordSuccess
          /\ GoTo(r, "end")
    /\ UNCHANGED <<probe, budget, attempts, last, gauge, healthy>>

Charge429(r) ==
    /\ pc[r] = "charge429"
    /\ RecordFailure
    /\ GoTo(r, "end")
    /\ UNCHANGED <<probe, budget, attempts, last, gauge, healthy>>

\* The second half of completeScope, and the whole of what a local error does.
End(r) ==
    /\ pc[r] = "end"
    /\ Finish(r)
    /\ UNCHANGED <<breaker, history>>

Timer ==
    /\ TimeoutElapses
    /\ UNCHANGED clientVars

\* The provider recovers: from here on every response is a 200.
Recover ==
    /\ ~healthy
    /\ healthy' = TRUE
    /\ UNCHANGED <<breaker, history, pc, probe, budget, attempts, last, gauge>>

Step(r) ==
    \/ Start(r) \/ Admitted(r) \/ AdmittedAsProbe(r) \/ Rejected(r)
    \/ Attempt(r) \/ BackoffEnds(r) \/ Cancelled(r)
    \/ RecordOutcome(r) \/ Charge429(r) \/ End(r)

Next ==
    \/ \E r \in Requests : Step(r)
    \/ Timer
    \/ Recover

Spec == Init /\ [][Next]_vars

\* Goroutines run, the HTTP client's timeout ends every attempt, time
\* passes, and clients keep sending requests.  Recovery of the provider is
\* not assumed.
ClientFairness ==
    /\ \A r \in Requests : WF_vars(Step(r))
    /\ WF_vars(Timer)

FairSpec == Spec /\ ClientFairness

-----------------------------------------------------------------------------
TypeOK ==
    /\ BreakerTypeOK
    /\ pc \in [Requests -> Stages]
    /\ probe \in [Requests -> BOOLEAN]
    /\ budget \in [Requests -> Budgets]
    /\ attempts \in [Requests -> 0..MaxAttempts]
    /\ last \in [Requests -> Outcomes]
    /\ gauge \in [Requests -> 0..1]
    /\ healthy \in BOOLEAN

\* What the three states say about the counters, whatever late outcomes did
\* in between: a closed circuit is short of its failure threshold, a circuit
\* that is not closed has reached it (failures is never reset on the way
\* back), and a half-open circuit is short of its success threshold.
CountersMatchState ==
    /\ state = "closed" => failures < FailureThreshold
    /\ state # "closed" => failures = FailureThreshold
    /\ state = "halfOpen" /\ SuccessThreshold > 0 => successes < SuccessThreshold

\* acquire's gate against a thundering herd: between two recorded outcomes
\* at most one probe is admitted, however many requests are waiting.
OneProbePerOutcome == herd <= 1

\* A probe is a single upstream call: its failure is never retried, which
\* would hammer a provider that is still down.
ProbeNeverRetries ==
    \A r \in Requests : probe[r] => attempts[r] <= 1 /\ pc[r] # "backoff"

\* DoRaw's metrics contract: every logical request is observed exactly once
\* on every path out of it, so OnRequestStart and OnRequestEnd balance and
\* the in-flight gauge is right.
ObservedOnce ==
    \A r \in Requests : gauge[r] = IF pc[r] = "idle" THEN 0 ELSE 1

\* The circuit opens from closed only after FailureThreshold failures in a
\* row, with no success recorded in between, and closes only after
\* SuccessThreshold successes in a row, with no failure in between.
SwitchesOnStreaks ==
    [][/\ state = "closed" /\ state' = "open" => failStreak' = FailureThreshold
       /\ state = "halfOpen" /\ state' = "closed" => okStreak' = SuccessThreshold]_vars

\* The inductive strengthening of the properties above.  A probe admitted
\* since the last outcome shut the gate; the streaks dominate the counters.
BreakerInv ==
    /\ BreakerTypeOK
    /\ CountersMatchState
    /\ herd = 0 \/ (herd = 1 /\ state = "halfOpen" /\ ~halfOpenAllowed)
    /\ state = "closed" => failures <= failStreak
    /\ state = "halfOpen" => successes <= okStreak

\* A request that has not been admitted made no attempt, one that may still
\* send has attempts left, and a probe has made its one attempt or none.
RequestInv ==
    \A r \in Requests :
        /\ pc[r] \in {"idle", "acquire"} => attempts[r] = 0 /\ ~probe[r]
        /\ pc[r] \in {"attempt", "backoff"} => attempts[r] < budget[r]
        /\ probe[r] /\ pc[r] = "attempt" => attempts[r] = 0
        /\ probe[r] => attempts[r] <= 1 /\ pc[r] # "backoff"

IInv == TypeOK /\ BreakerInv /\ RequestInv /\ ObservedOnce

\* A provider that has recovered is used again: the circuit does not stay
\* open, or half-open with its gate shut, for ever, unless a probe ended
\* without recording an outcome.
Stuck == IsHalfOpen /\ ~halfOpenAllowed /\ \A r \in Requests : ~probe[r]
HealsUnlessStuck == healthy ~> (state = "closed" \/ Stuck)

\* What resilience.mdx:11 says without that exception: the breaker "probes
\* once the timeout elapses".
Heals == healthy ~> (state = "closed")
=============================================================================
