--------------------------- MODULE CircuitBreaker ---------------------------
(***************************************************************************)
(* The circuit breaker of one provider: internal/llmclient/                *)
(* circuit_breaker.go.  Every method of the Go type runs under its mutex,  *)
(* so every method is one step here.                                       *)
(*                                                                         *)
(* Two abstractions.  The clock is the Boolean elapsed, TRUE when          *)
(* time.Since(lastFailure) > timeout.  The code reads failures only in     *)
(* the comparison failures >= failureThreshold, so counting stops there.   *)
(***************************************************************************)
EXTENDS Naturals

CONSTANTS
    FailureThreshold,   \* failures that open a closed circuit
    SuccessThreshold    \* successes that close a half-open circuit

\* llmclient.New builds no breaker unless the failure threshold is positive.
ASSUME ThresholdAssumption ==
    /\ FailureThreshold \in Nat \ {0}
    /\ SuccessThreshold \in Nat

VARIABLES
    state,            \* "closed", "open" or "halfOpen"
    failures,
    successes,
    halfOpenAllowed,  \* the next probe may be admitted
    elapsed           \* the timeout has passed since lastFailure

\* History the code does not keep; it is only read by the properties.
VARIABLES
    failStreak,       \* failures recorded since the last recorded success
    okStreak,         \* successes recorded since the last recorded failure
    herd              \* probes admitted since the last recorded outcome

breaker == <<state, failures, successes, halfOpenAllowed, elapsed>>
history == <<failStreak, okStreak, herd>>

CircuitStates == {"closed", "open", "halfOpen"}

CountUpTo(n, cap) == IF n < cap THEN n + 1 ELSE cap

BreakerInit ==
    /\ state = "closed"
    /\ failures = 0
    /\ successes = 0
    /\ halfOpenAllowed = TRUE
    /\ elapsed = TRUE
    /\ failStreak = 0
    /\ okStreak = 0
    /\ herd = 0

(***************************************************************************)
(* acquire: the three ways it can answer.                                  *)
(***************************************************************************)
AdmitClosed ==
    /\ state = "closed"
    /\ UNCHANGED <<breaker, history>>

\* Bug: the timeout is never looked at again once the circuit is open.
MayProbeHalfOpenOnly == state = "halfOpen" /\ halfOpenAllowed

\* The open circuit whose timeout has passed turns half-open and falls
\* through to the half-open case with its gate reset.
MayProbe ==
    \/ state = "open" /\ elapsed
    \/ state = "halfOpen" /\ halfOpenAllowed

\* Bug: the gate is left open behind the admitted probe.
AdmitProbeGateOpen ==
    /\ MayProbe
    /\ state' = "halfOpen"
    /\ successes' = IF state = "open" THEN 0 ELSE successes
    /\ herd' = herd + 1
    /\ UNCHANGED <<failures, halfOpenAllowed, elapsed, failStreak, okStreak>>

AdmitProbe ==
    /\ MayProbe
    /\ state' = "halfOpen"
    /\ successes' = IF state = "open" THEN 0 ELSE successes
    /\ halfOpenAllowed' = FALSE
    /\ herd' = herd + 1
    /\ UNCHANGED <<failures, elapsed, failStreak, okStreak>>

Reject ==
    /\ state # "closed"
    /\ ~MayProbe
    /\ UNCHANGED <<breaker, history>>

(***************************************************************************)
(* RecordSuccess and RecordFailure.  Nothing ties an outcome to the state  *)
(* the request was admitted in: a late one counts like any other.          *)
(***************************************************************************)
Close == state' = "closed" /\ failures' = 0

SuccessHalfOpen ==
    /\ state = "halfOpen"
    /\ successes' = successes + 1
    /\ halfOpenAllowed' = TRUE
    /\ IF successes' >= SuccessThreshold THEN Close ELSE UNCHANGED <<state, failures>>

\* Bug: a success does not end a run of failures.
SuccessClosedNoReset ==
    /\ state = "closed"
    /\ UNCHANGED <<state, failures, successes, halfOpenAllowed>>

SuccessClosed ==
    /\ state = "closed"
    /\ failures' = 0
    /\ UNCHANGED <<state, successes, halfOpenAllowed>>

RecordSuccess ==
    /\ \/ SuccessHalfOpen
       \/ SuccessClosed
       \/ state = "open" /\ UNCHANGED <<state, failures, successes, halfOpenAllowed>>
    /\ UNCHANGED elapsed
    /\ okStreak' = CountUpTo(okStreak, SuccessThreshold)
    /\ failStreak' = 0
    /\ herd' = 0

FailureClosed ==
    /\ state = "closed"
    /\ state' = IF failures' >= FailureThreshold THEN "open" ELSE "closed"
    /\ UNCHANGED <<successes, halfOpenAllowed>>

FailureHalfOpen ==
    /\ state = "halfOpen"
    /\ state' = "open"
    /\ successes' = 0
    /\ halfOpenAllowed' = TRUE

RecordFailure ==
    /\ failures' = CountUpTo(failures, FailureThreshold)
    /\ elapsed' = FALSE
    /\ \/ FailureClosed
       \/ FailureHalfOpen
       \/ state = "open" /\ UNCHANGED <<state, successes, halfOpenAllowed>>
    /\ failStreak' = CountUpTo(failStreak, FailureThreshold)
    /\ okStreak' = 0
    /\ herd' = 0

IsHalfOpen == state = "halfOpen"

\* The clock: the timeout passes after the last recorded failure.
TimeoutElapses ==
    /\ ~elapsed
    /\ elapsed' = TRUE
    /\ UNCHANGED <<state, failures, successes, halfOpenAllowed, history>>

-----------------------------------------------------------------------------
BreakerTypeOK ==
    /\ state \in CircuitStates
    /\ failures \in 0..FailureThreshold
    /\ successes \in Nat
    /\ halfOpenAllowed \in BOOLEAN
    /\ elapsed \in BOOLEAN
    /\ failStreak \in 0..FailureThreshold
    /\ okStreak \in 0..SuccessThreshold
    /\ herd \in Nat
=============================================================================
