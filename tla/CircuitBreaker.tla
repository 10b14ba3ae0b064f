--------------------------- MODULE CircuitBreaker ---------------------------
(***************************************************************************)
(* The circuit breaker of backend/app/services/resilience.py and the       *)
(* coroutines that share one: every call of OpenAILLM.generate (or of      *)
(* OpenAIEmbedding._embed_with_retry) first asks allow_request, then tries *)
(* up to MaxRetries + 1 times with a sleep between two attempts, and       *)
(* reports the outcome of the whole call once, at its end.                 *)
(*                                                                         *)
(* All the coroutines run on one event loop, so a step is the code between *)
(* two awaits: any number of calls may be waiting for an answer, or        *)
(* sleeping before a retry, while the breaker changes under them.          *)
(***************************************************************************)
EXTENDS Integers

CONSTANTS
    Callers,            \* the coroutines that may be inside a guarded call
    FailureThreshold,   \* failure_threshold (5 in both providers)
    RecoveryTimeout,    \* recovery_timeout, in clock ticks (30 seconds)
    MaxRetries,         \* attempts after the first one (3 in both providers)
    MaxFailures,        \* bound: the service stops failing at this count
    Faults              \* what else may happen to a call, a subset of FaultKinds

(* "cancelled": the coroutine is cancelled at an await (the client went    *)
(* away, the server shuts down); CancelledError is a BaseException and no  *)
(* handler of the retry loop sees it.  "unusable": the service answers     *)
(* normally but the answer has no choices (no data), so that reading it    *)
(* raises after record_success was called.                                 *)
FaultKinds == {"cancelled", "unusable"}

ASSUME BreakerAssumption ==
    /\ FailureThreshold \in Nat \ {0}
    /\ RecoveryTimeout \in Nat \ {0}
    /\ MaxRetries \in Nat
    /\ MaxFailures \in Nat
    /\ Faults \subseteq FaultKinds

VARIABLES
    cb,         \* the breaker's four attributes
    pc,         \* where each caller is in its call
    attempt,    \* the attempt each caller is at (the loop variable)
    probes,     \* history: calls admitted since the breaker became HALF_OPEN
    streak      \* history: calls that raised since the last one that returned

vars == <<cb, pc, attempt, probes, streak>>

CircuitState == {"CLOSED", "OPEN", "HALF_OPEN"}

\* _last_failure_time is None
Never == -1

(* elapsed stands for time.monotonic() - _last_failure_time.  The code     *)
(* only ever asks whether it has reached recovery_timeout, so the clock    *)
(* stops there.                                                            *)
Breaker == [state : CircuitState,
            failure_count : Nat,
            elapsed : {Never} \cup 0..RecoveryTimeout,
            half_open_allowed : BOOLEAN]

-----------------------------------------------------------------------------
(***************************************************************************)
(* The methods of CircuitBreaker, as functions of the breaker's attributes *)
(***************************************************************************)

\* Mutant: the probe is offered without waiting for the recovery timeout.
read_state_eager(b) ==
    IF b.state = "OPEN" /\ b.elapsed # Never
    THEN [b EXCEPT !.state = "HALF_OPEN", !.half_open_allowed = TRUE]
    ELSE b

(* The state property: reading the state is what moves OPEN to HALF_OPEN.  *)
read_state(b) ==
    IF b.state = "OPEN" /\ b.elapsed # Never /\ b.elapsed >= RecoveryTimeout
    THEN [state |-> "HALF_OPEN",
          failure_count |-> b.failure_count,
          elapsed |-> b.elapsed,
          half_open_allowed |-> TRUE]
    ELSE b

\* What allow_request returns.
allow_request(b) ==
    LET current == read_state(b)
    IN  \/ current.state = "CLOSED"
        \/ current.state = "HALF_OPEN" /\ current.half_open_allowed

\* Mutant: the probe is not consumed.
after_allow_request_keep(b) == read_state(b)

\* What allow_request leaves behind: the one probe is consumed.
after_allow_request(b) ==
    LET current == read_state(b)
    IN  IF current.state = "HALF_OPEN"
        THEN [current EXCEPT !.half_open_allowed = FALSE]
        ELSE current

\* Mutant: the failures before a success are not forgotten.
record_success_keep_count(b) ==
    [b EXCEPT !.state = "CLOSED", !.half_open_allowed = FALSE]

record_success(b) ==
    [state |-> "CLOSED",
     failure_count |-> 0,
     elapsed |-> b.elapsed,
     half_open_allowed |-> FALSE]

\* Mutant: the time of the failure is not taken down.
record_failure_no_time(b) ==
    [b EXCEPT !.failure_count = @ + 1,
              !.state = IF @ = "HALF_OPEN" \/ b.failure_count + 1 >= FailureThreshold
                        THEN "OPEN" ELSE @]

record_failure(b) ==
    [state |-> IF b.state = "HALF_OPEN"
                    \/ b.failure_count + 1 >= FailureThreshold
               THEN "OPEN" ELSE b.state,
     failure_count |-> b.failure_count + 1,
     elapsed |-> 0,
     half_open_allowed |-> b.half_open_allowed]

-----------------------------------------------------------------------------
Init ==
    /\ cb = [state |-> "CLOSED", failure_count |-> 0,
             elapsed |-> Never, half_open_allowed |-> FALSE]
    /\ pc = [c \in Callers |-> "idle"]
    /\ attempt = [c \in Callers |-> 0]
    /\ probes = 0
    /\ streak = 0

\* The history of one half-open episode: admitted is 1 if this step admits a call.
CountProbes(admitted) ==
    probes' = IF cb'.state = "HALF_OPEN" THEN probes + admitted ELSE 0

\* A caller asks the breaker and is admitted: its first attempt is under way.
Admitted(c) ==
    /\ pc[c] = "idle"
    /\ allow_request(cb)
    /\ cb' = after_allow_request(cb)
    /\ pc' = [pc EXCEPT ![c] = "calling"]
    /\ attempt' = [attempt EXCEPT ![c] = 0]
    /\ CountProbes(1)
    /\ UNCHANGED streak

\* A caller asks the breaker and gets CircuitBreakerOpenError.
Rejected(c) ==
    /\ pc[c] = "idle"
    /\ ~allow_request(cb)
    /\ cb' = after_allow_request(cb)
    /\ CountProbes(0)
    /\ UNCHANGED <<pc, attempt, streak>>

\* The call is over, for better or worse, with b as the breaker's new attributes.
Finish(c, b) ==
    /\ cb' = b
    /\ pc' = [pc EXCEPT ![c] = "idle"]
    /\ CountProbes(0)
    /\ UNCHANGED attempt

\* The service answers and the caller returns the answer.
Answered(c) ==
    /\ pc[c] = "calling"
    /\ Finish(c, record_success(cb))
    /\ streak' = 0

\* The answer arrives, but reading it raises: recorded as success, then as failure.
AnsweredUnusable(c) ==
    /\ "unusable" \in Faults
    /\ pc[c] = "calling"
    /\ streak < MaxFailures
    /\ Finish(c, record_failure(record_success(cb)))
    /\ streak' = streak + 1

\* A retryable error (429, 5xx) with attempts left: sleep, nothing is recorded.
FailedRetryable(c) ==
    /\ pc[c] = "calling"
    /\ attempt[c] < MaxRetries
    /\ pc' = [pc EXCEPT ![c] = "backoff"]
    /\ UNCHANGED <<cb, attempt, probes, streak>>

\* A retryable error at the last attempt, or an error that is not retryable.
FailedFinally(c) ==
    /\ pc[c] = "calling"
    /\ streak < MaxFailures /\ cb.failure_count < MaxFailures
    /\ Finish(c, record_failure(cb))
    /\ streak' = streak + 1

\* Mutant: the attempt that failed is not counted.
Retry_uncounted(c) ==
    /\ pc[c] = "backoff"
    /\ pc' = [pc EXCEPT ![c] = "calling"]
    /\ UNCHANGED <<cb, attempt, probes, streak>>

\* The backoff sleep is over: the next attempt is sent without asking the breaker.
Retry(c) ==
    /\ pc[c] = "backoff"
    /\ pc' = [pc EXCEPT ![c] = "calling"]
    /\ attempt' = [attempt EXCEPT ![c] = @ + 1]
    /\ UNCHANGED <<cb, probes, streak>>

\* CancelledError at an await: neither success nor failure is recorded.
Cancelled(c) ==
    /\ "cancelled" \in Faults
    /\ pc[c] \in {"calling", "backoff"}
    /\ Finish(c, cb)
    /\ UNCHANGED streak

\* stats() reads the state property, which may move OPEN to HALF_OPEN.
stats ==
    /\ cb' = read_state(cb)
    /\ CountProbes(0)
    /\ UNCHANGED <<pc, attempt, streak>>

\* time.monotonic() advances.
Tick ==
    /\ cb.elapsed # Never
    /\ cb.elapsed < RecoveryTimeout
    /\ cb' = [cb EXCEPT !.elapsed = @ + 1]
    /\ UNCHANGED <<pc, attempt, probes, streak>>

Outcome(c) ==
    \/ Answered(c)
    \/ AnsweredUnusable(c)
    \/ FailedRetryable(c)
    \/ FailedFinally(c)

CallerStep(c) ==
    \/ Admitted(c)
    \/ Rejected(c)
    \/ Outcome(c)
    \/ Retry(c)
    \/ Cancelled(c)

Next ==
    \/ \E c \in Callers : CallerStep(c)
    \/ stats
    \/ Tick

Spec == Init /\ [][Next]_vars

(* The HTTP client times out, so every attempt has an outcome; a sleep     *)
(* ends; the clock advances.  No call is assumed ever to be made.          *)
Fairness ==
    /\ \A c \in Callers : WF_vars(Outcome(c)) /\ WF_vars(Retry(c))
    /\ WF_vars(Tick)

FairSpec == Spec /\ Fairness

-----------------------------------------------------------------------------
(***************************************************************************)
(* Properties                                                              *)
(***************************************************************************)

(* Every attribute of the breaker and every caller's place in the retry    *)
(* loop of OpenAILLM.generate stay in their types.                         *)
TypeOK ==
    /\ cb \in Breaker
    /\ pc \in [Callers -> {"idle", "calling", "backoff"}]
    /\ attempt \in [Callers -> 0..MaxRetries]
    /\ probes \in Nat
    /\ streak \in Nat

(* The breaker is closed exactly while fewer than failure_threshold calls  *)
(* have failed since the last success, whatever the order in which calls   *)
(* admitted before and after it opened report their outcome; and it never  *)
(* counts more failures than calls have raised in a row, so that it opens  *)
(* on failure_threshold of them at least.                                  *)
TripsExactlyAtThreshold ==
    /\ cb.state = "CLOSED" <=> cb.failure_count < FailureThreshold
    /\ cb.failure_count <= streak

(* One half-open episode admits one call: with the probe still on offer    *)
(* none was admitted, with the offer gone exactly one was, and a breaker   *)
(* that is not half open is not counting.                                  *)
OneProbePerEpisode ==
    probes = IF cb.state = "HALF_OPEN" /\ ~cb.half_open_allowed THEN 1 ELSE 0

(* A breaker that is half open has been silent for the whole recovery      *)
(* timeout: a late failure of an older call puts it back to OPEN and       *)
(* restarts the wait.                                                      *)
HalfOpenAfterCooldown ==
    cb.state = "HALF_OPEN" => cb.elapsed = RecoveryTimeout

(* While the breaker has tripped and the recovery timeout since the last   *)
(* recorded failure has not passed, no call gets through allow_request.    *)
NoAdmissionDuringCooldown ==
    [][\A c \in Callers :
         (pc[c] = "idle" /\ pc'[c] = "calling")
            => (cb.failure_count < FailureThreshold
                  \/ cb.elapsed = RecoveryTimeout)]_vars

(* Every guarded call ends: the retry loop is bounded.                     *)
CallsEnd == \A c \in Callers : pc[c] # "idle" ~> pc[c] = "idle"

(* The one call that may close a half-open breaker was cancelled, and no   *)
(* other call is left to report anything.                                  *)
ProbeLost ==
    /\ cb.state = "HALF_OPEN"
    /\ ~cb.half_open_allowed
    /\ \A c \in Callers : pc[c] = "idle"

(* A tripped breaker comes to admit a call again, also when older calls    *)
(* keep failing late, unless a cancelled probe left it without any call.   *)
RecoversUnlessProbeLost ==
    cb.state # "CLOSED" ~> (allow_request(cb) \/ ProbeLost)
=============================================================================
