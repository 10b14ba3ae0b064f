------------------------ MODULE CircuitBreakerProofs ------------------------
(***************************************************************************)
(* TLAPS proofs about CircuitBreaker, for any set of callers, any          *)
(* threshold, timeout and number of retries, and with cancellations and    *)
(* unusable answers allowed.                                               *)
(***************************************************************************)
EXTENDS CircuitBreaker, TLAPS

\* A caller only sleeps when it has an attempt left.
SleepersHaveAttempts ==
    \A c \in Callers : pc[c] = "backoff" => attempt[c] < MaxRetries

\* The part of the inductive invariant that is about the breaker alone.
BreakerInv(b) ==
    /\ b \in Breaker
    /\ b.state = "CLOSED" <=> b.failure_count < FailureThreshold
    /\ b.state = "HALF_OPEN" => b.elapsed = RecoveryTimeout

(* The inductive invariant.  TripsExactlyAtThreshold is not inductive on   *)
(* its own account of the types; HalfOpenAfterCooldown is what makes the   *)
(* admission of a probe late enough; SleepersHaveAttempts keeps the        *)
(* attempt counter in its type.                                            *)
IInv ==
    /\ TypeOK
    /\ BreakerInv(cb)
    /\ OneProbePerEpisode
    /\ SleepersHaveAttempts

(***************************************************************************)
(* The methods of CircuitBreaker preserve what is said of the breaker      *)
(***************************************************************************)

(* Reading the state property keeps the invariant, and leaves an offer     *)
(* behind exactly when it opens a new half-open episode.                   *)
LEMMA ReadStateLemma ==
    ASSUME NEW b, BreakerInv(b)
    PROVE  /\ BreakerInv(read_state(b))
           /\ \/ read_state(b) = b
              \/ /\ b.state = "OPEN"
                 /\ b.elapsed = RecoveryTimeout
                 /\ read_state(b).state = "HALF_OPEN"
                 /\ read_state(b).half_open_allowed
  BY BreakerAssumption DEF read_state, BreakerInv, Breaker, CircuitState, Never

(* allow_request only takes the offer away.                                *)
LEMMA AllowRequestLemma ==
    ASSUME NEW b, BreakerInv(b)
    PROVE  /\ BreakerInv(after_allow_request(b))
           /\ after_allow_request(b).state = read_state(b).state
           /\ after_allow_request(b).state = "HALF_OPEN"
                => ~after_allow_request(b).half_open_allowed
           /\ allow_request(b) =>
                \/ b.state = "CLOSED" /\ after_allow_request(b) = b
                \/ /\ b.state \in {"OPEN", "HALF_OPEN"}
                   /\ b.elapsed = RecoveryTimeout
                   /\ after_allow_request(b).state = "HALF_OPEN"
                   /\ b.state = "HALF_OPEN" => b.half_open_allowed
           /\ ~allow_request(b) =>
                after_allow_request(b) = b /\ b.state # "CLOSED"
  <1> DEFINE r == read_state(b)
             a == after_allow_request(b)
  <1>1. BreakerInv(r) /\ r \in Breaker
    BY ReadStateLemma DEF BreakerInv
  <1>2. a = IF r.state = "HALF_OPEN"
            THEN [r EXCEPT !.half_open_allowed = FALSE] ELSE r
    BY DEF after_allow_request
  <1>3. /\ BreakerInv(a)
        /\ a.state = r.state
        /\ a.state = "HALF_OPEN" => ~a.half_open_allowed
        /\ r.state # "HALF_OPEN" => a = r
        /\ r.state = "HALF_OPEN" /\ ~r.half_open_allowed => a = r
    <2> HIDE DEF r, a
    <2> QED BY <1>1, <1>2 DEF BreakerInv, Breaker, CircuitState
  <1>4. allow_request(b)
          <=> r.state = "CLOSED" \/ (r.state = "HALF_OPEN" /\ r.half_open_allowed)
    BY DEF allow_request
  <1>5. \/ r = b
        \/ /\ b.state = "OPEN" /\ b.elapsed = RecoveryTimeout
           /\ r.state = "HALF_OPEN" /\ r.half_open_allowed
    BY ReadStateLemma
  <1>6. b.state \in {"CLOSED", "OPEN", "HALF_OPEN"}
        /\ (b.state = "HALF_OPEN" => b.elapsed = RecoveryTimeout)
    BY DEF BreakerInv, Breaker, CircuitState
  <1> HIDE DEF r, a
  <1>7. QED BY <1>1, <1>3, <1>4, <1>5, <1>6 DEF r, a, CircuitState

(* record_success closes the breaker.                                      *)
LEMMA RecordSuccessLemma ==
    ASSUME NEW b, BreakerInv(b)
    PROVE  BreakerInv(record_success(b)) /\ record_success(b).state = "CLOSED"
  BY BreakerAssumption DEF record_success, BreakerInv, Breaker, CircuitState

(* record_failure never leaves the breaker half open.                      *)
LEMMA RecordFailureLemma ==
    ASSUME NEW b, BreakerInv(b)
    PROVE  /\ BreakerInv(record_failure(b))
           /\ record_failure(b).state # "HALF_OPEN"
  BY BreakerAssumption DEF record_failure, BreakerInv, Breaker, CircuitState

(***************************************************************************)
(* The invariant                                                           *)
(***************************************************************************)

LEMMA InitIInv == Init => IInv
  BY BreakerAssumption
  DEF Init, IInv, TypeOK, BreakerInv, Breaker, CircuitState, Never,
      OneProbePerEpisode, SleepersHaveAttempts

\* A call that ends leaves the callers' part of the invariant alone.
LEMMA FinishLemma ==
    ASSUME IInv, NEW c \in Callers, NEW b, BreakerInv(b), Finish(c, b),
           b = cb \/ b.state # "HALF_OPEN", streak' \in Nat
    PROVE  IInv'
  <1>1. TypeOK'
    BY DEF IInv, TypeOK, BreakerInv, Finish, CountProbes
  <1>2. BreakerInv(cb)'
    BY DEF Finish, BreakerInv
  <1>3. OneProbePerEpisode'
    BY DEF IInv, TypeOK, OneProbePerEpisode, Finish, CountProbes, Breaker
  <1>4. SleepersHaveAttempts'
    BY DEF IInv, TypeOK, SleepersHaveAttempts, Finish
  <1>5. QED BY <1>1, <1>2, <1>3, <1>4 DEF IInv

LEMMA NextIInv == IInv /\ [Next]_vars => IInv'
  <1> SUFFICES ASSUME IInv, [Next]_vars PROVE IInv'
    OBVIOUS
  <1> USE BreakerAssumption
  <1>0. cb \in Breaker /\ BreakerInv(cb) /\ probes \in Nat /\ streak \in Nat
    BY DEF IInv, TypeOK
  <1>1. ASSUME NEW c \in Callers, Admitted(c) PROVE IInv'
    <2>1. BreakerInv(cb')
      BY <1>0, <1>1, AllowRequestLemma DEF Admitted
    <2>2. TypeOK'
      BY <1>0, <1>1, <2>1 DEF Admitted, IInv, TypeOK, BreakerInv, CountProbes
    <2>3. OneProbePerEpisode'
      <3>1. \/ cb.state = "CLOSED" /\ cb' = cb
            \/ /\ cb.state # "HALF_OPEN" \/ cb.half_open_allowed
               /\ cb'.state = "HALF_OPEN" /\ ~cb'.half_open_allowed
        BY <1>0, <1>1, AllowRequestLemma DEF Admitted
      <3>2. probes' = IF cb'.state = "HALF_OPEN" THEN probes + 1 ELSE 0
        BY <1>1 DEF Admitted, CountProbes
      <3>3. QED BY <1>0, <3>1, <3>2 DEF IInv, OneProbePerEpisode
    <2>4. SleepersHaveAttempts'
      BY <1>1 DEF Admitted, IInv, TypeOK, SleepersHaveAttempts
    <2>5. QED BY <2>1, <2>2, <2>3, <2>4 DEF IInv, BreakerInv
  <1>2. ASSUME NEW c \in Callers, Rejected(c) PROVE IInv'
    <2>1. cb' = cb /\ UNCHANGED <<pc, attempt, streak>>
      BY <1>0, <1>2, AllowRequestLemma DEF Rejected
    <2>2. probes' = probes
      BY <1>0, <1>2, <2>1
      DEF Rejected, CountProbes, IInv, OneProbePerEpisode
    <2>3. QED BY <2>1, <2>2
      DEF IInv, TypeOK, BreakerInv, OneProbePerEpisode, SleepersHaveAttempts
  <1>3. ASSUME NEW c \in Callers, Answered(c) PROVE IInv'
    <2>1. BreakerInv(record_success(cb)) /\ record_success(cb).state # "HALF_OPEN"
      BY <1>0, RecordSuccessLemma
    <2>2. QED BY <1>3, <2>1, FinishLemma DEF Answered
  <1>4. ASSUME NEW c \in Callers, AnsweredUnusable(c) PROVE IInv'
    <2>1. BreakerInv(record_success(cb))
      BY <1>0, RecordSuccessLemma
    <2>2. /\ BreakerInv(record_failure(record_success(cb)))
          /\ record_failure(record_success(cb)).state # "HALF_OPEN"
      BY <2>1, RecordFailureLemma
    <2>3. streak' \in Nat
      BY <1>0, <1>4 DEF AnsweredUnusable
    <2>4. QED BY <1>4, <2>2, <2>3, FinishLemma DEF AnsweredUnusable
  <1>5. ASSUME NEW c \in Callers, FailedRetryable(c) PROVE IInv'
    BY <1>5
    DEF FailedRetryable, IInv, TypeOK, BreakerInv, OneProbePerEpisode,
        SleepersHaveAttempts
  <1>6. ASSUME NEW c \in Callers, FailedFinally(c) PROVE IInv'
    <2>1. BreakerInv(record_failure(cb)) /\ record_failure(cb).state # "HALF_OPEN"
      BY <1>0, RecordFailureLemma
    <2>2. streak' \in Nat
      BY <1>0, <1>6 DEF FailedFinally
    <2>3. QED BY <1>6, <2>1, <2>2, FinishLemma DEF FailedFinally
  <1>7. ASSUME NEW c \in Callers, Retry(c) PROVE IInv'
    BY <1>7
    DEF Retry, IInv, TypeOK, BreakerInv, OneProbePerEpisode,
        SleepersHaveAttempts
  <1>8. ASSUME NEW c \in Callers, Cancelled(c) PROVE IInv'
    BY <1>0, <1>8, FinishLemma DEF Cancelled
  <1>9. CASE stats
    <2>1. BreakerInv(cb')
      BY <1>0, <1>9, ReadStateLemma DEF stats
    <2>2. TypeOK'
      BY <1>0, <1>9, <2>1 DEF stats, IInv, TypeOK, BreakerInv, CountProbes
    <2>3. OneProbePerEpisode'
      BY <1>0, <1>9, ReadStateLemma
      DEF stats, IInv, OneProbePerEpisode, CountProbes
    <2>4. SleepersHaveAttempts'
      BY <1>9 DEF stats, IInv, SleepersHaveAttempts
    <2>5. QED BY <2>1, <2>2, <2>3, <2>4 DEF IInv, BreakerInv
  <1>10. CASE Tick
    <2>1. BreakerInv(cb') /\ cb'.state = cb.state
          /\ cb'.half_open_allowed = cb.half_open_allowed
      BY <1>0, <1>10 DEF Tick, BreakerInv, Breaker, CircuitState, Never
    <2>2. QED BY <1>10, <2>1
      DEF Tick, IInv, TypeOK, BreakerInv, OneProbePerEpisode,
          SleepersHaveAttempts
  <1>11. CASE UNCHANGED vars
    BY <1>11
    DEF vars, IInv, TypeOK, BreakerInv, OneProbePerEpisode,
        SleepersHaveAttempts
  <1>12. QED
    BY <1>1, <1>2, <1>3, <1>4, <1>5, <1>6, <1>7, <1>8, <1>9, <1>10, <1>11
    DEF Next, CallerStep, Outcome

(***************************************************************************)
(* The count of failures                                                   *)
(***************************************************************************)

\* The breaker counts no more failures than calls raised in a row.
CountsAStreak == cb.failure_count <= streak

(* Neither reading the state nor asking for admission changes the count.   *)
LEMMA CountIsKept ==
    ASSUME NEW b, BreakerInv(b)
    PROVE  /\ read_state(b).failure_count = b.failure_count
           /\ after_allow_request(b).failure_count = b.failure_count
  <1> DEFINE r == read_state(b)
  <1>1. r \in Breaker /\ r.failure_count = b.failure_count
    BY BreakerAssumption DEF read_state, BreakerInv, Breaker, CircuitState
  <1>2. after_allow_request(b).failure_count = r.failure_count
    <2>1. after_allow_request(b) = IF r.state = "HALF_OPEN"
              THEN [r EXCEPT !.half_open_allowed = FALSE] ELSE r
      BY DEF after_allow_request
    <2> HIDE DEF r
    <2>2. QED BY <1>1, <2>1 DEF Breaker
  <1>3. QED BY <1>1, <1>2

LEMMA NextCounts == IInv /\ CountsAStreak /\ [Next]_vars => CountsAStreak'
  <1> SUFFICES ASSUME IInv, CountsAStreak, [Next]_vars PROVE CountsAStreak'
    OBVIOUS
  <1>0. BreakerInv(cb) /\ cb.failure_count \in Nat /\ streak \in Nat
    BY DEF IInv, TypeOK, Breaker
  <1>1. ASSUME NEW c \in Callers, Admitted(c) \/ Rejected(c) PROVE CountsAStreak'
    BY <1>0, <1>1, CountIsKept DEF Admitted, Rejected, CountsAStreak
  <1>2. ASSUME NEW c \in Callers, Answered(c) PROVE CountsAStreak'
    BY <1>2 DEF Answered, Finish, record_success, CountsAStreak
  <1>3. ASSUME NEW c \in Callers, AnsweredUnusable(c) PROVE CountsAStreak'
    <2>1. cb' = record_failure(record_success(cb)) /\ streak' = streak + 1
      BY <1>3 DEF AnsweredUnusable, Finish
    <2>2. record_success(cb).failure_count = 0
      BY DEF record_success
    <2>3. record_failure(record_success(cb)).failure_count = 1
      BY <2>2 DEF record_failure
    <2>4. QED BY <1>0, <2>1, <2>3 DEF CountsAStreak
  <1>4. ASSUME NEW c \in Callers, FailedFinally(c) PROVE CountsAStreak'
    BY <1>0, <1>4 DEF FailedFinally, Finish, record_failure, CountsAStreak
  <1>5. ASSUME NEW c \in Callers, FailedRetryable(c) \/ Retry(c) PROVE CountsAStreak'
    BY <1>5 DEF FailedRetryable, Retry, CountsAStreak
  <1>6. ASSUME NEW c \in Callers, Cancelled(c) PROVE CountsAStreak'
    BY <1>6 DEF Cancelled, Finish, CountsAStreak
  <1>7. CASE stats
    BY <1>0, <1>7, CountIsKept DEF stats, CountsAStreak
  <1>8. CASE Tick
    BY <1>0, <1>8 DEF Tick, IInv, TypeOK, Breaker, CountsAStreak
  <1>9. CASE UNCHANGED vars
    BY <1>9 DEF vars, CountsAStreak
  <1>10. QED
    BY <1>1, <1>2, <1>3, <1>4, <1>5, <1>6, <1>7, <1>8, <1>9
    DEF Next, CallerStep, Outcome

LEMMA InvariantHolds == Spec => [](IInv /\ CountsAStreak)
  <1>1. Init => CountsAStreak
    BY DEF Init, CountsAStreak
  <1>2. QED BY <1>1, InitIInv, NextIInv, NextCounts, PTL DEF Spec

(***************************************************************************)
(* The theorems                                                            *)
(***************************************************************************)

(* Types are kept, in particular the attempt counter never exceeds         *)
(* MaxRetries.                                                             *)
THEOREM TypeCorrect == Spec => []TypeOK
  <1>1. IInv => TypeOK
    BY DEF IInv
  <1>2. QED BY <1>1, InvariantHolds, PTL

(* The breaker trips at the threshold, no earlier and no later, and the    *)
(* failures it counts are calls that raised one after another.             *)
THEOREM TripsCorrectly == Spec => []TripsExactlyAtThreshold
  <1>1. IInv /\ CountsAStreak => TripsExactlyAtThreshold
    BY DEF IInv, BreakerInv, TripsExactlyAtThreshold, CountsAStreak
  <1>2. QED BY <1>1, InvariantHolds, PTL

(* However many callers ask at once, one half-open episode admits one.     *)
THEOREM ProbesAreSingle == Spec => []OneProbePerEpisode
  <1>1. IInv => OneProbePerEpisode
    BY DEF IInv
  <1>2. QED BY <1>1, InvariantHolds, PTL

(* The half-open state is only ever seen after a full recovery timeout.    *)
THEOREM CooldownBeforeHalfOpen == Spec => []HalfOpenAfterCooldown
  <1>1. IInv => HalfOpenAfterCooldown
    BY DEF IInv, BreakerInv, HalfOpenAfterCooldown
  <1>2. QED BY <1>1, InvariantHolds, PTL

(* No step admits a caller to a tripped breaker during the cooldown.       *)
THEOREM CooldownIsRespected == Spec => NoAdmissionDuringCooldown
  <1> DEFINE Late == \A c \in Callers :
                (pc[c] = "idle" /\ pc'[c] = "calling")
                   => (cb.failure_count < FailureThreshold
                         \/ cb.elapsed = RecoveryTimeout)
  <1>1. ASSUME IInv, [Next]_vars PROVE [Late]_vars
    <2> SUFFICES ASSUME NEW c \in Callers, pc[c] = "idle", pc'[c] = "calling",
                        Next
                 PROVE  cb.failure_count < FailureThreshold
                          \/ cb.elapsed = RecoveryTimeout
      BY <1>1 DEF vars
    <2>1. pc \in [Callers -> {"idle", "calling", "backoff"}]
      BY <1>1 DEF IInv, TypeOK
    <2>2. Admitted(c)
      <3>1. ~stats /\ ~Tick
        BY DEF stats, Tick
      <3>2. PICK d \in Callers : CallerStep(d)
        BY <3>1 DEF Next
      <3>3. ~Rejected(d)
        BY DEF Rejected
      <3>4. ~Outcome(d) /\ ~Retry(d) /\ ~Cancelled(d)
        BY <2>1 DEF Outcome, Answered, AnsweredUnusable, FailedRetryable,
                    FailedFinally, Retry, Cancelled, Finish
      <3>5. Admitted(d)
        BY <3>2, <3>3, <3>4 DEF CallerStep
      <3>6. QED BY <2>1, <3>5 DEF Admitted
    <2>3. QED BY <1>1, <2>2, AllowRequestLemma DEF Admitted, IInv, BreakerInv
  <1>2. QED BY <1>1, InvariantHolds, PTL DEF Spec, NoAdmissionDuringCooldown
=============================================================================
