--------------------------- MODULE CircuitBreaker ---------------------------
(***************************************************************************)
(* The circuit breaker that guards one upstream replica                    *)
(* (src/router/circuit-breaker.ts), as operators on its record of fields.  *)
(* McpClient drives one breaker with concurrent calls; ReplicaRouting      *)
(* drives one breaker per replica.                                         *)
(*                                                                         *)
(* "since" is Date.now() - lastFailureTime in clock ticks; canExecute only *)
(* compares it with reset_timeout_ms, so it saturates at ResetTimeout.     *)
(* tripCount is reported by the admin API and read by no guard: left out.  *)
(***************************************************************************)
EXTENDS Naturals

CONSTANTS
    FailureThreshold,   \* failure_threshold (validated > 0 by config/schema.ts)
    ResetTimeout,       \* reset_timeout_ms, in ticks
    HalfOpenMax,        \* half_open_max_requests (not validated)
    SuccessThreshold    \* success_threshold (not validated)

ASSUME ThresholdAssumption ==
    /\ FailureThreshold \in Nat \ {0}
    /\ ResetTimeout \in Nat
    /\ HalfOpenMax \in Nat
    /\ SuccessThreshold \in Nat

BreakerType ==
    [state : {"closed", "open", "half-open"},
     failures : Nat,
     successes : Nat,
     probes : Nat,               \* halfOpenRequests
     since : 0..ResetTimeout]

\* The fields a new CircuitBreaker starts with: lastFailureTime is the epoch.
NewBreaker ==
    [state |-> "closed", failures |-> 0, successes |-> 0, probes |-> 0,
     since |-> ResetTimeout]

\* reset(): the administrator forces the circuit closed.
Reset(b) == NewBreaker

\* One tick of the clock.
Age(b) == IF b.since < ResetTimeout THEN [b EXCEPT !.since = @ + 1] ELSE b

----------------------------------------------------------------------------
\* The breaker canExecute() inspects: OPEN becomes HALF-OPEN once the reset
\* timeout has elapsed, with no probe admitted and no success counted yet.
Ripen(b) ==
    IF b.state = "open" /\ b.since >= ResetTimeout
    THEN [b EXCEPT !.state = "half-open", !.probes = 0, !.successes = 0]
    ELSE b

\* canExecute() returns true.
CanExecute(b) ==
    \/ b.state = "closed"
    \/ Ripen(b).state = "half-open" /\ Ripen(b).probes < HalfOpenMax

\* The breaker canExecute() leaves: a half-open admission occupies a slot.
Executed(b) ==
    IF Ripen(b).state = "half-open" /\ CanExecute(b)
    THEN [Ripen(b) EXCEPT !.probes = @ + 1]
    ELSE Ripen(b)

\* Seeded faults of onSuccess(), each the breaker one plausible bug leaves.
SlotNotReleased(b) ==
    IF b.state = "half-open" /\ b.successes + 1 < SuccessThreshold
    THEN [b EXCEPT !.successes = @ + 1]
    ELSE Reset(b)

SlotUnguarded(b) ==
    IF b.state = "half-open" /\ b.successes + 1 < SuccessThreshold
    THEN [b EXCEPT !.successes = @ + 1, !.probes = @ - 1]
    ELSE b

LateSuccessCloses(b) == Reset(b)

\* onSuccess(): whichever call succeeds while the circuit is half-open
\* releases a slot and counts towards closing it.
Succeeded(b) ==
    CASE b.state = "closed" -> [b EXCEPT !.failures = 0]
      [] b.state = "open" -> b
      [] b.state = "half-open" ->
           IF b.successes + 1 >= SuccessThreshold
           THEN [b EXCEPT !.state = "closed", !.failures = 0,
                          !.successes = 0, !.probes = 0]
           ELSE [b EXCEPT !.successes = @ + 1,
                          !.probes = IF @ > 0 THEN @ - 1 ELSE 0]

\* Seeded fault of onFailure(): reopening keeps the episode's counters.
ReopenKeepsCounters(b) == [b EXCEPT !.state = "open", !.since = 0]

\* onFailure(): a failure always restarts the reset timeout, also when the
\* circuit is already open.
Failed(b) ==
    CASE b.state = "closed" ->
           [b EXCEPT !.failures = @ + 1, !.since = 0,
                     !.state = IF b.failures + 1 >= FailureThreshold
                               THEN "open" ELSE "closed"]
      [] b.state = "open" -> [b EXCEPT !.since = 0]
      [] b.state = "half-open" ->
           [b EXCEPT !.state = "open", !.since = 0,
                     !.successes = 0, !.probes = 0]

\* What getHealthyReplicas and checkServerHealth read through getState().
IsOpen(b) == b.state = "open"
=============================================================================
