-------------------------- MODULE BreakerContract ---------------------------
(***************************************************************************)
(* What the circuit breaker promises the gateway, without its counters and *)
(* its clock (the state machine in the header of                           *)
(* src/router/circuit-breaker.ts, lines 4-8): calls are admitted in every  *)
(* mode but OPEN, only a failure opens the circuit, only a success of a    *)
(* half-open circuit or the administrator closes it.                       *)
(***************************************************************************)
CONSTANT Calls

VARIABLES mode, inFlight

vars == <<mode, inFlight>>

Init == mode = "closed" /\ inFlight = {}

\* A call goes out; the first one after the reset timeout turns OPEN into
\* HALF-OPEN, and no call goes out of an OPEN circuit that stays open.
Admit(c) ==
    /\ c \notin inFlight
    /\ mode' = IF mode = "open" THEN "half-open" ELSE mode
    /\ inFlight' = inFlight \union {c}

\* A refused call may only be the one that finds the reset timeout elapsed.
Refuse ==
    /\ mode = "open"
    /\ mode' = "half-open"
    /\ UNCHANGED inFlight

Succeed(c) ==
    /\ c \in inFlight
    /\ inFlight' = inFlight \ {c}
    /\ \/ mode' = mode
       \/ mode = "half-open" /\ mode' = "closed"

\* A failure opens a half-open circuit at once, a closed one at its threshold.
Fail(c) ==
    /\ c \in inFlight
    /\ inFlight' = inFlight \ {c}
    /\ \/ mode' = "open"
       \/ mode = "closed" /\ mode' = "closed"

AdminReset ==
    /\ mode' = "closed"
    /\ UNCHANGED inFlight

Next ==
    \/ \E c \in Calls : Admit(c) \/ Succeed(c) \/ Fail(c)
    \/ Refuse
    \/ AdminReset

Spec == Init /\ [][Next]_vars
=============================================================================
