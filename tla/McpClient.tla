------------------------------ MODULE McpClient ------------------------------
(***************************************************************************)
(* forward() of an upstream client (src/proxy/mcp-client.ts; the method is *)
(* the same in src/proxy/stdio-mcp-client.ts): concurrent calls share one  *)
(* circuit breaker.  A call asks the breaker once, when it starts, and     *)
(* tells it the outcome when the upstream answers, however late: by then   *)
(* other calls may have tripped, ripened or closed the circuit.            *)
(* activeConnections is the number of calls in flight: every path out of   *)
(* forward() passes its finally block, so it needs no variable.            *)
(***************************************************************************)
EXTENDS CircuitBreaker, FiniteSets

CONSTANT Calls          \* the callers that may be in forward() at one time

ASSUME CallsAssumption == IsFiniteSet(Calls)

VARIABLES
    circuit,            \* the client's circuit breaker
    caller              \* where each caller is, see CallState

clientVars == <<circuit, caller>>

\* "inFlight" and "probe" calls both await the upstream.  A call admitted by
\* a half-open circuit is a "probe" until the circuit leaves that half-open
\* episode.  The code does not tell the two apart: the label is history.
CallState == {"idle", "inFlight", "probe"}

InFlight == {c \in Calls : caller[c] # "idle"}
Probing == {c \in Calls : caller[c] = "probe"}

ClientInit ==
    /\ circuit = NewBreaker
    /\ caller = [c \in Calls |-> "idle"]

\* The callers' labels once the breaker has become b: leaving HALF-OPEN ends
\* the episode of every probe still out.
Labelled(calls, b) ==
    [c \in Calls |-> IF calls[c] = "probe" /\ b.state # "half-open"
                     THEN "inFlight" ELSE calls[c]]

----------------------------------------------------------------------------
\* canExecute() returned true: the request goes to the upstream.
Admit(c) ==
    /\ caller[c] = "idle"
    /\ CanExecute(circuit)
    /\ circuit' = Executed(circuit)
    /\ caller' = [caller EXCEPT ![c] = IF Executed(circuit).state = "half-open"
                                       THEN "probe" ELSE "inFlight"]

\* canExecute() returned false: forward() throws at once.
Refuse(c) ==
    /\ caller[c] = "idle"
    /\ ~CanExecute(circuit)
    /\ circuit' = Executed(circuit)
    /\ UNCHANGED caller

\* _doForward returned a response, whatever its HTTP status.
Answer(c) ==
    /\ caller[c] # "idle"
    /\ circuit' = Succeeded(circuit)
    /\ caller' = Labelled([caller EXCEPT ![c] = "idle"], circuit')

\* _doForward threw: connection refused, timeout, or a body that is not JSON.
Throw(c) ==
    /\ caller[c] # "idle"
    /\ circuit' = Failed(circuit)
    /\ caller' = Labelled([caller EXCEPT ![c] = "idle"], circuit')

\* POST /conduit/circuits/:serverId/reset, calls in flight or not.
ResetCircuit ==
    /\ circuit' = Reset(circuit)
    /\ caller' = Labelled(caller, circuit')

\* Time passes.
ClientTick ==
    /\ circuit.since < ResetTimeout
    /\ circuit' = Age(circuit)
    /\ UNCHANGED caller

ClientNext ==
    \/ \E c \in Calls : Admit(c) \/ Refuse(c) \/ Answer(c) \/ Throw(c)
    \/ ResetCircuit
    \/ ClientTick

ClientSpec == ClientInit /\ [][ClientNext]_clientVars

\* Time passes, and every call ends: fetch() aborts after timeout_ms when no
\* header has come, the HTTP stack ends a body that stalls, and a stdio
\* request has its own timer.  Nothing makes a caller call or an administrator
\* reset the circuit.
ClientFairness ==
    /\ WF_clientVars(ClientTick)
    /\ \A c \in Calls : WF_clientVars(Answer(c) \/ Throw(c))

ClientFairSpec == ClientSpec /\ ClientFairness

----------------------------------------------------------------------------
ClientTypeOK ==
    /\ circuit \in BreakerType
    /\ caller \in [Calls -> CallState]

\* No half-open slot leaks: every occupied slot belongs to a probe of this
\* episode that is still out and will release it (circuit-breaker.ts 82-89),
\* so a half-open circuit is never full with nobody left to empty it.
SlotsHeld == circuit.probes <= Cardinality(Probing)

\* The counters never carry evidence from one mode into another: a closed
\* circuit is below its failure threshold, a half-open one is below its
\* success threshold and within its slots, and neither probes nor successes
\* survive the end of an episode (circuit-breaker.ts 62-66, 99-107, 137-139).
EvidenceScoped ==
    /\ circuit.state = "closed" => circuit.failures < FailureThreshold
    /\ circuit.state = "half-open" =>
          /\ circuit.probes <= HalfOpenMax
          /\ circuit.successes = 0 \/ circuit.successes < SuccessThreshold
    /\ circuit.state # "half-open" => circuit.probes = 0 /\ circuit.successes = 0

\* A circuit that refuses calls comes back to admitting them by itself, with
\* no help from the administrator, when nobody calls but those in flight end.
Recoverable == ~CanExecute(circuit) ~> CanExecute(circuit)

\* The counters and the clock implement the breaker's contract.
ClientContract == INSTANCE BreakerContract
                      WITH mode <- circuit.state, inFlight <- InFlight

ImplementsContract == ClientContract!Spec
=============================================================================
