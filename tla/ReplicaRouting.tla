--------------------------- MODULE ReplicaRouting ---------------------------
(***************************************************************************)
(* How calls find a replica of one server: ConduitRouter.selectReplica     *)
(* (src/router/router.ts), the replica part of ServerRegistry              *)
(* (src/router/registry.ts) and the pipeline, which selects a replica when *)
(* a call arrives, awaits quotas, limits, hooks and caches, and only then  *)
(* forwards (src/gateway/pipeline.ts).                                     *)
(*                                                                         *)
(* Each replica has a circuit breaker and a health record.  Three kinds of *)
(* callers drive them: client requests, the periodic health checks, and    *)
(* the tools/list of refreshServer.  A check of an HTTP replica is a bare  *)
(* fetch that bypasses the breaker; one of a stdio replica goes through    *)
(* forward() like a request.                                               *)
(***************************************************************************)
EXTENDS CircuitBreaker, FiniteSets

CONSTANTS
    NumReplicas,        \* the server's url and its "replicas"
    Requests,           \* client calls in the pipeline at one time
    UnhealthyThreshold, \* health_check.unhealthy_threshold
    HealthyThreshold,   \* health_check.healthy_threshold
    Transports,         \* the values of "transport" to consider
    Strategies,         \* the values of "load_balancing" to consider
    MaxChecks,          \* bound: checks of one replica under way at one time
    CounterPeriod       \* bound: the round-robin counter is kept modulo this

ASSUME RoutingAssumption ==
    /\ NumReplicas \in Nat \ {0}
    /\ IsFiniteSet(Requests) /\ "refresh" \notin Requests
    /\ UnhealthyThreshold \in Nat \ {0}
    /\ HealthyThreshold \in Nat
    /\ Transports \subseteq {"http", "stdio"}
    /\ Strategies \subseteq {"round-robin", "least-connections"}
    /\ MaxChecks \in Nat \ {0}
    \* The counter only matters modulo the size of the set it indexes.
    /\ CounterPeriod \in Nat \ {0}
    /\ \A n \in 1..NumReplicas : CounterPeriod % n = 0

Replicas == 1..NumReplicas
Primary == 1

\* refreshServer is one more caller; it always uses the primary's client.
Callers == Requests \union {"refresh"}

VARIABLES
    transport,  \* the server's transport, fixed by its configuration
    strategy,   \* the router's load balancing strategy, fixed likewise
    breaker,    \* breaker[r]: the circuit breaker of replica r
    health,     \* health[r]: the health record of replica r
    call,       \* call[q]: where caller q is, and with which replica
    checking,   \* checking[r]: the health checks of r that await an answer
    counter,    \* the round-robin counter
    passed,     \* history: those selected since replica r last was
    calm        \* from now on every call is answered, and every check before
                \* the next one is made

vars == <<transport, strategy, breaker, health, call, checking, counter,
          passed, calm>>
config == <<transport, strategy>>

\* Both counters are only compared with their threshold: they saturate there.
HealthType ==
    [healthy : BOOLEAN, failures : 0..UnhealthyThreshold,
     successes : 0..HealthyThreshold]

Idle == [phase |-> "idle", replica |-> Primary]
CallType == [phase : {"idle", "selected", "sent"}, replica : Replicas]

Init ==
    /\ transport \in Transports
    /\ strategy \in Strategies
    /\ breaker = [r \in Replicas |-> NewBreaker]
    /\ health = [r \in Replicas |->
                    [healthy |-> TRUE, failures |-> 0, successes |-> 0]]
    /\ call = [q \in Callers |-> Idle]
    /\ checking = [r \in Replicas |-> 0]
    /\ counter = 0
    /\ passed = [r \in Replicas |-> Replicas]
    /\ calm = FALSE

----------------------------------------------------------------------------
(* Selection.                                                              *)

\* getHealthyReplicas(): the open breakers are left out without asking them.
RoutableIn(h, b) == {r \in Replicas : h[r].healthy /\ ~IsOpen(b[r])}
Routable == RoutableIn(health, breaker)

\* The calls and the checks in forward() with replica r.
Sent(r) == {q \in Callers : call[q].phase = "sent" /\ call[q].replica = r}
ChecksSent(r) == IF transport = "stdio" THEN checking[r] ELSE 0

\* client.activeConnections
Connections(r) == Cardinality(Sent(r)) + ChecksSent(r)

\* The element of S with k smaller ones.
Nth(S, k) == CHOOSE r \in S : Cardinality({x \in S : x < r}) = k

LeastLoaded(S) ==
    CHOOSE r \in S : \A x \in S \ {r} :
        \/ Connections(r) < Connections(x)
        \/ Connections(r) = Connections(x) /\ r < x

\* selectReplica(), which has found Routable not empty.
Selected ==
    IF strategy = "least-connections"
    THEN LeastLoaded(Routable)
    ELSE Nth(Routable, counter % Cardinality(Routable))

\* Seeded fault: two lookups per call, each of which advances the counter.
CounterAdvancedTwice == IF strategy = "round-robin" THEN 2 ELSE 0

\* How far one lookup advances the round-robin counter.
CounterAdvanced == IF strategy = "round-robin" THEN 1 ELSE 0

\* A selection of r counts for all the others; r's own count starts afresh.
PassedAfter(r) ==
    [x \in Replicas |-> IF x = r THEN {} ELSE passed[x] \union {r}]

\* Nothing is asked of the selections around a change of the routable set.
PassedKept ==
    passed' = IF RoutableIn(health', breaker') = Routable THEN passed
              ELSE [r \in Replicas |-> Replicas]

----------------------------------------------------------------------------
(* A client request.                                                       *)

\* getClientForServer picks the replica when the call arrives.  A call that
\* finds none is answered at once and changes nothing here.
Select(q) ==
    /\ call[q].phase = "idle"
    /\ Routable # {}
    /\ call' = [call EXCEPT ![q] = [phase |-> "selected", replica |-> Selected]]
    /\ counter' = (counter + CounterAdvanced) % CounterPeriod
    /\ passed' = PassedAfter(Selected)
    /\ UNCHANGED <<config, breaker, health, checking, calm>>

\* A later step of the pipeline answers the call itself: a limit, a hook, a
\* cached reply.
AnswerEarly(q) ==
    /\ call[q].phase = "selected"
    /\ call' = [call EXCEPT ![q] = Idle]
    /\ UNCHANGED <<config, breaker, health, checking, counter, passed, calm>>

\* Seeded fault: trusting the selection, forward() does not ask again.
MayForwardUnasked(b) == TRUE

\* forward() asks the breaker of the replica picked earlier.
MayForward(b) == CanExecute(b)

Forward(q) ==
    LET r == call[q].replica IN
    /\ call[q].phase = "selected"
    /\ breaker' = [breaker EXCEPT ![r] = Executed(@)]
    /\ call' = [call EXCEPT ![q] = IF MayForward(breaker[r])
                                   THEN [@ EXCEPT !.phase = "sent"] ELSE Idle]
    /\ UNCHANGED <<config, health, checking, counter, calm>>
    /\ PassedKept

\* The upstream answers, and forward() tells the breaker.
Answered(q) ==
    /\ call[q].phase = "sent"
    /\ breaker' = [breaker EXCEPT ![call[q].replica] = Succeeded(@)]
    /\ call' = [call EXCEPT ![q] = Idle]

Succeed(q) ==
    /\ Answered(q)
    /\ UNCHANGED <<config, health, checking, counter, calm>>
    /\ PassedKept

\* The connection fails, the timeout aborts it, or the reply is not JSON.
Fail(q) ==
    /\ call[q].phase = "sent"
    /\ ~calm
    /\ breaker' = [breaker EXCEPT ![call[q].replica] = Failed(@)]
    /\ call' = [call EXCEPT ![q] = Idle]
    /\ UNCHANGED <<config, health, checking, counter, calm>>
    /\ PassedKept

----------------------------------------------------------------------------
(* refreshServer: at startup, and by POST /servers/:id/refresh.            *)

\* The primary's client is taken from the clients map, healthy or not; when
\* the breaker refuses, no replica's health changes.
StartRefresh ==
    /\ call["refresh"].phase = "idle"
    /\ breaker' = [breaker EXCEPT ![Primary] = Executed(@)]
    /\ call' = [call EXCEPT !["refresh"] =
                   IF MayForward(breaker[Primary])
                   THEN [phase |-> "sent", replica |-> Primary] ELSE @]
    /\ UNCHANGED <<config, health, checking, counter, calm>>
    /\ PassedKept

\* tools/list returned the tools: one success makes the primary healthy.
RefreshListed ==
    /\ Answered("refresh")
    /\ health' = [health EXCEPT ![Primary] =
                     [healthy |-> TRUE, failures |-> 0,
                      successes |-> IF HealthyThreshold > 0 THEN 1 ELSE 0]]
    /\ UNCHANGED <<config, checking, counter, calm>>
    /\ PassedKept

----------------------------------------------------------------------------
(* The periodic health checks.                                             *)

\* Seeded fault: a pass clears the failures and never restores the replica.
PassedNeverRestores(h) == [h EXCEPT !.failures = 0]

\* The record after a check the replica passed, and after one it failed.
Passed(h) ==
    [healthy |-> h.healthy \/ h.successes + 1 >= HealthyThreshold,
     failures |-> 0,
     successes |-> IF h.successes < HealthyThreshold
                   THEN h.successes + 1 ELSE HealthyThreshold]

Missed(h) ==
    [healthy |-> h.failures + 1 < UnhealthyThreshold,
     failures |-> IF h.failures < UnhealthyThreshold
                  THEN h.failures + 1 ELSE UnhealthyThreshold,
     successes |-> 0]

\* A round of checks does not wait for the one before it: the checks of a
\* replica overlap when a check takes longer than the interval.
MayCheck(r) == checking[r] < (IF calm THEN 1 ELSE MaxChecks)

CheckHttp(r) ==
    /\ transport = "http"
    /\ MayCheck(r)
    /\ checking' = [checking EXCEPT ![r] = @ + 1]
    /\ UNCHANGED <<config, breaker, health, call, counter, passed, calm>>

CheckStdio(r) ==
    /\ transport = "stdio"
    /\ MayCheck(r)
    /\ MayForward(breaker[r])
    /\ breaker' = [breaker EXCEPT ![r] = Executed(@)]
    /\ checking' = [checking EXCEPT ![r] = @ + 1]
    /\ UNCHANGED <<config, health, call, counter, calm>>
    /\ PassedKept

\* forward() throws at once: a refused check counts as one the replica failed.
CheckRefused(r) ==
    /\ transport = "stdio"
    /\ MayCheck(r)
    /\ ~MayForward(breaker[r])
    /\ breaker' = [breaker EXCEPT ![r] = Executed(@)]
    /\ health' = [health EXCEPT ![r] = Missed(@)]
    /\ UNCHANGED <<config, call, checking, counter, calm>>
    /\ PassedKept

\* Seeded faults: a bare fetch tells the breaker, forward() does not.
ToldByFetch(r, b) == [breaker EXCEPT ![r] = b]
ToldNever(r, b) == breaker

\* The breaker hears of a check only when forward() made it.
Told(r, b) == [breaker EXCEPT ![r] = IF transport = "stdio" THEN b ELSE @]

CheckPassed(r) ==
    /\ checking[r] > 0
    /\ checking' = [checking EXCEPT ![r] = @ - 1]
    /\ breaker' = Told(r, Succeeded(breaker[r]))
    /\ health' = [health EXCEPT ![r] = Passed(@)]
    /\ UNCHANGED <<config, call, counter, calm>>
    /\ PassedKept

\* Of two overlapping checks of a stdio replica, which share one JSON-RPC id,
\* the first is left to its timer.
CheckMissed(r) ==
    /\ checking[r] > (IF ~calm THEN 0 ELSE IF transport = "stdio" THEN 1 ELSE MaxChecks)
    /\ checking' = [checking EXCEPT ![r] = @ - 1]
    /\ breaker' = Told(r, Failed(breaker[r]))
    /\ health' = [health EXCEPT ![r] = Missed(@)]
    /\ UNCHANGED <<config, call, counter, calm>>
    /\ PassedKept

----------------------------------------------------------------------------
(* The administrator, time, and the upstreams.                             *)

\* resetCircuitBreaker (all replicas) and resetReplicaCircuitBreaker (one).
AdminReset(R) ==
    /\ breaker' = [r \in Replicas |->
                      IF r \in R THEN Reset(breaker[r]) ELSE breaker[r]]
    /\ UNCHANGED <<config, health, call, checking, counter, calm>>
    /\ PassedKept

Tick ==
    /\ \E r \in Replicas : breaker[r].since < ResetTimeout
    /\ breaker' = [r \in Replicas |-> Age(breaker[r])]
    /\ UNCHANGED <<config, health, call, checking, counter, passed, calm>>

Calm ==
    /\ ~calm
    /\ calm' = TRUE
    /\ UNCHANGED <<config, breaker, health, call, checking, counter, passed>>

Next ==
    \/ \E q \in Requests : Select(q) \/ AnswerEarly(q) \/ Forward(q)
    \/ \E q \in Callers : Succeed(q) \/ Fail(q)
    \/ StartRefresh \/ RefreshListed
    \/ \E r \in Replicas : CheckHttp(r) \/ CheckStdio(r) \/ CheckRefused(r)
                           \/ CheckPassed(r) \/ CheckMissed(r)
    \/ \E r \in Replicas : AdminReset({r})
    \/ AdminReset(Replicas)
    \/ Tick
    \/ Calm

Spec == Init /\ [][Next]_vars

\* Time passes, the health check interval keeps firing, and every forward()
\* and every fetch() of a check ends.  Nothing makes a client call, an
\* upstream recover, or an administrator act.
Fairness ==
    /\ WF_vars(Tick)
    /\ \A q \in Requests : WF_vars(Succeed(q) \/ Fail(q))
    /\ WF_vars(Succeed("refresh") \/ Fail("refresh") \/ RefreshListed)
    /\ \A r \in Replicas :
          /\ WF_vars(CheckHttp(r) \/ CheckStdio(r) \/ CheckRefused(r))
          /\ WF_vars(CheckPassed(r) \/ CheckMissed(r))

FairSpec == Spec /\ Fairness

----------------------------------------------------------------------------
TypeOK ==
    /\ transport \in Transports
    /\ strategy \in Strategies
    /\ breaker \in [Replicas -> BreakerType]
    /\ health \in [Replicas -> HealthType]
    /\ call \in [Callers -> CallType]
    /\ checking \in [Replicas -> 0..MaxChecks]
    /\ counter \in 0..CounterPeriod - 1
    /\ passed \in [Replicas -> SUBSET Replicas]
    /\ calm \in BOOLEAN

\* Round-robin is a rotation: between two selections of a replica every other
\* routable one is selected, as long as the routable set stays the same, even
\* though calls wait between selection and forwarding and overtake each other
\* (router.ts 90-94; the comment in pipeline.ts warns of a second lookup).
RotationFair ==
    [][\A q \in Requests :
          /\ strategy = "round-robin"
          /\ call[q].phase = "idle" /\ call'[q].phase = "selected"
          => Routable \ {call'[q].replica} \subseteq passed[call'[q].replica]]_vars

\* The selection may be stale when the call is forwarded: others may have
\* opened the breaker in between.  No call reaches a replica whose breaker is
\* open and has not waited its reset timeout (mcp-client.ts 67-72).
NoBlindForward ==
    [][\A r \in Replicas :
          IsOpen(breaker[r]) /\ breaker[r].since < ResetTimeout =>
             Sent(r)' \subseteq {q \in Callers : call[q].phase = "sent"}]_vars

\* Calls in forward(): those of the callers in S, and n health checks.
Tagged(S, n) == {<<q, 0>> : q \in S} \union {<<"check", i>> : i \in 1..n}

\* The calls the breaker of replica r has admitted and not heard of yet.
InForward(r) == Tagged(Sent(r), ChecksSent(r))

\* Requests, health checks and refreshes together use each replica's breaker
\* as its contract demands (mcp-client.ts 67-72, registry.ts 503-546), and
\* leave every record well formed.
Contract(r) == INSTANCE BreakerContract
                  WITH Calls <- Tagged(Callers, MaxChecks),
                       mode <- breaker[r].state, inFlight <- InForward(r)

ImplementsContracts ==
    /\ []TypeOK
    /\ \A r \in Replicas : Contract(r)!Init
    /\ [][\A r \in Replicas : [Contract(r)!Next]_(Contract(r)!vars)]_vars

\* Once the upstreams answer, the health checks alone make the health record of
\* every replica good again, and every replica of a stdio server routable,
\* whatever the calls in flight find (registry.ts 426-546).
Recovers ==
    calm ~> [](/\ \A r \in Replicas : health[r].healthy
               /\ transport = "stdio" => Routable = Replicas)
=============================================================================
