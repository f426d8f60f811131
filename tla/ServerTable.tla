---------------------------- MODULE ServerTable ----------------------------
(***************************************************************************)
(* Who serves what: the registry, the clients map, config.servers and the  *)
(* name map, and everything that adds or removes servers while the gateway *)
(* runs: hot reload (src/gateway/gateway.ts), discovery (src/discovery),   *)
(* and the admin API (src/admin/routes.ts).                                *)
(*                                                                         *)
(* Every operation runs on the one JavaScript thread and lets others run   *)
(* where it awaits.  A worker is one operation in progress; at = "run"     *)
(* means that it holds the thread.                                         *)
(***************************************************************************)
EXTENDS Namespace

CONSTANTS
    Server,     \* ids of servers
    Worker,     \* operations that may be in progress at one time
    Tool,       \* what every server offers once it has answered tools/list
    Strategy,   \* router.namespace_strategy
    MaxCopies,  \* config.servers is counted up to here: so often or more
    MaxSeen,    \* registrations the HTTP backend has room for
    None

Entry == [healthy : BOOLEAN, tools : SUBSET Tool]

ASSUME ServerTableAssumption ==
    /\ Strategy \in Strategies
    /\ MaxCopies \in Nat \ {0} /\ MaxSeen \in Nat
    /\ None \notin Server \union Entry

VARIABLES
    file,       \* the ids in the configuration file
    config,     \* config[s]: how often config.servers names s
    fresh,      \* config.servers is still the array discovery was given
    captured,   \* if not: the ids in the array it was given
    servers,    \* the registry: servers[s] is an entry or None
    clients,    \* clients[s]: none, the replica's "own", or an "other" one
    routes,     \* namespaceMap
    seen,       \* registrations of the HTTP backend: none, live, stale
    managed,    \* managedServerIds
    touched,    \* history: ids an administrator has deleted or replaced
    worker

vars == <<file, config, fresh, captured, servers, clients, routes, seen,
          managed, touched, worker>>
tables == <<config, fresh, captured, servers, clients, routes, managed, touched>>
outside == <<file, seen>>

Operation ==
    [at : {"idle", "run", "list", "poll", "check", "refresh"},
     op : {"none", "reload", "reconcile", "import", "refresh"},
     load : SUBSET Server, todo : SUBSET Server, failed : SUBSET Server,
     cur : Server \union {None}, holds : BOOLEAN, alone : BOOLEAN]

Idle == [at |-> "idle", op |-> "none", load |-> {}, todo |-> {}, cur |-> None,
         holds |-> FALSE, alone |-> FALSE, failed |-> {}]

Registered == {s \in Server : servers[s] # None}
Configured == {s \in Server : config[s] > 0}

\* staticIds, as the discovery manager computes it.
Static == IF fresh THEN Configured ELSE captured

\* No operation is between two awaits.
Free == \A w \in Worker : worker[w].at # "run"

----------------------------------------------------------------------------
(* The registry.                                                           *)

\* Seeded fault: the map is not rebuilt when a server goes.
NotRebuilt(table) == routes

\* rebuildNamespaceMap: from the healthy servers; on a conflict the old map
\* stays.
Rebuilt(table) ==
    LET up == {s \in Server : table[s] # None /\ table[s].healthy}
        tools == [s \in up |-> table[s].tools]
    IN  IF CanMap(tools, Strategy) THEN RoutesOf(tools, Strategy) ELSE routes

Without(gone) == [s \in Server |-> IF s \in gone THEN None ELSE servers[s]]

\* removeServer, for every server of gone, and the deletion of their clients.
Remove(gone) ==
    /\ servers' = Without(gone)
    /\ clients' = [s \in Server |-> IF s \in gone THEN "none" ELSE clients[s]]
    /\ routes' = Rebuilt(Without(gone))

\* Workers that await tools/list of a removed server hold an entry that is no
\* longer in the registry.
Orphaned(gone) ==
    [w \in Worker |-> IF worker[w].cur \in gone
                      THEN [worker[w] EXCEPT !.holds = FALSE] ELSE worker[w]]

\* addServer up to its await, for a server that is not registered.
Register(s) ==
    /\ servers' = [servers EXCEPT ![s] = [healthy |-> FALSE, tools |-> {}]]
    /\ clients' = [clients EXCEPT ![s] = "own"]

\* refreshServer after its await, for an entry still in the registry.
Refreshed(w, ok) ==
    IF ~worker[w].holds THEN servers
    ELSE [servers EXCEPT ![worker[w].cur] =
             [healthy |-> ok, tools |-> IF ok THEN Tool ELSE @.tools]]

----------------------------------------------------------------------------
Init ==
    /\ file \in SUBSET Server
    /\ config = [s \in Server |-> IF s \in file THEN 1 ELSE 0]
    /\ fresh = TRUE /\ captured = {}
    /\ \E up \in SUBSET file :
          servers = [s \in Server |->
              IF s \notin file THEN None
              ELSE [healthy |-> s \in up, tools |-> IF s \in up THEN Tool ELSE {}]]
    /\ clients = [s \in Server |-> IF s \in file THEN "own" ELSE "none"]
    /\ routes = RoutesOf([s \in {r \in file : servers[r].healthy} |-> Tool], Strategy)
    /\ seen = [s \in Server |-> "none"]
    /\ managed = {} /\ touched = {}
    /\ worker = [w \in Worker |-> Idle]

----------------------------------------------------------------------------
(* Hot reload.                                                             *)

Reloading(w) == worker[w].op = "reload"

BeginReload(w) ==
    /\ Free /\ worker[w].at = "idle"
    /\ worker' = [v \in Worker |->
          IF v = w THEN [Idle EXCEPT !.at = "run", !.op = "reload",
                                     !.load = file, !.todo = file \ Configured,
                                     !.alone = \A u \in Worker : ~Reloading(u)]
          ELSE [worker[v] EXCEPT !.alone = FALSE]]
    /\ UNCHANGED <<tables, outside>>

\* One round of the loop over the new servers, of a reload or a reconciliation:
\* the client is in the map before addServer finds the id taken and throws.
Skipped(w, s) == worker[w].op = "reconcile" /\ s \in managed

TakeUp(w, s) ==
    /\ worker[w].at = "run" /\ s \in worker[w].todo
    /\ \/ /\ Skipped(w, s)
          /\ worker' = [worker EXCEPT ![w].todo = @ \ {s}]
          /\ UNCHANGED <<servers, clients>>
       \/ /\ ~Skipped(w, s) /\ s \in Registered
          /\ clients' = [clients EXCEPT ![s] = "other"]
          /\ worker' = [worker EXCEPT ![w].todo = @ \ {s}, ![w].failed = @ \union {s}]
          /\ UNCHANGED servers
       \/ /\ ~Skipped(w, s) /\ s \notin Registered
          /\ Register(s)
          /\ worker' = [worker EXCEPT ![w].at = "list", ![w].cur = s, ![w].holds = TRUE]
    /\ UNCHANGED <<config, fresh, captured, routes, managed, touched, outside>>

OneMore(n) == IF n = MaxCopies THEN n ELSE n + 1

AddedToConfig(w, ok) ==
    IF worker[w].op \in {"reload", "import"}
    THEN [config EXCEPT ![worker[w].cur] = OneMore(@)] ELSE config

\* Seeded fault: what discovery adds is not remembered as its own.
ManagedNever(w) == managed

Managed(w) ==
    IF worker[w].op = "reconcile" THEN managed \union {worker[w].cur} ELSE managed

\* addServer after its await, and what its caller does next: tools/list failed
\* or not, addServer succeeds.
Listed(w) ==
    /\ Free /\ worker[w].at = "list"
    /\ \E ok \in BOOLEAN :
          /\ servers' = Refreshed(w, ok)
          /\ routes' = Rebuilt(Refreshed(w, ok))
          /\ config' = AddedToConfig(w, ok)
    /\ managed' = Managed(w)
    /\ worker' = [worker EXCEPT ![w] =
          IF @.op = "import" THEN Idle
          ELSE [worker[w] EXCEPT !.at = "run", !.cur = None, !.holds = FALSE,
                                 !.todo = @ \ {worker[w].cur}]]
    /\ UNCHANGED <<fresh, captured, clients, touched, outside>>

\* Seeded fault: a removed server only leaves the configuration.
LeavesNobody(w) == {}

\* The configured servers the file no longer has.
Leaving(w) == Configured \ worker[w].load

EndReload(w) ==
    /\ worker[w].at = "run" /\ Reloading(w) /\ worker[w].todo = {}
    /\ Remove(Leaving(w))
    /\ config' = [s \in Server |-> IF s \in worker[w].load THEN config[s] ELSE 0]
    /\ fresh' = FALSE /\ captured' = Static
    /\ worker' = [Orphaned(Leaving(w)) EXCEPT ![w] = Idle]
    /\ UNCHANGED <<managed, touched, outside>>

----------------------------------------------------------------------------
(* Discovery.                                                              *)

\* POST /discover/register. When there is no room nobody is served, also who
\* has a registration to renew; stale ones count until the next poll.
Heartbeat(s) ==
    /\ Free /\ Cardinality({r \in Server : seen[r] # "none"}) < MaxSeen
    /\ seen' = [seen EXCEPT ![s] = "live"]
    /\ UNCHANGED <<tables, file, worker>>

Deregister(s) ==
    /\ Free /\ seen[s] # "none" /\ seen' = [seen EXCEPT ![s] = "none"]
    /\ UNCHANGED <<tables, file, worker>>

\* stale_timeout_seconds pass without a heartbeat.
Lapse(s) ==
    /\ Free /\ seen[s] = "live" /\ seen' = [seen EXCEPT ![s] = "stale"]
    /\ UNCHANGED <<tables, file, worker>>

Live == {s \in Server : seen[s] = "live"}

\* The interval fires, whether or not the last reconciliation has ended; the
\* HTTP backend answers at once, the others are awaited.
BeginReconcile(w) ==
    /\ Free /\ worker[w].at = "idle"
    /\ seen' = [s \in Server |-> IF seen[s] = "live" THEN "live" ELSE "none"]
    /\ worker' = [worker EXCEPT ![w] =
          [Idle EXCEPT !.at = "poll", !.op = "reconcile", !.load = Live]]
    /\ UNCHANGED <<tables, file>>

Diff(w) ==
    /\ Free /\ worker[w].at = "poll"
    /\ worker' = [worker EXCEPT ![w].at = "run", ![w].todo = worker[w].load \ Static]
    /\ UNCHANGED <<tables, outside>>

\* Seeded fault: what is static by now is spared.
GoneUnlessStatic(w) == (managed \ worker[w].load) \ Static

Gone(w) == managed \ worker[w].load

\* Seeded fault: what goes stays managed.
ForgetsNobody(w) == managed

Forgetting(w) == managed \ Gone(w)

EndReconcile(w) ==
    /\ worker[w].at = "run" /\ worker[w].op = "reconcile" /\ worker[w].todo = {}
    /\ Remove(Gone(w))
    /\ managed' = Forgetting(w)
    /\ worker' = [Orphaned(Gone(w)) EXCEPT ![w] = Idle]
    /\ UNCHANGED <<config, fresh, captured, touched, outside>>

----------------------------------------------------------------------------
(* The admin API.                                                          *)

\* POST /servers and addServersToConduit() for one server: what is registered
\* is looked up before the url's addresses are awaited; "holds": it replaces.
BeginImport(w, s, replace) ==
    /\ Free /\ worker[w].at = "idle"
    /\ s \in Registered => replace
    /\ worker' = [worker EXCEPT ![w] =
          [Idle EXCEPT !.at = "check", !.op = "import", !.todo = {s},
                       !.holds = s \in Registered]]
    /\ UNCHANGED <<tables, outside>>

\* The first occurrence of s goes.
Spliced(s) ==
    \E n \in {config[s], config[s] - 1} \cap 0..MaxCopies :
        /\ n = config[s] => n \in {0, MaxCopies}
        /\ config' = [config EXCEPT ![s] = n]

Import(w, s) ==
    /\ Free /\ worker[w].at = "check" /\ s \in worker[w].todo
    /\ \/ /\ worker[w].holds
          /\ servers' = [servers EXCEPT ![s] = [healthy |-> FALSE, tools |-> {}]]
          /\ clients' = [clients EXCEPT ![s] = "own"]
          /\ routes' = IF s \in Registered THEN Rebuilt(Without({s})) ELSE routes
          /\ Spliced(s)
          /\ touched' = touched \union {s}
          /\ worker' = [Orphaned({s}) EXCEPT
                ![w] = [@ EXCEPT !.at = "list", !.cur = s, !.holds = TRUE]]
       \/ /\ ~worker[w].holds /\ s \notin Registered
          /\ Register(s)
          /\ worker' = [worker EXCEPT ![w].at = "list", ![w].cur = s, ![w].holds = TRUE]
          /\ UNCHANGED <<config, routes, touched>>
    /\ UNCHANGED <<fresh, captured, managed, outside>>

\* The url is refused, or another operation has registered the id meanwhile.
ImportRefused(w) ==
    /\ Free /\ worker[w].at = "check"
    /\ worker' = [worker EXCEPT ![w] = Idle]
    /\ UNCHANGED <<tables, outside>>

\* DELETE /servers/:id
Delete(s) ==
    /\ Free /\ s \in Registered
    /\ Remove({s})
    /\ Spliced(s)
    /\ touched' = touched \union {s}
    /\ worker' = Orphaned({s})
    /\ UNCHANGED <<fresh, captured, managed, outside>>

\* POST /servers/:id/refresh, which leaves the name map alone.
BeginRefresh(w, s) ==
    /\ Free /\ worker[w].at = "idle" /\ s \in Registered
    /\ worker' = [worker EXCEPT ![w] =
          [Idle EXCEPT !.at = "refresh", !.op = "refresh", !.cur = s, !.holds = TRUE]]
    /\ UNCHANGED <<tables, outside>>

EndRefresh(w) ==
    /\ Free /\ worker[w].at = "refresh"
    /\ \E ok \in BOOLEAN : servers' = Refreshed(w, ok)
    /\ worker' = [worker EXCEPT ![w] = Idle]
    /\ UNCHANGED <<config, fresh, captured, clients, routes, managed, touched, outside>>

\* A health check of a server ends (see ReplicaRouting), and with the last one
\* of a round of runHealthChecks() the name map is built anew.
CheckHealth(s) ==
    /\ Free /\ s \in Registered
    /\ \E up \in BOOLEAN : servers' = [servers EXCEPT ![s].healthy = up]
    /\ routes' \in {routes, Rebuilt(servers')}
    /\ UNCHANGED <<config, fresh, captured, clients, managed, touched, outside, worker>>

Edit ==
    /\ Free /\ file' \in SUBSET Server
    /\ UNCHANGED <<tables, seen, worker>>

----------------------------------------------------------------------------
Step(w) ==
    \/ \E s \in Server : TakeUp(w, s) \/ Import(w, s)
    \/ Listed(w) \/ EndReload(w) \/ Diff(w) \/ EndReconcile(w)
    \/ ImportRefused(w) \/ EndRefresh(w)

Next ==
    \/ \E w \in Worker :
          \/ Step(w) \/ BeginReload(w) \/ BeginReconcile(w)
          \/ \E s \in Server :
                BeginRefresh(w, s) \/ \E replace \in BOOLEAN : BeginImport(w, s, replace)
    \/ \E s \in Server :
          Heartbeat(s) \/ Deregister(s) \/ Lapse(s) \/ Delete(s) \/ CheckHealth(s)
    \/ Edit

Spec == Init /\ [][Next]_vars

\* What an operation awaits is bounded by a timeout, and the interval fires
\* again and again, however many operations are in progress then.
Fairness ==
    /\ \A w \in Worker : WF_vars(Step(w))
    /\ SF_vars(\E w \in Worker : BeginReconcile(w))

FairSpec == Spec /\ Fairness

----------------------------------------------------------------------------
TypeOK ==
    /\ file \subseteq Server /\ captured \subseteq Server
    /\ config \in [Server -> 0..MaxCopies]
    /\ fresh \in BOOLEAN
    /\ servers \in [Server -> Entry \union {None}]
    /\ clients \in [Server -> {"none", "own", "other"}]
    /\ \A r \in routes : r.server \in Server /\ r.tool \in Tool
                         /\ r.name = Named(r.server, r.tool, Strategy)
    /\ seen \in [Server -> {"none", "live", "stale"}]
    /\ managed \subseteq Server /\ touched \subseteq Server
    /\ worker \in [Worker -> Operation]

\* Whatever was added and removed in between, no name leads to a server that
\* is gone, and a server has a client exactly while it is registered
\* (registry.ts:241-263, gateway.ts:357-367): under "prefix", where every map
\* can be built.
RoutesLead ==
    /\ TypeOK
    /\ \A s \in Server : s \in Registered <=> clients[s] # "none"
    /\ Strategy = "prefix" => \A r \in routes : r.server \in Registered

Adding(s) == {w \in Worker : worker[w].at = "list" /\ worker[w].cur = s
                             /\ worker[w].holds}

\* Of every id no administrator overruled: it is registered exactly when one
\* of config.servers, discovery or an operation under way accounts for it, and
\* only one of them does, once: no server is left behind that nothing will
\* ever remove, and neither takes away what the other has added.
OneOwner ==
    \A s \in Server \ touched :
        config[s] + Cardinality({s} \cap managed) + Cardinality(Adding(s))
            = Cardinality({s} \cap Registered)

\* A reload that met no other leaves every server of its file registered, but
\* for those it has reported and those an administrator deleted, and nothing
\* registered that only the old file had.
ReloadApplied ==
    [][\A w \in Worker :
          EndReload(w) /\ worker[w].alone =>
              /\ worker[w].load \ (worker[w].failed \union touched) \subseteq Registered'
              /\ Registered' \ touched \subseteq
                    worker[w].load \union managed \union {s \in Server : Adding(s) # {}}]_vars

\* Reconciliation converges (manager.ts:84-144).  A server that sends no
\* heartbeat any more does not stay: what discovery has added, discovery
\* removes.  One that keeps sending them is registered again and again, and for
\* good if no reload takes it away, unless discovery takes it for a static one
\* or an administrator has touched it.
Converges ==
    \A s \in Server :
        /\ <>[](seen[s] # "live") => <>[](s \notin managed)
        /\ <>[](seen[s] = "live" /\ s \notin Static /\ s \notin touched)
              => []<>(s \in Registered)
=============================================================================
