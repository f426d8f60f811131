-------------------------- MODULE ServerTableProofs --------------------------
(***************************************************************************)
(* Proofs about ServerTable, for every set of servers, workers and tools   *)
(* and both naming strategies: routes lead to registered servers, every    *)
(* server has one owner, and a reload that met no other is applied.        *)
(***************************************************************************)
EXTENDS ServerTable, TLAPS, FiniteSetTheorems

\* Worker w awaits tools/list of s, whose entry is in the registry.
Adds(w, s) == worker[w].at = "list" /\ worker[w].cur = s /\ worker[w].holds

\* What an operation may be doing where it waits.
Roles ==
    \A w \in Worker :
        /\ worker[w].at = "idle" => worker[w].op = "none"
        /\ worker[w].at = "poll" => worker[w].op = "reconcile"
        /\ worker[w].at = "run" => worker[w].op \in {"reload", "reconcile"}
        /\ worker[w].at = "check" => worker[w].op = "import"
        /\ worker[w].at = "refresh" => worker[w].op = "refresh"
        /\ worker[w].at = "list" => worker[w].op \in {"reload", "reconcile", "import"}
        /\ worker[w].at \in {"list", "refresh"} => worker[w].cur \in Server

\* An entry somebody awaits is registered, unless it was removed meanwhile; what
\* is being added is only ever removed by an administrator.
Held ==
    \A w \in Worker :
        /\ worker[w].at \in {"list", "refresh"} /\ worker[w].holds =>
              servers[worker[w].cur] # None
        /\ worker[w].at = "list" /\ ~worker[w].holds => worker[w].cur \in touched

\* An id no administrator has overruled has no two owners, and is registered
\* exactly when it has one.
Owned(s) ==
    /\ config[s] \in {0, 1}
    /\ config[s] = 1 => s \notin managed
    /\ \A w \in Worker : Adds(w, s) => config[s] = 0 /\ s \notin managed
    /\ \A v, w \in Worker : Adds(v, s) /\ Adds(w, s) => v = w
    /\ servers[s] # None <=>
          config[s] = 1 \/ s \in managed \/ \E w \in Worker : Adds(w, s)

\* A reload that has met no other has already added, has still to add or has
\* reported every server of its file that no administrator overruled.
LoneReload ==
    \A w \in Worker :
        Reloading(w) /\ worker[w].alone =>
            /\ \A v \in Worker \ {w} : ~Reloading(v)
            /\ \A s \in worker[w].load \ (worker[w].failed \union touched) :
                  s \in worker[w].todo \/ config[s] > 0

IInv ==
    /\ RoutesLead
    /\ Roles
    /\ Held
    /\ \A s \in Server \ touched : Owned(s)
    /\ LoneReload

----------------------------------------------------------------------------
(* The operators.                                                          *)

\* What the map promises of one table: well-formed routes and, where every map
\* can be built, none to a server that is not in the table.
Leads(map, table) ==
    /\ \A r \in map : r.server \in Server /\ r.tool \in Tool
                      /\ r.name = Named(r.server, r.tool, Strategy)
    /\ Strategy = "prefix" => \A r \in map : table[r.server] # None

\* rebuildNamespaceMap: the new map leads to servers of the table it was built
\* from; under "none" it may be the old one.
LEMMA RebuiltLeads ==
    ASSUME NEW table \in [Server -> Entry \union {None}], TypeOK
    PROVE  Leads(Rebuilt(table), table)
<1> DEFINE up == {s \in Server : table[s] # None /\ table[s].healthy}
           tools == [s \in up |-> table[s].tools]
<1>1. CASE CanMap(tools, Strategy)
  <2>1. Rebuilt(table) = RoutesOf(tools, Strategy)
    BY <1>1 DEF Rebuilt
  <2>2. SUFFICES ASSUME NEW r \in RoutesOf(tools, Strategy)
                 PROVE  /\ r.server \in up /\ r.tool \in Tool
                        /\ r.name = Named(r.server, r.tool, Strategy)
    BY <2>1, <2>2 DEF Leads
  <2>3. PICK s \in up : \E t \in tools[s] :
            r = [name |-> Named(s, t, Strategy), server |-> s, tool |-> t]
    BY <2>2 DEF RoutesOf
  <2>3a. PICK t \in tools[s] :
            r = [name |-> Named(s, t, Strategy), server |-> s, tool |-> t]
    BY <2>3
  <2>4. t \in Tool
    BY <2>3a DEF Entry
  <2> QED BY <2>3a, <2>4
<1>2. CASE ~CanMap(tools, Strategy)
  <2>1. Rebuilt(table) = routes
    BY <1>2 DEF Rebuilt
  <2>2. Strategy # "prefix"
    BY <1>2 DEF CanMap
  <2> QED BY <2>1, <2>2 DEF TypeOK, Leads
<1> QED BY <1>1, <1>2

\* A map that leads to one table's servers leads to those of a larger one.
LEMMA LeadsGrows ==
    ASSUME NEW map, NEW old, NEW new, Leads(map, old),
           \A s \in Server : old[s] # None => new[s] # None
    PROVE  Leads(map, new)
BY DEF Leads

----------------------------------------------------------------------------
(* The steps.                                                              *)

\* The first state: every configured server is registered, and has a client.
LEMMA InitIInv == Init => IInv
<1> SUFFICES ASSUME Init PROVE IInv
  OBVIOUS
<1> USE ServerTableAssumption
<1>1. PICK up \in SUBSET file :
          servers = [s \in Server |->
              IF s \notin file THEN None
              ELSE [healthy |-> s \in up, tools |-> IF s \in up THEN Tool ELSE {}]]
  BY DEF Init
<1>2. ASSUME NEW s \in Server
      PROVE  IF s \in file THEN servers[s] \in Entry ELSE servers[s] = None
  <2>1. [healthy |-> s \in up, tools |-> IF s \in up THEN Tool ELSE {}] \in Entry
    BY DEF Entry
  <2> QED BY <1>1, <2>1
<1>3. /\ servers \in [Server -> Entry \union {None}]
      /\ \A s \in Server : servers[s] # None <=> s \in file
  BY <1>1, <1>2
<1>4. ASSUME NEW r \in routes
      PROVE  /\ r.server \in file /\ r.tool \in Tool
             /\ r.name = Named(r.server, r.tool, Strategy)
  <2> DEFINE tools == [s \in {f \in file : servers[f].healthy} |-> Tool]
  <2>1. routes = RoutesOf(tools, Strategy)
    BY DEF Init
  <2>2. PICK s \in DOMAIN tools : \E t \in tools[s] :
            r = [name |-> Named(s, t, Strategy), server |-> s, tool |-> t]
    BY <2>1 DEF RoutesOf
  <2> QED BY <2>2
<1>5. worker \in [Worker -> Operation] /\ \A w \in Worker : worker[w] = Idle
  BY DEF Init, Idle, Operation
<1>6. TypeOK
  <2>1. config \in [Server -> 0..MaxCopies]
    BY DEF Init
  <2>2. /\ clients \in [Server -> {"none", "own", "other"}]
        /\ seen \in [Server -> {"none", "live", "stale"}]
    BY DEF Init
  <2>3. /\ file \subseteq Server /\ captured \subseteq Server /\ fresh \in BOOLEAN
        /\ managed \subseteq Server /\ touched \subseteq Server
    BY DEF Init
  <2> QED BY <1>3, <1>4, <1>5, <2>1, <2>2, <2>3 DEF TypeOK
<1>7. RoutesLead
  BY <1>3, <1>4, <1>6 DEF Init, RoutesLead, Registered
<1>8. Roles /\ Held /\ LoneReload
  BY <1>5 DEF Idle, Roles, Held, LoneReload, Reloading
<1>9. ASSUME NEW s \in Server PROVE Owned(s)
  BY <1>3, <1>5 DEF Init, Idle, Owned, Adds
<1> QED BY <1>7, <1>8, <1>9 DEF IInv

\* A worker goes on to something that adds no server and is no reload.
GoesOn(v) ==
    /\ worker[v].at # "list" /\ worker[v].op # "reload"
    /\ worker'[v].at # "list" /\ worker'[v].op # "reload"
    /\ worker'[v].at = "idle" => worker'[v].op = "none"
    /\ worker'[v].at = "poll" => worker'[v].op = "reconcile"
    /\ worker'[v].at = "run" => worker'[v].op = "reconcile"
    /\ worker'[v].at = "check" => worker'[v].op = "import"
    /\ worker'[v].at = "refresh" =>
          worker'[v].op = "refresh" /\ worker'[v].cur \in Server /\ servers[worker'[v].cur] # None

\* A step that registers and removes no server, and in which no worker starts
\* or ends adding one, keeps the invariant.
LEMMA QuietIInv ==
    ASSUME IInv,
           UNCHANGED <<config, fresh, captured, clients, managed, touched>>,
           routes' = routes \/ Leads(routes', servers'),
           servers' \in [Server -> Entry \union {None}],
           \A s \in Server : servers'[s] # None <=> servers[s] # None,
           file' \subseteq Server, seen' \in [Server -> {"none", "live", "stale"}],
           worker' \in [Worker -> Operation],
           \A v \in Worker : worker'[v] = worker[v] \/ GoesOn(v)
    PROVE  IInv'
<1>1. TypeOK'
  BY DEF IInv, RoutesLead, TypeOK, Leads
<1>2. RoutesLead'
  <2>1. \A s \in Server : s \in Registered' <=> clients'[s] # "none"
    BY DEF IInv, RoutesLead, Registered
  <2>2. ASSUME Strategy = "prefix", NEW r \in routes'
        PROVE  r.server \in Server /\ servers'[r.server] # None
    <3>1. CASE routes' = routes
      BY <2>2, <3>1 DEF IInv, RoutesLead, TypeOK, Registered
    <3>2. CASE Leads(routes', servers')
      BY <2>2, <3>2 DEF Leads
    <3> QED BY <3>1, <3>2
  <2> QED BY <1>1, <2>1, <2>2 DEF RoutesLead, Registered
<1>3. Roles'
  BY DEF IInv, Roles, GoesOn
<1>4. Held'
  BY DEF IInv, Roles, Held, GoesOn
<1>5. \A v \in Worker, s \in Server : Adds(v, s)' <=> Adds(v, s)
  BY DEF Adds, GoesOn
<1>6. \A s \in Server \ touched : Owned(s)'
  BY <1>5 DEF IInv, Owned
<1>7. LoneReload'
  BY DEF IInv, LoneReload, Reloading, GoesOn
<1> QED BY <1>2, <1>3, <1>4, <1>6, <1>7 DEF IInv

\* Heartbeats, deregistrations, and edits of the file change no table.
LEMMA OutsideIInv ==
    ASSUME IInv, (\E s \in Server : Heartbeat(s) \/ Deregister(s) \/ Lapse(s)) \/ Edit
    PROVE  IInv'
<1>1. /\ file' \subseteq Server /\ seen' \in [Server -> {"none", "live", "stale"}]
      /\ UNCHANGED <<tables, worker>>
  BY DEF IInv, RoutesLead, TypeOK, Heartbeat, Deregister, Lapse, Edit, outside
<1> QED BY <1>1, QuietIInv DEF IInv, RoutesLead, TypeOK, tables

\* Operations that start or end a step without touching a table.
LEMMA StartIInv ==
    ASSUME IInv, NEW w \in Worker,
           \/ BeginReconcile(w) \/ Diff(w) \/ ImportRefused(w)
           \/ \E s \in Server : BeginRefresh(w, s)
                                \/ \E replace \in BOOLEAN : BeginImport(w, s, replace)
    PROVE  IInv'
<1> USE DEF IInv, RoutesLead, TypeOK
<1>1. /\ UNCHANGED <<tables, file>>
      /\ seen' \in [Server -> {"none", "live", "stale"}]
  BY DEF BeginReconcile, Diff, ImportRefused, BeginRefresh, BeginImport, outside
<1>2. CASE BeginReconcile(w)
  <2> DEFINE next == [Idle EXCEPT !.at = "poll", !.op = "reconcile", !.load = Live]
  <2>1. worker' = [worker EXCEPT ![w] = next] /\ worker[w].at = "idle"
    BY <1>2 DEF BeginReconcile
  <2>2. next \in Operation /\ next.at = "poll" /\ next.op = "reconcile"
    BY DEF Idle, Operation, Live
  <2>3. worker' \in [Worker -> Operation]
    BY <2>1, <2>2
  <2>4. GoesOn(w) /\ \A v \in Worker \ {w} : worker'[v] = worker[v]
    BY <2>1, <2>2 DEF GoesOn, Roles
  <2> QED BY <1>1, <2>3, <2>4, QuietIInv DEF tables
<1>3. CASE Diff(w)
  <2> DEFINE next == [worker[w] EXCEPT !.at = "run", !.todo = worker[w].load \ Static]
  <2>0. worker[w] \in Operation /\ Static \subseteq Server
    BY DEF Static, Configured
  <2>1. /\ worker' = [v \in Worker |-> IF v = w THEN next ELSE worker[v]]
        /\ worker[w].at = "poll"
    BY <1>3 DEF Diff
  <2>2. next \in Operation /\ next.at = "run" /\ next.op = worker[w].op
    BY <2>0 DEF Operation
  <2>3. worker' \in [Worker -> Operation]
    BY <2>1, <2>2
  <2>4. GoesOn(w) /\ \A v \in Worker \ {w} : worker'[v] = worker[v]
    BY <2>1, <2>2 DEF GoesOn, Roles
  <2> QED BY <1>1, <2>3, <2>4, QuietIInv DEF tables
<1>4. CASE ImportRefused(w)
  <2>1. worker' = [worker EXCEPT ![w] = Idle] /\ worker[w].at = "check"
    BY <1>4 DEF ImportRefused
  <2>2. Idle \in Operation /\ Idle.at = "idle" /\ Idle.op = "none"
    BY DEF Idle, Operation
  <2>3. worker' \in [Worker -> Operation]
    BY <2>1, <2>2
  <2>4. GoesOn(w) /\ \A v \in Worker \ {w} : worker'[v] = worker[v]
    BY <2>1, <2>2 DEF GoesOn, Roles
  <2> QED BY <1>1, <2>3, <2>4, QuietIInv DEF tables
<1>5. ASSUME NEW s \in Server, BeginRefresh(w, s) PROVE IInv'
  <2> DEFINE next == [Idle EXCEPT !.at = "refresh", !.op = "refresh", !.cur = s,
                                  !.holds = TRUE]
  <2>1. /\ worker' = [worker EXCEPT ![w] = next] /\ worker[w].at = "idle"
        /\ servers[s] # None
    BY <1>5 DEF BeginRefresh, Registered
  <2>2. next \in Operation /\ next.at = "refresh" /\ next.op = "refresh" /\ next.cur = s
    BY DEF Idle, Operation
  <2>3. worker' \in [Worker -> Operation]
    BY <2>1, <2>2
  <2>4. GoesOn(w) /\ \A v \in Worker \ {w} : worker'[v] = worker[v]
    BY <2>1, <2>2 DEF GoesOn, Roles
  <2> QED BY <1>1, <2>3, <2>4, QuietIInv DEF tables
<1>6. ASSUME NEW s \in Server, NEW replace \in BOOLEAN, BeginImport(w, s, replace)
      PROVE  IInv'
  <2> DEFINE known == s \in Registered
             next == [Idle EXCEPT !.at = "check", !.op = "import", !.todo = {s},
                                  !.holds = known]
  <2>1. worker' = [worker EXCEPT ![w] = next] /\ worker[w].at = "idle"
    BY <1>6 DEF BeginImport
  <2>1a. known \in BOOLEAN
    OBVIOUS
  <2> HIDE DEF known
  <2>2. next \in Operation /\ next.at = "check" /\ next.op = "import"
    BY <2>1a DEF Idle, Operation
  <2>3. worker' \in [Worker -> Operation]
    BY <2>1, <2>2
  <2>4. GoesOn(w) /\ \A v \in Worker \ {w} : worker'[v] = worker[v]
    BY <2>1, <2>2 DEF GoesOn, Roles
  <2> QED BY <1>1, <2>3, <2>4, QuietIInv DEF tables
<1> QED BY <1>2, <1>3, <1>4, <1>5, <1>6

\* The awaited answer changes what an entry says, not which entries there are.
LEMMA RefreshedSame ==
    ASSUME IInv, NEW w \in Worker, worker[w].at \in {"list", "refresh"},
           NEW ok \in BOOLEAN
    PROVE  /\ Refreshed(w, ok) \in [Server -> Entry \union {None}]
           /\ \A s \in Server : Refreshed(w, ok)[s] # None <=> servers[s] # None
<1> USE ServerTableAssumption DEF IInv, RoutesLead, TypeOK
<1>1. CASE ~worker[w].holds
  BY <1>1 DEF Refreshed
<1>2. CASE worker[w].holds
  <2> DEFINE s == worker[w].cur
             new == [healthy |-> ok, tools |-> IF ok THEN Tool ELSE servers[s].tools]
  <2>1. s \in Server /\ servers[s] \in Entry
    BY <1>2 DEF Roles, Held
  <2>2. new \in Entry
    BY <2>1 DEF Entry
  <2>3. Refreshed(w, ok) = [servers EXCEPT ![s] = new]
    BY <1>2 DEF Refreshed
  <2> QED BY <2>1, <2>2, <2>3
<1> QED BY <1>1, <1>2

\* A refresh that nobody rebuilds the map for, and a health check, the last of
\* whose round is followed by a rebuild.
LEMMA EntryIInv ==
    ASSUME IInv, \/ \E w \in Worker : EndRefresh(w)
                 \/ \E s \in Server : CheckHealth(s)
    PROVE  IInv'
<1> USE ServerTableAssumption DEF IInv, RoutesLead, TypeOK
<1>1. ASSUME NEW w \in Worker, EndRefresh(w) PROVE IInv'
  <2>1. PICK ok \in BOOLEAN : servers' = Refreshed(w, ok)
    BY <1>1 DEF EndRefresh
  <2>2. worker' = [worker EXCEPT ![w] = Idle] /\ worker[w].at = "refresh"
    BY <1>1 DEF EndRefresh
  <2>3. Idle \in Operation /\ Idle.at = "idle" /\ Idle.op = "none"
    BY DEF Idle, Operation
  <2>4. worker' \in [Worker -> Operation]
    BY <2>2, <2>3
  <2>5. GoesOn(w) /\ \A v \in Worker \ {w} : worker'[v] = worker[v]
    BY <2>2, <2>3 DEF GoesOn, Roles
  <2>6. /\ UNCHANGED <<config, fresh, captured, clients, routes, managed, touched>>
        /\ file' = file /\ seen' = seen
    BY <1>1 DEF EndRefresh, outside
  <2> QED BY <2>1, <2>2, <2>4, <2>5, <2>6, RefreshedSame, QuietIInv
<1>2. ASSUME NEW s \in Server, CheckHealth(s) PROVE IInv'
  <2>0. PICK up \in BOOLEAN : servers' = [servers EXCEPT ![s].healthy = up]
    BY <1>2 DEF CheckHealth
  <2> DEFINE new == [servers[s] EXCEPT !.healthy = up]
  <2>1. servers[s] \in Entry /\ servers' = [servers EXCEPT ![s] = new]
    BY <1>2, <2>0 DEF CheckHealth, Registered
  <2>2. new \in Entry
    BY <2>1 DEF Entry
  <2>3. /\ servers' \in [Server -> Entry \union {None}]
        /\ \A r \in Server : servers'[r] # None <=> servers[r] # None
    BY <2>1, <2>2
  <2>4. /\ UNCHANGED <<config, fresh, captured, clients, managed, touched>>
        /\ file' = file /\ seen' = seen /\ worker' = worker
    BY <1>2 DEF CheckHealth, outside
  <2>5. routes' = routes \/ Leads(routes', servers')
    <3>1. \A table \in [Server -> Entry \union {None}] : Leads(Rebuilt(table), table)
      BY RebuiltLeads
    <3>2. routes' = routes \/ routes' = Rebuilt(servers')
      BY <1>2 DEF CheckHealth
    <3> QED BY <2>3, <3>1, <3>2
  <2> QED BY <2>3, <2>4, <2>5, QuietIInv
<1> QED BY <1>1, <1>2

\* A reload begins: what its file adds is still to do, and from now on no other
\* reload is alone.
LEMMA BeginReloadIInv ==
    ASSUME IInv, NEW w \in Worker, BeginReload(w)
    PROVE  IInv'
<1> USE DEF IInv, RoutesLead, TypeOK
<1> DEFINE lone == \A u \in Worker : ~Reloading(u)
           next == [Idle EXCEPT !.at = "run", !.op = "reload", !.load = file,
                                !.todo = file \ Configured, !.alone = lone]
<1>1. /\ worker[w].at = "idle"
      /\ worker' = [v \in Worker |->
                      IF v = w THEN next ELSE [worker[v] EXCEPT !.alone = FALSE]]
      /\ UNCHANGED <<config, fresh, captured, servers, clients, routes, managed,
                     touched, file, seen>>
  BY DEF BeginReload, tables, outside
<1>2. lone \in BOOLEAN
  OBVIOUS
<1>3. lone => \A u \in Worker : ~Reloading(u)
  OBVIOUS
<1> HIDE DEF lone
<1>4. /\ next \in Operation
      /\ next.at = "run" /\ next.op = "reload" /\ next.load = file
      /\ next.todo = file \ Configured /\ next.alone = lone
  BY <1>2 DEF Idle, Operation
<1>5. ASSUME NEW v \in Worker, v # w
      PROVE  /\ worker'[v] \in Operation /\ worker'[v].alone = FALSE
             /\ worker'[v].at = worker[v].at /\ worker'[v].op = worker[v].op
             /\ worker'[v].cur = worker[v].cur /\ worker'[v].holds = worker[v].holds
  <2>1. worker[v] \in Operation
    OBVIOUS
  <2>2. worker'[v] = [worker[v] EXCEPT !.alone = FALSE]
    BY <1>1, <1>5
  <2>3. PICK x \in Operation : x = worker[v]
    BY <2>1
  <2>4. LET y == [x EXCEPT !.alone = FALSE]
        IN  /\ y \in Operation /\ y.alone = FALSE /\ y.at = x.at /\ y.op = x.op
            /\ y.cur = x.cur /\ y.holds = x.holds
    BY DEF Operation
  <2> QED BY <2>2, <2>3, <2>4
<1>6. worker' \in [Worker -> Operation] /\ worker'[w] = next
  BY <1>1, <1>4, <1>5
<1>7. RoutesLead'
  BY <1>1, <1>6 DEF Registered
<1>8. Roles' /\ Held'
  BY <1>1, <1>4, <1>5, <1>6 DEF Roles, Held
<1>9. \A v \in Worker, s \in Server : Adds(v, s)' <=> Adds(v, s)
  BY <1>1, <1>4, <1>5, <1>6 DEF Adds
<1>10. \A s \in Server \ touched' : Owned(s)'
  BY <1>1, <1>9 DEF Owned
<1>11. LoneReload'
  <2>1. \A v \in Worker : Reloading(v)' /\ worker'[v].alone => v = w
    BY <1>5 DEF Reloading
  <2>2. next.alone => \A v \in Worker \ {w} : ~Reloading(v)'
    BY <1>3, <1>4, <1>5 DEF Reloading
  <2>3. \A s \in file : s \in file \ Configured \/ config[s] > 0
    BY DEF Configured
  <2> QED BY <1>1, <1>4, <1>6, <2>1, <2>2, <2>3 DEF LoneReload
<1> QED BY <1>7, <1>8, <1>10, <1>11

\* A server that is not registered is, and its worker awaits tools/list.
LEMMA AddIInv ==
    ASSUME IInv, NEW w \in Worker, NEW s \in Server,
           s \notin Registered, Register(s),
           worker[w].at \in {"run", "check"},
           worker[w].op \in {"reload", "reconcile", "import"},
           [worker[w] EXCEPT !.at = "list", !.cur = s, !.holds = TRUE] \in Operation,
           worker' = [worker EXCEPT ![w].at = "list", ![w].cur = s, ![w].holds = TRUE],
           UNCHANGED <<config, fresh, captured, routes, managed, touched, file, seen>>
    PROVE  IInv'
<1> USE ServerTableAssumption DEF IInv, RoutesLead, TypeOK
<1> DEFINE next == [worker[w] EXCEPT !.at = "list", !.cur = s, !.holds = TRUE]
           new == [healthy |-> FALSE, tools |-> {}]
<1>1. new \in Entry /\ new # None
  <2>1. new \in Entry
    BY DEF Entry
  <2> QED BY <2>1
<1>2. /\ servers' = [servers EXCEPT ![s] = new] /\ servers[s] = None
      /\ clients' = [clients EXCEPT ![s] = "own"]
  BY DEF Register, Registered
<1>3. /\ servers' \in [Server -> Entry \union {None}]
      /\ servers'[s] # None
      /\ \A r \in Server \ {s} : servers'[r] = servers[r]
  BY <1>1, <1>2
<1>4. /\ clients' \in [Server -> {"none", "own", "other"}] /\ clients'[s] # "none"
      /\ \A r \in Server \ {s} : clients'[r] = clients[r]
  BY <1>2
<1>5. worker' = [v \in Worker |-> IF v = w THEN next ELSE worker[v]]
  OBVIOUS
<1>6. /\ next.at = "list" /\ next.cur = s /\ next.holds = TRUE
      /\ next.op = worker[w].op /\ next.alone = worker[w].alone
      /\ next.load = worker[w].load /\ next.todo = worker[w].todo
      /\ next.failed = worker[w].failed
  BY DEF Operation
<1>7. /\ worker' \in [Worker -> Operation] /\ worker'[w] = next
      /\ \A v \in Worker \ {w} : worker'[v] = worker[v]
  BY <1>5
<1>8. RoutesLead'
  BY <1>3, <1>4, <1>7 DEF Registered
<1>9. Roles'
  BY <1>6, <1>7 DEF Roles
<1>10. Held'
  BY <1>3, <1>6, <1>7 DEF Held, Roles
<1>11. ASSUME NEW r \in Server \ touched PROVE Owned(r)'
  <2>1. \A v \in Worker \ {w} : Adds(v, r)' <=> Adds(v, r)
    BY <1>7 DEF Adds
  <2>2. CASE r = s
    <3>1. \A v \in Worker : ~Adds(v, s)
      BY <1>2 DEF Held, Adds
    <3>2. Adds(w, s)'
      BY <1>6, <1>7 DEF Adds
    <3>3. Owned(s)
      BY <1>11, <2>2
    <3> QED BY <1>2, <1>3, <2>1, <2>2, <3>1, <3>2, <3>3 DEF Owned
  <2>3. CASE r # s
    <3>1. ~Adds(w, r) /\ ~Adds(w, r)'
      BY <1>6, <1>7, <2>3 DEF Adds
    <3>2. Owned(r)
      BY <1>11
    <3> QED BY <1>3, <2>1, <2>3, <3>1, <3>2 DEF Owned
  <2> QED BY <2>2, <2>3
<1>12. LoneReload'
  <2>1. \A v \in Worker :
            /\ Reloading(v)' <=> Reloading(v)
            /\ worker'[v].alone = worker[v].alone /\ worker'[v].load = worker[v].load
            /\ worker'[v].failed = worker[v].failed /\ worker'[v].todo = worker[v].todo
    BY <1>6, <1>7 DEF Reloading
  <2> QED BY <2>1 DEF LoneReload
<1> QED BY <1>8, <1>9, <1>10, <1>11, <1>12

\* One round of the loop over the new servers.
LEMMA TakeUpIInv ==
    ASSUME IInv, NEW w \in Worker, NEW s \in Server, TakeUp(w, s)
    PROVE  IInv'
<1> USE ServerTableAssumption DEF IInv, RoutesLead, TypeOK
<1>1. /\ worker[w].at = "run" /\ s \in worker[w].todo
      /\ UNCHANGED <<config, fresh, captured, routes, managed, touched, file, seen>>
  BY DEF TakeUp, outside
<1>2. ASSUME NEW failed \in SUBSET Server, failed \subseteq worker[w].failed \union {s},
             worker[w].failed \subseteq failed,
             Reloading(w) => s \in failed,
             worker' = [v \in Worker |->
                 IF v = w THEN [worker[w] EXCEPT !.todo = @ \ {s}, !.failed = failed]
                 ELSE worker[v]],
             servers' = servers,
             clients' \in [Server -> {"none", "own", "other"}],
             \A r \in Server : clients'[r] # "none" <=> clients[r] # "none"
      PROVE  IInv'
  <2> DEFINE next == [worker[w] EXCEPT !.todo = @ \ {s}, !.failed = failed]
  <2>1. worker[w] \in Operation
    OBVIOUS
  <2>2. /\ next \in Operation
        /\ next.at = "run" /\ next.op = worker[w].op /\ next.alone = worker[w].alone
        /\ next.load = worker[w].load /\ next.todo = worker[w].todo \ {s}
        /\ next.failed = failed
    BY <1>1, <2>1 DEF Operation
  <2>3. /\ worker' \in [Worker -> Operation] /\ worker'[w] = next
        /\ \A v \in Worker \ {w} : worker'[v] = worker[v]
    BY <1>2, <2>2
  <2>4. RoutesLead'
    BY <1>1, <1>2, <2>3 DEF Registered
  <2>5. Roles' /\ Held'
    BY <1>1, <1>2, <2>2, <2>3 DEF Roles, Held
  <2>6. \A v \in Worker, r \in Server : Adds(v, r)' <=> Adds(v, r)
    BY <1>1, <2>2, <2>3 DEF Adds
  <2>7. \A r \in Server \ touched' : Owned(r)'
    BY <1>1, <1>2, <2>6 DEF Owned
  <2>8. \A v \in Worker : Reloading(v)' <=> Reloading(v)
    BY <2>2, <2>3 DEF Reloading
  <2>9. LoneReload'
    <3>1. ASSUME NEW v \in Worker, Reloading(v)', worker'[v].alone
          PROVE  /\ \A u \in Worker \ {v} : ~Reloading(u)'
                 /\ \A r \in worker'[v].load \ (worker'[v].failed \union touched) :
                        r \in worker'[v].todo \/ config[r] > 0
      <4>1. Reloading(v) /\ worker[v].alone
        BY <2>2, <2>3, <2>8, <3>1
      <4>2. CASE v = w
        <5>1. /\ \A u \in Worker \ {w} : ~Reloading(u)
              /\ \A r \in worker[w].load \ (worker[w].failed \union touched) :
                    r \in worker[w].todo \/ config[r] > 0
          BY <4>1, <4>2 DEF LoneReload
        <5>2. worker[w].failed \union {s} \subseteq failed
          BY <1>2, <4>1, <4>2
        <5>3. worker'[v] = next /\ \A u \in Worker \ {v} : ~Reloading(u)'
          BY <2>3, <2>8, <4>2, <5>1
        <5> HIDE DEF next
        <5> QED BY <2>2, <5>1, <5>2, <5>3
      <4>3. CASE v # w
        BY <2>3, <2>8, <4>1, <4>3 DEF LoneReload
      <4> QED BY <4>2, <4>3
    <3> QED BY <1>1, <3>1 DEF LoneReload
  <2> QED BY <2>4, <2>5, <2>7, <2>9
<1>3. CASE Skipped(w, s) /\ UNCHANGED <<servers, clients>>
           /\ worker' = [worker EXCEPT ![w].todo = @ \ {s}]
  <2>1. ~Reloading(w)
    BY <1>3 DEF Skipped, Reloading
  <2>2. worker[w].failed \in SUBSET Server
    BY DEF Operation
  <2>3. worker[w] \in Operation
    OBVIOUS
  <2>4. [worker[w] EXCEPT !.todo = @ \ {s}] =
            [worker[w] EXCEPT !.todo = @ \ {s}, !.failed = worker[w].failed]
    BY <2>3 DEF Operation
  <2>5. worker' = [v \in Worker |->
            IF v = w THEN [worker[w] EXCEPT !.todo = @ \ {s}] ELSE worker[v]]
    BY <1>3
  <2> DEFINE failed == worker[w].failed
  <2>6. worker' = [v \in Worker |->
            IF v = w THEN [worker[w] EXCEPT !.todo = @ \ {s}, !.failed = failed]
            ELSE worker[v]]
    BY <2>4, <2>5
  <2> QED BY <1>2, <1>3, <2>1, <2>2, <2>6
<1>4. CASE /\ s \in Registered
           /\ clients' = [clients EXCEPT ![s] = "other"]
           /\ worker' = [worker EXCEPT ![w].todo = @ \ {s}, ![w].failed = @ \union {s}]
           /\ servers' = servers
  <2> DEFINE failed == worker[w].failed \union {s}
  <2>1. failed \in SUBSET Server
    BY DEF Operation
  <2>2. worker' = [v \in Worker |->
            IF v = w THEN [worker[w] EXCEPT !.todo = @ \ {s}, !.failed = failed]
            ELSE worker[v]]
    BY <1>4
  <2>3. /\ clients' \in [Server -> {"none", "own", "other"}]
        /\ \A r \in Server : clients'[r] # "none" <=> clients[r] # "none"
    BY <1>4 DEF Registered
  <2> QED BY <1>2, <1>4, <2>1, <2>2, <2>3
<1>5. CASE /\ s \notin Registered
           /\ Register(s)
           /\ worker' = [worker EXCEPT ![w].at = "list", ![w].cur = s, ![w].holds = TRUE]
  <2> DEFINE next == [worker[w] EXCEPT !.at = "list", !.cur = s, !.holds = TRUE]
  <2>1. worker[w].op \in {"reload", "reconcile"}
    BY <1>1 DEF Roles
  <2>2. next \in Operation
    <3>1. worker[w] \in Operation
      OBVIOUS
    <3> QED BY <3>1 DEF Operation
  <2> QED BY <1>1, <1>5, <2>1, <2>2, AddIInv
<1> QED BY <1>3, <1>4, <1>5 DEF TakeUp

\* What is added to config.servers or to the managed ids when tools/list has
\* been awaited is what its worker was adding.
LEMMA ListedIInv ==
    ASSUME IInv, NEW w \in Worker, Listed(w)
    PROVE  IInv'
<1> USE ServerTableAssumption DEF IInv, RoutesLead, TypeOK
<1> DEFINE s == worker[w].cur
           next == IF worker[w].op = "import" THEN Idle
                   ELSE [worker[w] EXCEPT !.at = "run", !.cur = None, !.holds = FALSE,
                                          !.todo = @ \ {s}]
<1>1. PICK ok \in BOOLEAN :
          /\ servers' = Refreshed(w, ok)
          /\ routes' = Rebuilt(Refreshed(w, ok))
          /\ config' = AddedToConfig(w, ok)
  BY DEF Listed
<1>2. /\ worker[w].at = "list" /\ s \in Server
      /\ worker[w].op \in {"reload", "reconcile", "import"}
      /\ managed' = Managed(w)
      /\ UNCHANGED <<fresh, captured, clients, touched, file, seen>>
  BY DEF Listed, Roles, outside
<1>3. worker' = [v \in Worker |-> IF v = w THEN next ELSE worker[v]]
  <2>1. worker' = [worker EXCEPT ![w] = next]
    BY DEF Listed
  <2> HIDE DEF next
  <2> QED BY <2>1
<1>4. /\ next \in Operation
      /\ next.at \in {"run", "idle"}
      /\ next.at = "idle" => next.op = "none"
      /\ next.at = "run" => /\ next.op = worker[w].op /\ next.op # "import"
                            /\ next.alone = worker[w].alone
                            /\ next.load = worker[w].load /\ next.failed = worker[w].failed
                            /\ next.todo = worker[w].todo \ {s}
  <2>1. worker[w] \in Operation
    OBVIOUS
  <2>2. CASE worker[w].op = "import"
    BY <2>2 DEF Idle, Operation
  <2>3. CASE worker[w].op # "import"
    BY <2>1, <2>3 DEF Operation
  <2> QED BY <2>2, <2>3
<1>5. /\ worker' \in [Worker -> Operation] /\ worker'[w] = next
      /\ \A v \in Worker \ {w} : worker'[v] = worker[v]
  BY <1>3, <1>4
<1> HIDE DEF next
<1>6. /\ servers' \in [Server -> Entry \union {None}]
      /\ \A r \in Server : servers'[r] # None <=> servers[r] # None
  BY <1>1, <1>2, RefreshedSame
<1>7. Leads(routes', servers')
  BY <1>1, <1>6, RebuiltLeads
<1>8. /\ config' \in [Server -> 0..MaxCopies]
      /\ \A r \in Server \ {s} : config'[r] = config[r]
      /\ config'[s] = IF worker[w].op \in {"reload", "import"} THEN OneMore(config[s])
                      ELSE config[s]
      /\ OneMore(config[s]) > 0
      /\ config[s] = 0 => OneMore(config[s]) = 1
  BY <1>1, <1>2 DEF AddedToConfig, OneMore
<1>9. /\ managed' \subseteq Server
      /\ managed' = IF worker[w].op = "reconcile" THEN managed \union {s} ELSE managed
  BY <1>2 DEF Managed
<1>10. RoutesLead'
  BY <1>2, <1>5, <1>6, <1>7, <1>8, <1>9 DEF Leads, Registered
<1>11. Roles'
  BY <1>2, <1>4, <1>5 DEF Roles
<1>12. Held'
  BY <1>2, <1>4, <1>5, <1>6 DEF Held, Roles
<1>13. ASSUME NEW r \in Server \ touched PROVE Owned(r)'
  <2>1. /\ \A v \in Worker \ {w} : Adds(v, r)' <=> Adds(v, r)
        /\ ~Adds(w, r)'
    BY <1>4, <1>5 DEF Adds
  <2>2. Owned(r)
    BY <1>13
  <2>3. CASE r = s
    <3>1. Adds(w, s)
      BY <1>2, <2>3 DEF Adds, Held
    <3>2. /\ config[s] = 0 /\ s \notin managed /\ servers[s] # None
          /\ \A v \in Worker \ {w} : ~Adds(v, s)
      BY <2>2, <2>3, <3>1 DEF Owned
    <3>3. CASE worker[w].op = "reconcile"
      BY <1>6, <1>8, <1>9, <2>1, <2>3, <3>2, <3>3 DEF Owned
    <3>4. CASE worker[w].op \in {"reload", "import"}
      BY <1>6, <1>8, <1>9, <2>1, <2>3, <3>2, <3>4 DEF Owned
    <3> QED BY <1>2, <3>3, <3>4
  <2>4. CASE r # s
    <3>1. ~Adds(w, r)
      BY <2>4 DEF Adds
    <3>2. config'[r] = config[r] /\ (r \in managed' <=> r \in managed)
      BY <1>8, <1>9, <2>4
    <3> QED BY <1>6, <2>1, <2>2, <3>1, <3>2 DEF Owned
  <2> QED BY <2>3, <2>4
<1>14. LoneReload'
  <2>1. \A r \in Server : config[r] > 0 => config'[r] > 0
    BY <1>2, <1>8
  <2>2. \A v \in Worker : Reloading(v)' => Reloading(v)
    BY <1>4, <1>5 DEF Reloading, Operation
  <2>3. ASSUME NEW v \in Worker, Reloading(v)', worker'[v].alone
        PROVE  /\ \A u \in Worker \ {v} : ~Reloading(u)'
               /\ \A r \in worker'[v].load \ (worker'[v].failed \union touched) :
                      r \in worker'[v].todo \/ config'[r] > 0
    <3>1. CASE v = w
      <4>1. next.at = "run" /\ next.op = "reload"
        BY <1>4, <1>5, <2>3, <3>1 DEF Reloading
      <4>2. /\ worker[w].op = "reload" /\ worker[w].alone
            /\ next.load = worker[w].load /\ next.failed = worker[w].failed
            /\ next.todo = worker[w].todo \ {s}
        BY <1>4, <1>5, <2>3, <3>1, <4>1
      <4>3. config'[s] > 0
        BY <1>2, <1>8, <4>2
      <4>4. worker[w].load \subseteq Server
        BY DEF Operation
      <4> QED BY <1>5, <2>1, <2>2, <3>1, <4>2, <4>3, <4>4 DEF LoneReload, Reloading
    <3>2. CASE v # w
      <4>1. worker'[v] = worker[v] /\ worker[v].load \subseteq Server
        BY <1>5, <3>2 DEF Operation
      <4> QED BY <2>1, <2>2, <2>3, <4>1 DEF LoneReload
    <3> QED BY <3>1, <3>2
  <2> QED BY <1>2, <2>3 DEF LoneReload
<1> QED BY <1>2, <1>10, <1>11, <1>12, <1>13, <1>14

\* Orphaning changes nothing but who still holds an entry of the registry.
LEMMA OrphanedFacts ==
    ASSUME IInv, NEW gone \in SUBSET Server
    PROVE  \A v \in Worker :
              LET o == Orphaned(gone)[v] IN
              /\ o \in Operation
              /\ o.at = worker[v].at /\ o.op = worker[v].op /\ o.cur = worker[v].cur
              /\ o.load = worker[v].load /\ o.todo = worker[v].todo
              /\ o.failed = worker[v].failed /\ o.alone = worker[v].alone
              /\ o.holds <=> worker[v].holds /\ worker[v].cur \notin gone
<1> SUFFICES ASSUME NEW v \in Worker
             PROVE  LET o == Orphaned(gone)[v] IN
                    /\ o \in Operation
                    /\ o.at = worker[v].at /\ o.op = worker[v].op /\ o.cur = worker[v].cur
                    /\ o.load = worker[v].load /\ o.todo = worker[v].todo
                    /\ o.failed = worker[v].failed /\ o.alone = worker[v].alone
                    /\ o.holds <=> worker[v].holds /\ worker[v].cur \notin gone
  OBVIOUS
<1>1. worker[v] \in Operation
  BY DEF IInv, RoutesLead, TypeOK
<1>2. CASE worker[v].cur \in gone
  <2>1. Orphaned(gone)[v] = [worker[v] EXCEPT !.holds = FALSE]
    BY <1>2 DEF Orphaned
  <2> QED BY <1>1, <1>2, <2>1 DEF Operation
<1>3. CASE worker[v].cur \notin gone
  <2>1. Orphaned(gone)[v] = worker[v]
    BY <1>3 DEF Orphaned
  <2> QED BY <1>1, <1>3, <2>1
<1> QED BY <1>2, <1>3

\* What goes, goes from the registry, the clients map and the name map.
LEMMA RemoveFacts ==
    ASSUME IInv, NEW gone \in SUBSET Server, Remove(gone)
    PROVE  /\ servers' \in [Server -> Entry \union {None}]
           /\ clients' \in [Server -> {"none", "own", "other"}]
           /\ Leads(routes', servers')
           /\ \A s \in Server :
                 /\ servers'[s] # None <=> servers[s] # None /\ s \notin gone
                 /\ clients'[s] # "none" <=> clients[s] # "none" /\ s \notin gone
<1> USE DEF IInv, RoutesLead, TypeOK
<1>1. Without(gone) \in [Server -> Entry \union {None}]
  BY DEF Without
<1>2. servers' = Without(gone) /\ routes' = Rebuilt(Without(gone))
  BY DEF Remove
<1>3. Leads(routes', servers')
  BY <1>1, <1>2, RebuiltLeads
<1>4. \A s \in Server : servers'[s] # None <=> servers[s] # None /\ s \notin gone
  BY <1>2 DEF Without
<1>5. clients' = [s \in Server |-> IF s \in gone THEN "none" ELSE clients[s]]
  BY DEF Remove
<1> QED BY <1>1, <1>2, <1>3, <1>4, <1>5

\* A removal keeps the invariant if what goes, and was not overruled by an
\* administrator, leaves the one owner it had, and no worker was adding it.
LEMMA RemovalIInv ==
    ASSUME IInv, NEW gone \in SUBSET Server, Remove(gone),
           config' \in [Server -> 0..MaxCopies],
           fresh' \in BOOLEAN, captured' \subseteq Server, managed' \subseteq Server,
           touched' \subseteq Server, touched \subseteq touched',
           UNCHANGED <<file, seen>>,
           DOMAIN worker' = Worker, worker' = [v \in Worker |-> worker'[v]],
           \A v \in Worker : \/ worker'[v] = Orphaned(gone)[v]
                             \/ worker'[v] = Idle /\ worker[v].at = "run",
           \A s \in Server \ touched' :
              /\ s \in gone => /\ config[s] = 1 \/ s \in managed
                               /\ config'[s] = 0 /\ s \notin managed'
              /\ s \notin gone => /\ config'[s] = config[s]
                                  /\ s \in managed' <=> s \in managed,
           \A v \in Worker, s \in Server \ touched' :
              Reloading(v)' /\ worker'[v].alone => config'[s] = config[s]
    PROVE  IInv'
<1> USE DEF IInv, RoutesLead, TypeOK
<1>1. Idle \in Operation /\ Idle.at = "idle" /\ Idle.op = "none"
  BY DEF Idle, Operation
<1>2. /\ worker' \in [Worker -> Operation]
      /\ \A v \in Worker :
            \/ worker'[v] = Idle /\ worker[v].at = "run"
            \/ /\ worker'[v].at = worker[v].at /\ worker'[v].op = worker[v].op
               /\ worker'[v].cur = worker[v].cur /\ worker'[v].load = worker[v].load
               /\ worker'[v].todo = worker[v].todo /\ worker'[v].failed = worker[v].failed
               /\ worker'[v].alone = worker[v].alone
               /\ worker'[v].holds <=> worker[v].holds /\ worker[v].cur \notin gone
  BY <1>1, OrphanedFacts
<1>3. RoutesLead'
  BY <1>2, RemoveFacts DEF Leads, Registered
<1>4. Roles'
  BY <1>1, <1>2 DEF Roles
<1>5. ASSUME NEW v \in Worker, NEW s \in Server \ touched'
      PROVE  /\ Adds(v, s) => s \notin gone
             /\ Adds(v, s)' <=> Adds(v, s)
  <2>1. Owned(s) /\ s \notin touched
    OBVIOUS
  <2>2. Adds(v, s) => s \notin gone
    BY <2>1 DEF Owned
  <2> QED BY <1>1, <1>2, <2>2 DEF Adds
<1>6. Held'
  <2>1. ASSUME NEW v \in Worker, worker'[v].at \in {"list", "refresh"}
        PROVE  /\ worker'[v].holds => servers'[worker'[v].cur] # None
               /\ worker'[v].at = "list" /\ ~worker'[v].holds => worker'[v].cur \in touched'
    <3>1. /\ worker'[v].at = worker[v].at /\ worker'[v].cur = worker[v].cur
          /\ worker'[v].holds <=> worker[v].holds /\ worker[v].cur \notin gone
          /\ worker[v].cur \in Server
      BY <1>1, <1>2, <2>1 DEF Roles
    <3>2. worker'[v].holds => servers'[worker'[v].cur] # None
      BY <2>1, <3>1, RemoveFacts DEF Held
    <3>3. ASSUME worker'[v].at = "list", ~worker'[v].holds, worker[v].cur \notin touched'
          PROVE  FALSE
      <4>1. worker[v].holds
        BY <3>1, <3>3 DEF Held
      <4>2. Adds(v, worker[v].cur)
        BY <3>1, <3>3, <4>1 DEF Adds
      <4> QED BY <1>5, <3>1, <3>3, <4>1, <4>2
    <3> QED BY <3>1, <3>2, <3>3
  <2> QED BY <2>1 DEF Held
<1>7. ASSUME NEW s \in Server \ touched' PROVE Owned(s)'
  <2>1. Owned(s) /\ s \notin touched
    OBVIOUS
  <2>2. servers'[s] # None <=> servers[s] # None /\ s \notin gone
    BY RemoveFacts
  <2>3. CASE s \in gone
    BY <1>5, <2>1, <2>2, <2>3 DEF Owned
  <2>4. CASE s \notin gone
    BY <1>5, <2>1, <2>2, <2>4 DEF Owned
  <2> QED BY <2>3, <2>4
<1>8. LoneReload'
  <2>1. ASSUME NEW v \in Worker, Reloading(v)', worker'[v].alone
        PROVE  /\ \A u \in Worker \ {v} : ~Reloading(u)'
               /\ \A s \in worker'[v].load \ (worker'[v].failed \union touched') :
                      s \in worker'[v].todo \/ config'[s] > 0
    <3>1. /\ Reloading(v) /\ worker[v].alone /\ worker'[v].load = worker[v].load
          /\ worker'[v].todo = worker[v].todo /\ worker'[v].failed = worker[v].failed
      BY <1>1, <1>2, <2>1 DEF Reloading
    <3>2. worker[v].load \subseteq Server
      BY DEF Operation
    <3>3. \A u \in Worker \ {v} : ~Reloading(u)'
      BY <1>1, <1>2, <3>1 DEF LoneReload, Reloading
    <3>4. \A s \in worker[v].load \ (worker[v].failed \union touched') :
              s \in worker[v].todo \/ config'[s] > 0
      BY <2>1, <3>1, <3>2 DEF LoneReload
    <3> QED BY <3>1, <3>3, <3>4
  <2> QED BY <2>1 DEF LoneReload
<1> QED BY <1>3, <1>4, <1>6, <1>7, <1>8

\* Both ways in which config.servers loses an entry keep it a count, and an
\* entry that was the only one is gone.
LEMMA SplicedFacts ==
    ASSUME IInv, NEW s \in Server, Spliced(s)
    PROVE  /\ config' \in [Server -> 0..MaxCopies]
           /\ \A r \in Server \ {s} : config'[r] = config[r]
<1>1. PICK n \in {config[s], config[s] - 1} \cap 0..MaxCopies :
          config' = [config EXCEPT ![s] = n]
  BY DEF Spliced
<1> QED BY <1>1 DEF IInv, RoutesLead, TypeOK

\* The end of a reload removes what only the configuration accounted for.
LEMMA EndReloadIInv ==
    ASSUME IInv, NEW w \in Worker, EndReload(w)
    PROVE  IInv'
<1> USE ServerTableAssumption DEF IInv, RoutesLead, TypeOK
<1> DEFINE gone == Leaving(w)
<1>1. /\ gone \in SUBSET Server
      /\ \A s \in Server : s \in gone <=> config[s] > 0 /\ s \notin worker[w].load
  BY DEF Leaving, Configured
<1>2. /\ Remove(gone) /\ worker[w].at = "run" /\ Reloading(w)
      /\ worker' = [Orphaned(gone) EXCEPT ![w] = Idle]
      /\ UNCHANGED <<managed, touched, file, seen>>
      /\ fresh' = FALSE /\ captured' = Static
  BY DEF EndReload, outside
<1>3. /\ config' \in [Server -> 0..MaxCopies]
      /\ \A s \in Server : config'[s] = IF s \in worker[w].load THEN config[s] ELSE 0
  BY DEF EndReload
<1>4. fresh' \in BOOLEAN /\ captured' \subseteq Server
  BY <1>2 DEF Static, Configured
<1>5. /\ DOMAIN worker' = Worker /\ worker' = [v \in Worker |-> worker'[v]]
      /\ worker'[w] = Idle
      /\ \A v \in Worker \ {w} : worker'[v] = Orphaned(gone)[v]
  BY <1>2 DEF Orphaned
<1>6. ASSUME NEW s \in Server \ touched'
      PROVE  /\ s \in gone => /\ config[s] = 1 \/ s \in managed
                              /\ config'[s] = 0 /\ s \notin managed'
             /\ s \notin gone => /\ config'[s] = config[s]
                                 /\ s \in managed' <=> s \in managed
  <2>1. Owned(s) /\ config[s] \in 0..MaxCopies
    BY <1>2
  <2>2. CASE s \in gone
    <3>1. config[s] = 1 /\ s \notin managed
      BY <1>1, <2>1, <2>2 DEF Owned
    <3> QED BY <1>1, <1>2, <1>3, <2>2, <3>1
  <2>3. CASE s \notin gone
    BY <1>1, <1>2, <1>3, <2>1, <2>3
  <2> QED BY <2>2, <2>3
<1>7. ASSUME NEW v \in Worker, Reloading(v)', worker'[v].alone PROVE FALSE
  <2>1. v # w
    BY <1>5, <1>7 DEF Idle
  <2>2. worker'[v].op = worker[v].op /\ worker'[v].alone = worker[v].alone
    BY <1>1, <1>5, <2>1, OrphanedFacts
  <2>3. Reloading(v) /\ worker[v].alone
    BY <1>7, <2>2 DEF Reloading
  <2> QED BY <1>2, <2>1, <2>3 DEF LoneReload
<1> HIDE DEF gone
<1> QED BY <1>1, <1>2, <1>3, <1>4, <1>5, <1>6, <1>7, RemovalIInv

\* The end of a reconciliation removes what only discovery accounted for.
LEMMA EndReconcileIInv ==
    ASSUME IInv, NEW w \in Worker, EndReconcile(w)
    PROVE  IInv'
<1> USE ServerTableAssumption DEF IInv, RoutesLead, TypeOK
<1> DEFINE gone == Gone(w)
<1>1. gone \in SUBSET Server /\ gone \subseteq managed
  BY DEF Gone
<1>2. /\ Remove(gone) /\ worker[w].at = "run" /\ managed' = managed \ gone
      /\ worker' = [Orphaned(gone) EXCEPT ![w] = Idle]
      /\ UNCHANGED <<config, fresh, captured, touched, file, seen>>
  BY DEF EndReconcile, Forgetting, outside
<1>3. /\ DOMAIN worker' = Worker /\ worker' = [v \in Worker |-> worker'[v]]
      /\ worker'[w] = Idle
      /\ \A v \in Worker \ {w} : worker'[v] = Orphaned(gone)[v]
  BY <1>2 DEF Orphaned
<1>4. ASSUME NEW s \in Server \ touched'
      PROVE  /\ s \in gone => /\ config[s] = 1 \/ s \in managed
                              /\ config'[s] = 0 /\ s \notin managed'
             /\ s \notin gone => /\ config'[s] = config[s]
                                 /\ s \in managed' <=> s \in managed
  <2>1. Owned(s)
    BY <1>2
  <2> QED BY <1>1, <1>2, <2>1 DEF Owned
<1> HIDE DEF gone
<1> QED BY <1>1, <1>2, <1>3, <1>4, RemovalIInv

\* DELETE /servers/:id removes one server, which an administrator has touched
\* from then on.
LEMMA DeleteIInv ==
    ASSUME IInv, NEW s \in Server, Delete(s)
    PROVE  IInv'
<1> USE DEF IInv, RoutesLead, TypeOK
<1>1. /\ Remove({s}) /\ Spliced(s) /\ touched' = touched \union {s}
      /\ worker' = Orphaned({s})
      /\ UNCHANGED <<fresh, captured, managed, file, seen>>
  BY DEF Delete, outside
<1>2. DOMAIN worker' = Worker /\ worker' = [v \in Worker |-> worker'[v]]
  BY <1>1 DEF Orphaned
<1>3. \A r \in Server \ touched' :
          r \notin {s} /\ config'[r] = config[r] /\ (r \in managed' <=> r \in managed)
  BY <1>1, SplicedFacts
<1>4. config' \in [Server -> 0..MaxCopies]
  BY <1>1, SplicedFacts
<1>5. /\ {s} \in SUBSET Server /\ fresh' \in BOOLEAN /\ captured' \subseteq Server
      /\ managed' \subseteq Server /\ touched' \subseteq Server /\ touched \subseteq touched'
  BY <1>1
<1> QED BY <1>1, <1>2, <1>3, <1>4, <1>5, RemovalIInv

\* POST /servers that replaces: the old entry is gone, whoever awaited it holds
\* none, and the id is an administrator's from then on.
LEMMA ReplaceIInv ==
    ASSUME IInv, NEW w \in Worker, NEW s \in Server, Import(w, s), worker[w].holds
    PROVE  IInv'
<1> USE ServerTableAssumption DEF IInv, RoutesLead, TypeOK
<1> DEFINE new == [healthy |-> FALSE, tools |-> {}]
           next == [Orphaned({s})[w] EXCEPT !.at = "list", !.cur = s, !.holds = TRUE]
<1>1. /\ worker[w].at = "check"
      /\ servers' = [servers EXCEPT ![s] = new]
      /\ clients' = [clients EXCEPT ![s] = "own"]
      /\ routes' = IF s \in Registered THEN Rebuilt(Without({s})) ELSE routes
      /\ Spliced(s) /\ touched' = touched \union {s}
      /\ UNCHANGED <<fresh, captured, managed, file, seen>>
  BY DEF Import, outside
<1>2. worker' = [Orphaned({s}) EXCEPT ![w] = next]
  BY DEF Import
<1>3. /\ Orphaned({s})[w] \in Operation /\ Orphaned({s})[w].op = worker[w].op
  BY OrphanedFacts
<1>4. /\ next \in Operation /\ next.at = "list" /\ next.cur = s /\ next.holds = TRUE
      /\ next.op = "import"
  BY <1>1, <1>3 DEF Operation, Roles
<1>5. /\ worker' = [v \in Worker |-> IF v = w THEN next ELSE Orphaned({s})[v]]
  BY <1>2 DEF Orphaned
<1> HIDE DEF next
<1>6. /\ worker' \in [Worker -> Operation] /\ worker'[w] = next
      /\ \A v \in Worker \ {w} :
            /\ worker'[v].at = worker[v].at /\ worker'[v].op = worker[v].op
            /\ worker'[v].cur = worker[v].cur /\ worker'[v].load = worker[v].load
            /\ worker'[v].todo = worker[v].todo /\ worker'[v].failed = worker[v].failed
            /\ worker'[v].alone = worker[v].alone
            /\ worker'[v].holds <=> worker[v].holds /\ worker[v].cur # s
  BY <1>4, <1>5, OrphanedFacts
<1>7. new \in Entry /\ new # None
  <2>1. new \in Entry
    BY DEF Entry
  <2> QED BY <2>1
<1>8. /\ servers' \in [Server -> Entry \union {None}] /\ servers'[s] # None
      /\ \A r \in Server \ {s} : servers'[r] = servers[r]
  BY <1>1, <1>7
<1>9. /\ clients' \in [Server -> {"none", "own", "other"}] /\ clients'[s] # "none"
      /\ \A r \in Server \ {s} : clients'[r] = clients[r]
  BY <1>1
<1>10. Leads(routes', servers')
  <2>1. CASE s \in Registered
    <3>1. Without({s}) \in [Server -> Entry \union {None}]
      BY DEF Without
    <3>2. Leads(routes', Without({s}))
      BY <1>1, <2>1, <3>1, RebuiltLeads
    <3>3. \A r \in Server : Without({s})[r] # None => servers'[r] # None
      BY <1>8 DEF Without
    <3> QED BY <3>2, <3>3, LeadsGrows
  <2>2. CASE s \notin Registered
    <3>1. Leads(routes, servers)
      BY DEF Leads, Registered
    <3>2. \A r \in Server : servers[r] # None => servers'[r] # None
      BY <1>8
    <3> QED BY <1>1, <2>2, <3>1, <3>2, LeadsGrows
  <2> QED BY <2>1, <2>2
<1>11. /\ config' \in [Server -> 0..MaxCopies]
       /\ \A r \in Server \ {s} : config'[r] = config[r]
  BY <1>1, SplicedFacts
<1>12. RoutesLead'
  <2>1. TypeOK'
    <3>1. /\ touched' \subseteq Server
          /\ UNCHANGED <<fresh, captured, managed, file, seen>>
      BY <1>1
    <3>2. \A r \in routes' : r.server \in Server /\ r.tool \in Tool
                              /\ r.name = Named(r.server, r.tool, Strategy)
      BY <1>10 DEF Leads
    <3> QED BY <1>6, <1>8, <1>9, <1>11, <3>1, <3>2
  <2>2. \A r \in Server : servers'[r] # None <=> clients'[r] # "none"
    BY <1>8, <1>9 DEF Registered
  <2>3. Strategy = "prefix" =>
            \A r \in routes' : r.server \in Server /\ servers'[r.server] # None
    BY <1>10 DEF Leads
  <2> HIDE DEF TypeOK
  <2> QED BY <2>1, <2>2, <2>3 DEF Registered
<1>13. Roles'
  BY <1>1, <1>4, <1>6 DEF Roles
<1>14. Held'
  BY <1>1, <1>4, <1>6, <1>8 DEF Held, Roles
<1>15. ASSUME NEW r \in Server \ touched' PROVE Owned(r)'
  <2>1. r # s /\ Owned(r)
    BY <1>1
  <2>2. \A v \in Worker : Adds(v, r)' <=> Adds(v, r)
    BY <1>1, <1>4, <1>6, <2>1 DEF Adds
  <2> QED BY <1>1, <1>8, <1>11, <2>1, <2>2 DEF Owned
<1>16. LoneReload'
  <2>1. ASSUME NEW v \in Worker, Reloading(v)', worker'[v].alone
        PROVE  /\ \A u \in Worker \ {v} : ~Reloading(u)'
               /\ \A r \in worker'[v].load \ (worker'[v].failed \union touched') :
                      r \in worker'[v].todo \/ config'[r] > 0
    <3>1. v # w
      BY <1>4, <1>6, <2>1 DEF Reloading
    <3>2. /\ Reloading(v) /\ worker[v].alone /\ worker'[v].load = worker[v].load
          /\ worker'[v].todo = worker[v].todo /\ worker'[v].failed = worker[v].failed
          /\ worker[v].load \subseteq Server
      BY <1>6, <2>1, <3>1 DEF Reloading, Operation
    <3>3. \A u \in Worker \ {v} : ~Reloading(u)'
      BY <1>4, <1>6, <3>2 DEF LoneReload, Reloading
    <3> QED BY <1>1, <1>11, <3>2, <3>3 DEF LoneReload
  <2> QED BY <2>1 DEF LoneReload
<1> QED BY <1>12, <1>13, <1>14, <1>15, <1>16

\* POST /servers, whether it replaces or not.
LEMMA ImportIInv ==
    ASSUME IInv, NEW w \in Worker, NEW s \in Server, Import(w, s)
    PROVE  IInv'
<1>1. CASE worker[w].holds
  BY <1>1, ReplaceIInv
<1>2. CASE ~worker[w].holds
  <2>1. /\ worker[w].at = "check" /\ s \notin Registered /\ Register(s)
        /\ worker' = [worker EXCEPT ![w].at = "list", ![w].cur = s, ![w].holds = TRUE]
        /\ UNCHANGED <<config, fresh, captured, routes, managed, touched, file, seen>>
    BY <1>2 DEF Import, outside
  <2>2. worker[w] \in Operation /\ worker[w].op = "import"
    BY <2>1 DEF IInv, RoutesLead, TypeOK, Roles
  <2>3. [worker[w] EXCEPT !.at = "list", !.cur = s, !.holds = TRUE] \in Operation
    BY <2>2 DEF Operation
  <2> QED BY <2>1, <2>2, <2>3, AddIInv
<1> QED BY <1>1, <1>2

\* Every step keeps the invariant.
LEMMA NextIInv == IInv /\ [Next]_vars => IInv'
<1> SUFFICES ASSUME IInv, [Next]_vars PROVE IInv'
  OBVIOUS
<1>1. ASSUME NEW w \in Worker, Step(w) PROVE IInv'
  BY <1>1, TakeUpIInv, ImportIInv, ListedIInv, EndReloadIInv, EndReconcileIInv,
     StartIInv, EntryIInv DEF Step
<1>2. ASSUME NEW w \in Worker,
             \/ BeginReload(w) \/ BeginReconcile(w)
             \/ \E s \in Server : BeginRefresh(w, s)
                                  \/ \E replace \in BOOLEAN : BeginImport(w, s, replace)
      PROVE  IInv'
  BY <1>2, BeginReloadIInv, StartIInv
<1>3. ASSUME NEW s \in Server,
             Heartbeat(s) \/ Deregister(s) \/ Lapse(s) \/ Delete(s) \/ CheckHealth(s)
      PROVE  IInv'
  BY <1>3, OutsideIInv, DeleteIInv, EntryIInv
<1>4. CASE Edit
  BY <1>4, OutsideIInv
<1>5. CASE UNCHANGED vars
  BY <1>5, QuietIInv DEF vars, IInv, RoutesLead, TypeOK
<1> QED BY <1>1, <1>2, <1>3, <1>4, <1>5 DEF Next

----------------------------------------------------------------------------
(* The theorems.                                                           *)

\* The inductive invariant holds in every behaviour.
THEOREM Invariance == Spec => []IInv
BY InitIInv, NextIInv, PTL DEF Spec

\* No name leads to a server that is gone, and a server has a client exactly
\* while it is registered (registry.ts:241-263), for any number of servers and
\* of operations in progress.
THEOREM RoutesAlwaysLead == Spec => []RoutesLead
<1>1. IInv => RoutesLead
  BY DEF IInv
<1> QED BY <1>1, Invariance, PTL

\* Counting owners says the same as naming them.
LEMMA OwnedCounts ==
    ASSUME IInv, NEW s \in Server \ touched
    PROVE  config[s] + Cardinality({s} \cap managed) + Cardinality(Adding(s))
               = Cardinality({s} \cap Registered)
<1>1. Owned(s)
  BY DEF IInv
<1>2. /\ Cardinality({}) = 0 /\ Cardinality({s}) = 1
      /\ \A w \in Worker : Cardinality({w}) = 1
  BY FS_EmptySet, FS_Singleton
<1>3. Cardinality({s} \cap managed) = IF s \in managed THEN 1 ELSE 0
  <2>1. {s} \cap managed = IF s \in managed THEN {s} ELSE {}
    OBVIOUS
  <2> QED BY <1>2, <2>1
<1>4. Cardinality({s} \cap Registered) = IF servers[s] # None THEN 1 ELSE 0
  <2>1. {s} \cap Registered = IF servers[s] # None THEN {s} ELSE {}
    BY DEF Registered
  <2> QED BY <1>2, <2>1
<1>5. CASE \E w \in Worker : Adds(w, s)
  <2>1. PICK w \in Worker : Adds(w, s)
    BY <1>5
  <2>2. Adding(s) = {w}
    BY <1>1, <2>1 DEF Owned, Adding, Adds
  <2> QED BY <1>1, <1>2, <1>3, <1>4, <2>1, <2>2 DEF Owned
<1>6. CASE ~\E w \in Worker : Adds(w, s)
  <2>1. Adding(s) = {}
    BY <1>6 DEF Adding, Adds
  <2> QED BY <1>1, <1>2, <1>3, <1>4, <1>6, <2>1 DEF Owned
<1> QED BY <1>5, <1>6

\* Whatever reloads, discovery and imports do to each other, a server that no
\* administrator overruled is registered exactly when one of them, and only
\* one, answers for it (gateway.ts:319-370, manager.ts:84-144).
THEOREM OneOwnerAlways == Spec => []OneOwner
<1>1. IInv => OneOwner
  BY OwnedCounts DEF OneOwner
<1> QED BY <1>1, Invariance, PTL

\* A reload that met no other has, when it ends, registered every server of its
\* file it has not reported and no administrator has touched, and left nothing
\* registered that only the old file had (gateway.ts:319-370).
THEOREM ReloadAlwaysApplied == Spec => ReloadApplied
<1>1. ASSUME IInv, NEW w \in Worker, EndReload(w), worker[w].alone
      PROVE  /\ worker[w].load \ (worker[w].failed \union touched) \subseteq Registered'
             /\ Registered' \ touched \subseteq
                   worker[w].load \union managed \union {s \in Server : Adding(s) # {}}
  <2> USE DEF IInv, RoutesLead, TypeOK
  <2>1. /\ Remove(Leaving(w)) /\ worker[w].todo = {} /\ Reloading(w)
        /\ Leaving(w) \in SUBSET Server
    BY <1>1 DEF EndReload, Leaving, Configured
  <2>2. \A s \in Server : servers'[s] # None <=> servers[s] # None /\ s \notin Leaving(w)
    BY <1>1, <2>1, RemoveFacts
  <2>3. ASSUME NEW s \in worker[w].load \ (worker[w].failed \union touched)
        PROVE  s \in Registered'
    <3>1. s \in Server /\ s \notin Leaving(w)
      BY <1>1 DEF Operation, Leaving
    <3>2. config[s] > 0
      BY <1>1, <2>1 DEF LoneReload
    <3>3. servers[s] # None
      BY <1>1, <3>1, <3>2 DEF Owned
    <3> QED BY <2>2, <3>1, <3>3 DEF Registered
  <2>4. ASSUME NEW s \in Registered' \ touched
        PROVE  s \in worker[w].load \union managed \union {r \in Server : Adding(r) # {}}
    <3>1. s \in Server /\ servers[s] # None /\ s \notin Leaving(w)
      BY <2>2 DEF Registered
    <3>2. config[s] = 1 \/ s \in managed \/ \E v \in Worker : Adds(v, s)
      BY <1>1, <3>1 DEF Owned
    <3>3. config[s] = 1 => s \in worker[w].load
      BY <3>1 DEF Leaving, Configured
    <3>4. (\E v \in Worker : Adds(v, s)) => Adding(s) # {}
      BY DEF Adds, Adding
    <3> QED BY <3>1, <3>2, <3>3, <3>4
  <2> QED BY <2>3, <2>4
<1>2. IInv /\ [Next]_vars =>
          [\A w \in Worker :
              EndReload(w) /\ worker[w].alone =>
                  /\ worker[w].load \ (worker[w].failed \union touched) \subseteq Registered'
                  /\ Registered' \ touched \subseteq
                        worker[w].load \union managed
                            \union {s \in Server : Adding(s) # {}}]_vars
  BY <1>1
<1> QED BY <1>2, Invariance, PTL DEF Spec, ReloadApplied
=============================================================================
