----------------------------- MODULE ToolAccess -----------------------------
(***************************************************************************)
(* Whose tool a name means, who may call it, with which account, and whose *)
(* answer a caller gets: tools/list and tools/call of                      *)
(* src/gateway/pipeline.ts over the name map, the policies, the connected  *)
(* accounts and the entries that callers share.                            *)
(*                                                                         *)
(* A call is judged where it arrives, looks its answer up after the awaits *)
(* of quotas, limits and hooks, and is answered when the upstream is done. *)
(* Reloads, refreshes of tool lists, outages and the administrator's       *)
(* changes of accounts come in between.                                    *)
(***************************************************************************)
EXTENDS Identity, AccessPolicy, Namespace

CONSTANTS
    Client, Server, Tool,
    TenantOf,    \* TenantOf[c]: the tenant it was given its credentials for
    Scenes,      \* the configurations, and what may change under each
    MaxRows      \* connected accounts ever made

ASSUME ToolAccessAssumption ==
    /\ None \notin Client \union Server
    /\ {"profile", "gateway"} \cap Server = {}
    /\ MaxRows \in Nat
    /\ \A sc \in Scenes :
          /\ sc.strategy \in Strategies
          /\ \A s \in Server : sc.offers[s] \subseteq SUBSET Tool
          /\ \A s \in Server : sc.needs[s] \in Needs \union {None}

\* The fields of a call's arguments that guardrails look at.
Looked(guardrails) ==
    UNION {{k.field : k \in guardrails.rules[i].conditions} :
              i \in DOMAIN guardrails.rules}

\* Arguments are total: one that is missing is Absent.
ASSUME ArgumentsAssumption ==
    \A sc \in Scenes : \A args \in sc.args, r \in sc.rules :
        Looked(r.guardrails) \subseteq DOMAIN args

\* What a client presents is its own, or nothing that the gateway knows.
ASSUME CredentialsAssumption ==
    \A sc \in Scenes : sc.auth.method # "none" =>
        \A c \in Client : Authenticated(sc.headers[c], sc.auth)
                            \in {None, Principal(c, TenantOf[c])}

VARIABLES
    scene,       \* the configuration in force, a member of Scenes
    rules,       \* its ACL, tool policies and guardrails, which a reload may replace
    accounts,    \* connected_accounts
    tools,       \* tools[s]: what the registry knows that s offers
    healthy,     \* the servers whose health the registry reports as good
    routable,    \* those with a healthy replica whose breaker is not open
    routes,      \* namespaceMap
    cache,       \* the answers that are kept, each with its key
    call         \* call[c]: the call client c has under way

vars == <<scene, rules, accounts, tools, healthy, routable, routes, cache, call>>
topology == <<tools, healthy, routable, routes>>

Endpoint == Server \union {"profile", "gateway"}
Unknown == "unknown"      \* a name in full where a tool's own name is meant
Names == {<<t>> : t \in Tool} \union (Server \X Tool)
Args == UNION {sc.args : sc \in Scenes}
Answers == [server : Server, tool : Tool \union {Unknown}, client : Client, args : Args]

Nothing == [phase |-> "idle", server |-> None, tool |-> None, args |-> None,
            key |-> None, row |-> 0, got |-> None]

\* The principal of a client's requests.
Caller(c) == Authenticated(scene.headers[c], scene.auth)
ClientId(c) == Caller(c).client
TenantId(c) == Caller(c).tenant
Known == {c \in Client : Caller(c) # None}
Trusting == scene.auth.method = "none"

\* Whom the gateway takes c for, if it lets c in.
Holder(c) ==
    IF Trusting THEN Principal("anonymous", "default") ELSE Principal(c, TenantOf[c])

----------------------------------------------------------------------------
(* Names, policies and lists, as the code computes them at one moment.     *)

\* getClientForServer: a replica that is healthy and whose breaker is not open.
Routable(s) == s \in routable

\* getProfileServerIdSet, of the endpoint of a profile.
Members(e) == IF e = "profile" THEN scene.profile ELSE Server

TryTool(name) == IF Len(name) = 1 THEN name[1] ELSE Unknown

\* The target of a call: of the endpoint's server if that has a client, of the
\* name otherwise.
Target(e, name) ==
    LET found == Resolved(name, routes, scene.strategy)
        route == CHOOSE r \in found : TRUE
    IN  IF Routable(e)
        THEN [server |-> e, routed |-> TRUE,
              tool |-> IF found # {} /\ route.server = e THEN route.tool ELSE TryTool(name)]
        ELSE IF found # {} /\ Routable(route.server)
        THEN [server |-> route.server, routed |-> TRUE, tool |-> route.tool]
        ELSE [server |-> e, routed |-> FALSE, tool |-> TryTool(name)]

\* Does handleToolCall let the call pass its checks?
Passes(c, e, name) ==
    LET t == Target(e, name)
    IN  /\ c \in Known /\ t.routed /\ t.server \in Members(e)
        /\ Permitted(rules, ClientId(c), t.server, t.tool)

\* getAggregatedToolsWithServerIds: by the name map, of the healthy servers.
Advertised == {r \in routes : r.server \in healthy /\ r.tool \in tools[r.server]}

\* Seeded fault: a profile lists the tools of every server.
AggregatedOfAll(c, e) ==
    {r \in Advertised : Permitted(rules, ClientId(c), r.server, r.tool)}

\* handleToolsList, of the profile's servers and what the policies let pass.
Aggregated(c, e) ==
    {r \in Advertised : /\ r.server \in Members(e)
                        /\ Permitted(rules, ClientId(c), r.server, r.tool)}

\* What tools/list answers a client: names with the tool each stands for.  An
\* upstream's own list is passed on (and remembered) before it is filtered.
Listing(c, e) ==
    IF Routable(e)
    THEN {[name |-> <<t>>, server |-> e, tool |-> t] :
             t \in {u \in tools[e] : Permitted(rules, ClientId(c), e, u)}}
    ELSE Aggregated(c, e)

----------------------------------------------------------------------------
\* rebuildNamespaceMap: from the healthy servers; on a conflict the old map
\* stays.
Rebuilt(table, well) ==
    LET known == [s \in well |-> table[s]]
    IN  IF CanMap(known, scene.strategy) THEN RoutesOf(known, scene.strategy) ELSE routes

Init ==
    /\ scene \in Scenes
    /\ rules \in scene.rules
    /\ accounts = <<>>
    /\ tools \in [Server -> UNION {scene.offers[s] : s \in Server}]
    /\ \A s \in Server : tools[s] \in scene.offers[s]
    /\ healthy = Server /\ routable = Server
    /\ routes = IF CanMap(tools, scene.strategy) THEN RoutesOf(tools, scene.strategy) ELSE {}
    /\ cache = {}
    /\ call = [c \in Client |-> Nothing]

\* The guardrails' verdict on a call.  Of their actions only a block ends it: an
\* approval may be there, and neither alert nor transform changes anything.
Screened(c, server, tool, args) ==
    IF rules.guardrails.enabled
    THEN GuardrailAction(rules.guardrails, ClientId(c), server, tool, args)
    ELSE "allow"

\* A call that passes its checks: what they were about is what it will do.
Judge(c, e, name, args) ==
    /\ call[c].phase = "idle" /\ c \in scene.callers /\ Passes(c, e, name)
    /\ Screened(c, Target(e, name).server, Target(e, name).tool, args) # "block"
    /\ call' = [call EXCEPT ![c].phase = "judged", ![c].args = args,
                            ![c].server = Target(e, name).server,
                            ![c].tool = Target(e, name).tool]
    /\ UNCHANGED <<scene, rules, accounts, topology, cache>>

\* Turned away for an approval, a quota, a limit or a hook.
TurnedAway(c) ==
    /\ call[c].phase = "judged"
    /\ call' = [call EXCEPT ![c] = Nothing]
    /\ UNCHANGED <<scene, rules, accounts, topology, cache>>

\* getAnnotations of what the registry knows now, and decideCachePolicy.
PolicyOf(s, t) ==
    CacheDecision({o \in scene.overrides : o.server = s /\ o.tool = t},
                  IF t \in tools[s] THEN scene.annotation[t] ELSE "none",
                  scene.ttl)

\* What the header that isolation looks at says, None if it is missing.
Said(c) ==
    IF scene.header = "authorization" THEN ExtractTenantId(scene.headers[c].authorization)
    ELSE scene.headers[c].custom

\* Seeded fault: a header overrides the tenant of the credentials.
SaidTenant(c) ==
    IF ~scene.isolation THEN None
    ELSE IF Said(c) # None THEN Said(c) ELSE TenantId(c)

\* The tenant that handleToolCall isolates by: with authentication, only that
\* of the credentials.
CacheTenant(c) ==
    IF ~scene.isolation THEN None
    ELSE IF Trusting /\ Said(c) # None THEN Said(c) ELSE TenantId(c)

\* filterArgs.
Kept(args, ignored) == [f \in DOMAIN args |-> IF f \in ignored THEN Absent ELSE args[f]]

Ignored(c) == PolicyOf(call[c].server, call[c].tool).ignores

\* Seeded fault: the key does not name the tenant.
KeyOfAll(c) ==
    [server |-> call[c].server, tool |-> call[c].tool, tenant |-> None,
     args |-> Kept(call[c].args, Ignored(c))]

\* Seeded fault: the key leaves the arguments out.
KeyOfAnyArgs(c) ==
    [server |-> call[c].server, tool |-> call[c].tool, tenant |-> CacheTenant(c),
     args |-> <<>>]

\* generateCacheKey; the group, which a header names and which only divides
\* further, is left out.
KeyOf(c) ==
    [server |-> call[c].server, tool |-> call[c].tool, tenant |-> CacheTenant(c),
     args |-> Kept(call[c].args, Ignored(c))]

At(key) == {entry \in cache : entry.key = key}

Dropped(c) ==
    {entry \in cache : ~ /\ entry.key.server = call[c].server
                         /\ entry.key.tool \in PolicyOf(call[c].server, call[c].tool).drops}

\* buildExtraHeaders: the upstream's requirement is met when a call is sent,
\* or the call is refused.
Send(c, key) ==
    LET needs == scene.needs[call[c].server]
        rows == Usable(accounts, scene.identity, needs, ClientId(c), TenantId(c))
    IN  IF Throws(accounts, scene.identity, needs, ClientId(c), TenantId(c))
        THEN call' = [call EXCEPT ![c] = Nothing]
        ELSE \E row \in rows \union (IF rows = {} THEN {0} ELSE {}) :
                call' = [call EXCEPT ![c].phase = "sent", ![c].key = key, ![c].row = row]

\* The step after the awaits, for an answer that is not to be kept.
Bypass(c) ==
    /\ call[c].phase = "judged"
    /\ PolicyOf(call[c].server, call[c].tool).ttl = 0
    /\ cache' = Dropped(c)
    /\ Send(c, None)
    /\ UNCHANGED <<scene, rules, accounts, topology>>

Lookup(c) ==
    /\ call[c].phase = "judged"
    /\ PolicyOf(call[c].server, call[c].tool).ttl > 0
    /\ LET key == KeyOf(c)
       IN  IF At(key) # {}
           THEN \E entry \in At(key) :
                   call' = [call EXCEPT ![c].phase = "done", ![c].got = entry.got]
           ELSE IF \E d \in Client : call[d].phase = "sent" /\ call[d].key = key
           THEN call' = [call EXCEPT ![c].phase = "joined", ![c].key = key]
           ELSE Send(c, key)
    /\ UNCHANGED <<scene, rules, accounts, topology, cache>>

\* Seeded fault: whoever waits for a tool's answer gets the next one.
SharersByTool(c) ==
    {d \in Client : /\ call[d].phase = "joined"
                    /\ call[d].tool = call[c].tool} \union {c}

\* deduplicate: the call and those that joined it, if it has a key at all.
Sharers(c) ==
    {d \in Client : /\ call[d].phase = "joined" /\ call[c].key # None
                    /\ call[d].key = call[c].key} \union {c}

\* The upstream's answer, kept unless it is an error of the tool.
Answered(c) ==
    LET got == [server |-> call[c].server, tool |-> call[c].tool,
                client |-> c, args |-> call[c].args]
    IN  /\ call[c].phase = "sent"
        /\ call' = [d \in Client |-> IF d \in Sharers(c)
                       THEN [call[d] EXCEPT !.phase = "done", !.got = got] ELSE call[d]]
        /\ \/ cache' = cache
           \/ /\ call[c].key # None
              /\ cache' = (cache \ At(call[c].key)) \union {[key |-> call[c].key, got |-> got]}
        /\ UNCHANGED <<scene, rules, accounts, topology>>

Failed(c) ==
    /\ call[c].phase = "sent"
    /\ call' = [d \in Client |-> IF d \in Sharers(c) THEN Nothing ELSE call[d]]
    /\ UNCHANGED <<scene, rules, accounts, topology, cache>>

Take(c) ==
    /\ call[c].phase = "done"
    /\ call' = [call EXCEPT ![c] = Nothing]
    /\ UNCHANGED <<scene, rules, accounts, topology, cache>>

\* An entry expires, is evicted or is purged.
Evict(entry) ==
    /\ cache' = cache \ {entry}
    /\ UNCHANGED <<scene, rules, accounts, topology, call>>

----------------------------------------------------------------------------
(* What changes around the calls.                                          *)

\* reload: the ACL and the tool policies of the file; other parts stay.
Reload(new) ==
    /\ new \in scene.rules /\ rules' = new
    /\ UNCHANGED <<scene, accounts, topology, cache, call>>

\* updateAnnotations, with whatever list the upstream answered some client.
Relist(s, offered) ==
    /\ Routable(s) /\ offered \in scene.offers[s] /\ offered # tools[s]
    /\ tools' = [tools EXCEPT ![s] = offered]
    /\ routes' = Rebuilt(tools', healthy)
    /\ UNCHANGED <<scene, rules, accounts, healthy, routable, cache, call>>

\* refreshServer, which leaves the name map as it is.
Refresh(s, offered) ==
    /\ scene.outages /\ offered \in scene.offers[s]
    /\ tools' = [tools EXCEPT ![s] = offered]
    /\ healthy' = healthy \union {s} /\ routable' = routable \union {s}
    /\ UNCHANGED <<scene, rules, accounts, routes, cache, call>>

RefreshFails(s) ==
    /\ scene.outages /\ s \in healthy
    /\ healthy' = healthy \ {s}
    /\ UNCHANGED <<scene, rules, accounts, tools, routable, routes, cache, call>>

\* A breaker or a replica's health record changes sides.
Turn(s) ==
    /\ scene.outages
    /\ routable' = IF s \in routable THEN routable \ {s} ELSE routable \union {s}
    /\ UNCHANGED <<scene, rules, accounts, tools, healthy, routes, cache, call>>

\* runHealthChecks, once the replicas have answered.
CheckHealth ==
    /\ scene.outages
    /\ healthy' = routable
    /\ routes' = Rebuilt(tools, routable)
    /\ UNCHANGED <<scene, rules, accounts, tools, routable, cache, call>>

LastStamp == IF accounts = <<>> THEN 0 ELSE accounts[Len(accounts)].stamp

\* POST /accounts: createConnectedAccount, one transaction.
Connect(slot, replace, later) ==
    /\ slot \in scene.slots /\ Len(accounts) < MaxRows
    /\ LET kept == IF replace
                   THEN Replaced(accounts, slot.workspace, slot.client, slot.tenant)
                   ELSE accounts
       IN  accounts' = Created(kept, slot.workspace, slot.client, slot.tenant,
                               LastStamp + later)
    /\ UNCHANGED <<scene, rules, topology, cache, call>>

\* POST /accounts/:id/revoke.
Revoke(i) ==
    /\ i \in Live(accounts)
    /\ accounts' = [accounts EXCEPT ![i].live = FALSE]
    /\ UNCHANGED <<scene, rules, topology, cache, call>>

Step(c) == Bypass(c) \/ Lookup(c) \/ Answered(c) \/ Failed(c) \/ Take(c)

Next ==
    \/ \E c \in Client : \/ \E e \in Endpoint, n \in Names, args \in scene.args :
                               Judge(c, e, n, args)
                         \/ TurnedAway(c) \/ Step(c)
    \/ \E entry \in cache : Evict(entry)
    \/ \E new \in scene.rules : Reload(new)
    \/ \E s \in Server : \/ \E offered \in scene.offers[s] : Relist(s, offered)
                         \/ \E offered \in scene.offers[s] : Refresh(s, offered)
                         \/ RefreshFails(s) \/ Turn(s)
    \/ CheckHealth
    \/ \E slot \in scene.slots, replace \in BOOLEAN, later \in {0, 1} :
          Connect(slot, replace, later)
    \/ \E i \in DOMAIN accounts : Revoke(i)

Spec == Init /\ [][Next]_vars

----------------------------------------------------------------------------
\* Of the key a call has, see KeyOf.
CallType ==
    [phase : {"idle", "judged", "joined", "sent", "done"},
     server : Server \union {None}, tool : Tool \union {Unknown, None},
     args : Args \union {None}, key : {None}, row : 0 .. MaxRows,
     got : Answers \union {None}]

TypeOK ==
    /\ scene \in Scenes /\ rules \in scene.rules
    /\ tools \in [Server -> SUBSET Tool]
    /\ healthy \in SUBSET Server /\ routable \in SUBSET Server
    /\ \A entry \in cache : entry.got \in Answers /\ At(entry.key) = {entry}
    /\ \A c \in Client : [call[c] EXCEPT !.key = None] \in CallType

(***************************************************************************)
(* What tools/list offers a client, tools/call lets it do (pipeline.ts:919 *)
(* against 233): at every endpoint each listed name, of a server that can  *)
(* be reached, means the tool it was listed for and passes the profile,    *)
(* the ACL and the policies, however stale the name map is.                *)
(***************************************************************************)
ListedIsCallable ==
    \A c \in Known, e \in Endpoint : \A l \in Listing(c, e) :
        Routable(l.server) =>
            /\ Target(e, l.name).server = l.server /\ Target(e, l.name).tool = l.tool
            /\ Passes(c, e, l.name)

\* Without authentication, a client that says nothing and one that says
\* "default" are of one tenant.
Claimed(c) == IF Said(c) = None THEN "default" ELSE Said(c)

(***************************************************************************)
(* An answer is that of the tool and the arguments the call was judged     *)
(* for, but for those an override ignores, and, where tenants are          *)
(* isolated, was made for a client of the caller's tenant: the one of its  *)
(* credentials if it has any, whatever its headers say (pipeline.ts:674).  *)
(* Nor do shared answers get round the guardrails: unless an override      *)
(* ignores what a rule looks at, the caller could have asked for what the  *)
(* answer was made for.                                                    *)
(* So it is whether the answer comes from the upstream, the cache          *)
(* (cache-key.ts:43) or another caller's call (inflight.ts), and whatever  *)
(* was reloaded or relisted since.                                         *)
(***************************************************************************)
AnswersAreOwn ==
    /\ TypeOK
    /\ \A c \in Client : call[c].phase = "done" =>
          LET got == call[c].got
          IN  /\ got.server = call[c].server /\ got.tool = call[c].tool
              /\ Kept(got.args, Ignored(c)) = Kept(call[c].args, Ignored(c))
              /\ scene.rules = {rules} /\ Looked(rules.guardrails) \cap Ignored(c) = {} =>
                    Screened(c, got.server, got.tool, got.args) # "block"
              /\ scene.isolation =>
                    IF Trusting THEN Claimed(got.client) = Claimed(c)
                    ELSE TenantOf[got.client] = TenantOf[c]

(***************************************************************************)
(* The preflight (identity/runtime.ts:119) tells what a call would meet    *)
(* (255): a required account that it reports as ready lets the call out    *)
(* with a live account of the caller's workspace, never that of another    *)
(* client or tenant, and one it reports as blocking stops the call.        *)
(***************************************************************************)
PreflightHonest ==
    \A c \in Known, s \in Server :
        LET needs == scene.needs[s]
            rows == Usable(accounts, scene.identity, needs, ClientId(c), TenantId(c))
        IN  needs # None /\ needs.required =>
               /\ Throws(accounts, scene.identity, needs, ClientId(c), TenantId(c))
                     <=> Blocking(accounts, scene.identity, needs, ClientId(c), TenantId(c))
               /\ \A i \in rows :
                     /\ accounts[i].live
                     /\ accounts[i].workspace = WorkspaceOf(scene.identity, Holder(c).tenant)
                     /\ accounts[i].client \in {Holder(c).client, None}
                     /\ accounts[i].tenant \in {Holder(c).tenant, None}

(***************************************************************************)
(* Replacing an account takes effect at once: no other account of its slot *)
(* is used again, even one made in the same millisecond (store.ts:127).    *)
(***************************************************************************)
ReplacementWins ==
    [][\A slot \in scene.slots : (\E later \in {0, 1} : Connect(slot, TRUE, later)) =>
          FindOne(accounts', slot.workspace, slot.client, slot.tenant)
             = {Len(accounts')}]_vars
=============================================================================
