--------------------------- MODULE Configuration ---------------------------
(* What makes a configuration: the file merged over the defaults and          *)
(* normalised, the environment put over it, and the checks a configuration    *)
(* must pass (src/config/schema.ts, src/config/loader.ts).                    *)
(*                                                                            *)
(* A section is a record; a key the file does not give is missing from its    *)
(* domain. Kept of a section is what its checks, the reload or the environment*)
(* look at. Names, Urls and Pems are the well-formed identifiers, the         *)
(* absolute URLs and the files that exist; any other string is not. What      *)
(* Number() and String() do to a value of another type is left out.           *)
EXTENDS Integers, Sequences, FiniteSets

CONSTANTS Names, Urls, Pems

Given(r, k) == k \in DOMAIN r
Or(r, k, d) == IF Given(r, k) THEN r[k] ELSE d
Section(c, k) == Or(c, k, <<>>)
Only(r, keys) == [k \in keys \cap DOMAIN r |-> r[k]]
Without(r, k) == [x \in DOMAIN r \ {k} |-> r[x]]
On(r) == Or(r, "enabled", FALSE)
Each(r, k, P(_)) == Given(r, k) => \A i \in DOMAIN r[k] : P(r[k][i])
When(r, k, P(_)) == Given(r, k) => P(r[k])
Distinct(s, k) == \A i, j \in DOMAIN s : s[i][k] = s[j][k] => i = j
MapSeq(s, Op(_)) == [i \in DOMAIN s |-> Op(s[i])]

(* The object spread {...s, ...r}.                                            *)
r ++ s ==
  [k \in DOMAIN r \cup DOMAIN s |-> IF k \in DOMAIN r THEN r[k] ELSE s[k]]

-----------------------------------------------------------------------------
(* Defaults and normalisation.                                                *)

Default ==
  [ gateway       |-> [port |-> 8080, host |-> "loopback"],
    router        |-> [health_check |-> [interval_seconds |-> 30, timeout_ms |-> 5000,
                                         unhealthy_threshold |-> 3]],
    cache         |-> [l1 |-> [max_entries |-> 10000, max_entry_size_kb |-> 64]],
    observability |-> [log_args |-> TRUE, log_responses |-> FALSE, redact_fields |-> "usual",
                       retention_days |-> 30, db_path |-> "logs"],
    metrics       |-> [enabled |-> TRUE, port |-> 9090],
    identity      |-> [enabled |-> FALSE, db_path |-> "identity",
                       default_workspace_id |-> "default", workspaces |-> <<>>],
    governance    |-> [enabled |-> FALSE, db_path |-> "governance",
                       registry_default_action |-> "allow", role_bindings |-> <<>>,
                       tool_policies |-> <<>>, registry_policies |-> <<>>,
                       quotas |-> [workspaces |-> <<>>],
                       approvals |-> [enabled |-> TRUE, ttl_seconds |-> 3600,
                                      required_roles |-> {"owner", "admin", "approver"}]] ]

Releases(raw) ==
  [enabled |-> Or(raw, "enabled", TRUE), source_ref |-> Or(raw, "source_ref", ""),
   active_release_id |-> Or(raw, "active_release_id", ""),
   releases |-> Section(raw, "releases")]

UpstreamAuth(raw) ==
  [k \in {"connected_account", "forward_identity"} \cap DOMAIN raw |->
     IF k = "connected_account"
     THEN Only(raw[k], {"binding", "required"}) ++ [provider |-> Or(raw[k], "provider", "")]
     ELSE Only(raw[k], {"mode"})]

(* A transport other than stdio is forgotten, with the command.               *)
Server(raw) ==
  LET stdio == Or(raw, "transport", "http") = "stdio"
      own   == IF stdio THEN Only(raw, {"transport", "command"}) ELSE <<>>
      url   == IF stdio /\ Or(raw, "url", "") = "" /\ Given(raw, "command")
               THEN "stdio" ELSE Or(raw, "url", "")
  IN [id |-> Or(raw, "id", ""), url |-> url,
      cache |-> Only(Section(raw, "cache"), {"default_ttl", "overrides"})
                ++ [default_ttl |-> 0]]
     ++ own ++ Only(raw, {"replicas"})
     ++ (IF Given(raw, "upstream_auth")
         THEN [upstream_auth |-> UpstreamAuth(raw.upstream_auth)] ELSE <<>>)
     ++ (IF Given(raw, "managed_runtime")
         THEN [managed_runtime |-> Releases(raw.managed_runtime)] ELSE <<>>)

Profile(raw) == [id |-> Or(raw, "id", ""), server_ids |-> Section(raw, "server_ids")]

Connect(raw) ==
  (IF Given(raw, "profiles") THEN [profiles |-> MapSeq(raw.profiles, Profile)] ELSE <<>>)
  ++ (IF Given(raw, "registry")
      THEN [registry |-> Only(raw.registry, {"base_url", "cache_ttl_seconds", "page_size",
                                             "max_pages"})]
      ELSE <<>>)

Workspace(raw) == [id |-> Or(raw, "id", "")] ++ Only(raw, {"tenant_ids"})

Identity(raw) ==
  [enabled |-> Or(raw, "enabled", TRUE),
   workspaces |-> MapSeq(Section(raw, "workspaces"), Workspace)]
  ++ Only(raw, {"db_path", "default_workspace_id"})

Binding(raw) ==
  [workspace_id |-> Or(raw, "workspace_id", ""), role |-> Or(raw, "role", ""),
   clients |-> Or(raw, "clients", {})]

Policy(raw) ==
  [name |-> Or(raw, "name", ""), effect |-> Or(raw, "effect", "deny")] ++ Only(raw, {"roles"})

Limits == {"requests_per_minute", "requests_per_hour", "requests_per_day"}

Quotas(raw) ==
  (IF Given(raw, "default") THEN [default |-> Only(raw.default, Limits)] ELSE <<>>)
  ++ (IF Given(raw, "workspaces")
      THEN [workspaces |-> MapSeq(raw.workspaces,
              LAMBDA q : [workspace_id |-> Or(q, "workspace_id", "")] ++ Only(q, Limits))]
      ELSE <<>>)

(* An unknown default action is forgotten before it could be refused.         *)
Governance(raw) ==
  LET action == Or(raw, "registry_default_action", "")
  IN [enabled |-> Or(raw, "enabled", TRUE)]
     ++ (IF action \in {"allow", "deny"} THEN [registry_default_action |-> action] ELSE <<>>)
     ++ [k \in {"role_bindings", "tool_policies", "registry_policies"} \cap DOMAIN raw |->
           IF k = "role_bindings" THEN MapSeq(raw[k], Binding) ELSE MapSeq(raw[k], Policy)]
     ++ (IF Given(raw, "quotas") THEN [quotas |-> Quotas(raw.quotas)] ELSE <<>>)
     ++ (IF Given(raw, "approvals")
         THEN [approvals |-> Only(raw.approvals, {"enabled", "ttl_seconds", "required_roles"})]
         ELSE <<>>)
     ++ Only(raw, {"db_path"})

SecondCache(raw) ==
  [enabled |-> Or(raw, "enabled", TRUE), redis_url |-> Or(raw, "redis_url", ""),
   default_ttl_multiplier |-> Or(raw, "default_ttl_multiplier", 3)]

(* The sections that have defaults. servers is the defaults' own list when    *)
(* the file gives none.                                                       *)
Filled(raw, defaultServers) ==
  LET Over(k) == Section(raw, k) ++ Default[k]
      router  == Section(raw, "router")
      cache   == Section(raw, "cache")
  IN [ gateway       |-> Over("gateway"),
       router        |-> [health_check |-> Section(router, "health_check")
                                             ++ Default.router.health_check]
                         ++ Only(router, {"circuit_breaker"}),
       cache         |-> [l1 |-> Section(cache, "l1") ++ Default.cache.l1]
                         ++ (IF Given(cache, "l2") THEN [l2 |-> SecondCache(cache.l2)] ELSE <<>>),
       observability |-> Over("observability"),
       metrics       |-> Over("metrics"),
       servers       |-> IF Given(raw, "servers") THEN MapSeq(raw.servers, Server)
                                                  ELSE defaultServers,
       identity      |-> IF Given(raw, "identity") THEN Identity(raw.identity)
                                                   ELSE Default.identity,
       governance    |-> IF Given(raw, "governance") THEN Governance(raw.governance)
                                                     ELSE Default.governance ]

(* mergeWithDefaults. plugins and discovery are known keys no one copies.     *)
Merged(raw, defaultServers) ==
  Filled(raw, defaultServers)
  ++ Only(raw, {"auth", "acl", "rate_limits", "admin", "guardrails"})
  ++ (IF Given(raw, "connect") THEN [connect |-> Connect(raw.connect)] ELSE <<>>)

-----------------------------------------------------------------------------
(* validateConfig, a section at a time.                                       *)

ValidPort(p) == p \in 1..65535

ValidGateway(gateway) ==
  LET tls == Section(gateway, "tls")
  IN /\ ValidPort(gateway.port)
     /\ On(tls) => {Or(tls, "cert_path", ""), Or(tls, "key_path", "")} \subseteq Pems

ValidRouter(router) ==
  LET breaker == Section(router, "circuit_breaker")
  IN /\ \A k \in {"interval_seconds", "timeout_ms", "unhealthy_threshold"} :
          router.health_check[k] >= 1
     /\ On(breaker) => breaker.failure_threshold > 0

ValidCache(cache) ==
  LET l2 == Or(cache, "l2", [enabled |-> FALSE])
  IN /\ cache.l1.max_entries >= 1
     /\ cache.l1.max_entry_size_kb >= 1
     /\ l2.enabled => l2.redis_url \in Urls /\ l2.default_ttl_multiplier >= 1

ValidMetrics(days, metrics, port) ==
  /\ days >= 1
  /\ ValidPort(metrics.port)
  /\ metrics.enabled => metrics.port # port

ValidRateLimits(rl) ==
  LET queue   == Section(rl, "queue")
      RateOk(l) == When(l, "requests_per_minute", LAMBDA n : n > 0)
  IN On(rl) =>
       /\ When(rl, "global", RateOk)
       /\ When(rl, "per_client", RateOk)
       /\ Or(rl, "backend", "memory") = "redis" => Or(rl, "redis_url", "") \in Urls
       /\ When(queue, "max_wait_ms", LAMBDA n : n >= 0)
       /\ When(queue, "max_queue_size", LAMBDA n : n > 0)

Loopback(host) == host = "loopback"

ValidAuth(auth, admin, host) ==
  /\ Or(auth, "method", "none") = "jwt" => Or(auth, "jwks_url", "") # ""
  /\ \/ Or(admin, "key", "") # ""
     \/ Loopback(host)
     \/ Or(admin, "allow_unauthenticated", FALSE)

ValidIdentity(identity) ==
  LET ws == identity.workspaces
      Tenants(i) == Or(ws[i], "tenant_ids", <<>>)
  IN identity.enabled =>
       /\ When(identity, "default_workspace_id", LAMBDA id : id \in Names)
       /\ \A i \in DOMAIN ws : ws[i].id \in Names
       /\ Distinct(ws, "id")
       /\ \A i, j \in DOMAIN ws : \A a \in DOMAIN Tenants(i), b \in DOMAIN Tenants(j) :
            /\ Tenants(i)[a] # ""
            /\ Tenants(i)[a] = Tenants(j)[b] => i = j /\ a = b

Roles == {"owner", "admin", "approver", "operator", "developer", "viewer"}

ValidPolicies(policies, effects) ==
  /\ \A i \in DOMAIN policies : /\ policies[i].name # ""
                                /\ policies[i].effect \in effects
                                /\ Or(policies[i], "roles", {}) \subseteq Roles
  /\ Distinct(policies, "name")

ValidGovernance(g) ==
  LET quotas    == Section(g, "quotas")
      approvals == Section(g, "approvals")
      Positive(q) == \A k \in Limits \cap DOMAIN q : q[k] > 0
  IN g.enabled =>
       /\ Each(g, "role_bindings",
               LAMBDA b : b.workspace_id \in Names /\ b.role \in Roles /\ b.clients # {})
       /\ ValidPolicies(Section(g, "tool_policies"), {"allow", "deny", "require_approval"})
       /\ ValidPolicies(Section(g, "registry_policies"), {"allow", "deny"})
       /\ Each(quotas, "workspaces", LAMBDA q : q.workspace_id \in Names /\ Positive(q))
       /\ When(quotas, "default", Positive)
       /\ When(approvals, "ttl_seconds", LAMBDA n : n > 0)
       /\ Or(approvals, "required_roles", {}) \subseteq Roles

Actions == {"block", "alert", "require_approval", "transform"}
Operators == {"eq", "neq", "gt", "gte", "lt", "lte", "contains", "not_contains", "matches",
              "exists", "not_exists"}

(* A pattern that does not compile counts as an unknown operator.             *)
ValidRule(r) ==
  /\ r.name # ""
  /\ r.action \in Actions
  /\ Each(r, "conditions", LAMBDA cond : cond.field # "" /\ cond.operator \in Operators)

ValidRules(acl, rails) ==
  /\ On(acl) => Each(acl, "policies", LAMBDA p : Or(p, "clients", {}) # {})
  /\ On(rails) /\ Given(rails, "rules") =>
       /\ Each(rails, "rules", ValidRule)
       /\ Distinct(rails.rules, "name")

ValidServer(s) ==
  LET stdio   == Or(s, "transport", "http") = "stdio"
      managed == Or(s, "managed_runtime", [enabled |-> FALSE])
      auth    == Section(s, "upstream_auth")
  IN /\ s.id \in Names
     /\ stdio => /\ Or(s, "command", "") # ""
                 /\ Section(s, "replicas") = <<>>
                 /\ managed.enabled => managed.source_ref # "" /\ managed.active_release_id # ""
                                       /\ managed.releases # <<>>
     /\ ~stdio => s.url \in Urls /\ ~Given(s, "managed_runtime")
     /\ s.cache.default_ttl >= 0
     /\ When(s.cache, "overrides", LAMBDA o : \A t \in DOMAIN o : Or(o[t], "ttl", 0) >= 0)
     /\ Each(s, "replicas", LAMBDA u : u \in Urls)
     /\ When(auth, "connected_account",
             LAMBDA a : a.provider # ""
                        /\ Or(a, "binding", "client")
                             \in {"client", "tenant", "workspace", "client-or-workspace"})
     /\ When(auth, "forward_identity",
             LAMBDA f : Or(f, "mode", "none") \in {"none", "bearer", "claims-header"})

(* Two servers of one id are not refused.                                     *)
ValidServers(c) == \A i \in DOMAIN c.servers : ValidServer(c.servers[i])

ServerIds(c) == {c.servers[i].id : i \in DOMAIN c.servers}

ValidConnect(c) ==
  LET connect  == Section(c, "connect")
      profiles == Section(connect, "profiles")
      registry == Section(connect, "registry")
  IN /\ \A i \in DOMAIN profiles :
          /\ profiles[i].id \in Names \ {"default"}
          /\ profiles[i].server_ids # <<>>
          /\ \A j \in DOMAIN profiles[i].server_ids : profiles[i].server_ids[j] \in ServerIds(c)
     /\ Distinct(profiles, "id")
     /\ When(registry, "base_url", LAMBDA u : u \in Urls)
     /\ When(registry, "cache_ttl_seconds", LAMBDA n : n >= 1)
     /\ When(registry, "page_size", LAMBDA n : n \in 1..200)
     /\ When(registry, "max_pages", LAMBDA n : n \in 0..1000)

(* What the parts of the gateway that are made once rely on: every section    *)
(* but the servers and the profiles, which the admin API changes unchecked.   *)
SoundSections(c) ==
  /\ ValidGateway(c.gateway) /\ ValidRouter(c.router) /\ ValidCache(c.cache)
  /\ ValidMetrics(c.observability.retention_days, c.metrics, c.gateway.port)
  /\ ValidRateLimits(Section(c, "rate_limits"))
  /\ ValidAuth(Section(c, "auth"), Section(c, "admin"), c.gateway.host)
  /\ ValidIdentity(c.identity) /\ ValidGovernance(c.governance)
  /\ ValidRules(Section(c, "acl"), Section(c, "guardrails"))

Valid(c) == SoundSections(c) /\ ValidServers(c) /\ ValidConnect(c)

-----------------------------------------------------------------------------
(* applyEnvOverrides: env is a record of the variables that are set. A        *)
(* section the variable completes keeps what it has and is enabled.           *)

(* The settings of var whose variables are set.                               *)
FromEnv(var, env) == [k \in {x \in DOMAIN var : Given(env, var[x])} |-> env[var[k]]]

WithSettings(c, env) ==
  [c EXCEPT
     !.gateway = FromEnv([port |-> "CONDUIT_PORT", host |-> "CONDUIT_HOST"], env) ++ c.gateway,
     !.observability = FromEnv([db_path |-> "CONDUIT_DB_PATH", log_args |-> "CONDUIT_LOG_ARGS"],
                               env) ++ c.observability,
     !.metrics = FromEnv([port |-> "CONDUIT_METRICS_PORT"], env) ++ c.metrics]

WithAdmin(c, env) ==
  IF ~Given(env, "CONDUIT_ADMIN_KEY") THEN c
  ELSE [admin |-> [key |-> env.CONDUIT_ADMIN_KEY] ++ Section(c, "admin")] ++ c

TlsFromEnv(env) ==
  FromEnv([enabled |-> "CONDUIT_TLS_ENABLED", cert_path |-> "CONDUIT_TLS_CERT",
           key_path |-> "CONDUIT_TLS_KEY"], env)

WithTls(c, env) ==
  LET tls == TlsFromEnv(env)
               ++ Or(c.gateway, "tls", [enabled |-> FALSE, cert_path |-> "", key_path |-> ""])
  IN IF DOMAIN TlsFromEnv(env) = {} THEN c
     ELSE [c EXCEPT !.gateway = [tls |-> tls] ++ c.gateway]

WithStores(c, env) ==
  LET Kept(k) == Without(Default[k], "db_path")
      At(k, var) == IF Given(env, var)
                    THEN [enabled |-> TRUE, db_path |-> env[var]] ++ c[k] ++ Kept(k)
                    ELSE c[k]
  IN [c EXCEPT !.identity = At("identity", "CONDUIT_IDENTITY_DB_PATH"),
               !.governance = At("governance", "CONDUIT_GOVERNANCE_DB_PATH")]

WithRedis(c, env) ==
  IF ~Given(env, "CONDUIT_REDIS_URL") THEN c
  ELSE [rate_limits |-> [redis_url |-> env.CONDUIT_REDIS_URL]
                        ++ Or(c, "rate_limits", [enabled |-> TRUE, backend |-> "redis"])] ++ c

Overridden(c, env) ==
  WithRedis(WithTls(WithStores(WithAdmin(WithSettings(c, env), env), env), env), env)

(* loadConfig: what a process that starts on the file runs, if Valid.         *)
Loaded(raw, env) == Overridden(Merged(raw, <<>>), env)
=============================================================================
