--------------------------- MODULE MCConfigReload ---------------------------
(* A base file, one file per thing a reload must apply, skip or refuse, and   *)
(* one per check, each breaking that check alone.                             *)
EXTENDS ConfigReload, TLC

A == [id |-> "a", url |-> "http://a"]
B == [id |-> "b", url |-> "http://b"]
Base == [servers |-> <<A>>]

GoodFiles ==
  { Base,
    [servers |-> <<A, B>>, connect |-> [profiles |-> <<[id |-> "p", server_ids |-> <<"b">>]>>]],
    [acl |-> [enabled |-> TRUE, policies |-> <<[clients |-> {"c"}]>>],
     rate_limits |-> [enabled |-> TRUE, backend |-> "memory", queue |-> [max_queue_size |-> 5]]],
    [servers |-> <<[A EXCEPT !.url = "http://b"] ++ [cache |-> [default_ttl |-> 60]],
                   [id |-> "b", transport |-> "stdio", command |-> "npx"]>>,
     auth |-> [method |-> "jwt", jwks_url |-> "http://a"],
     gateway |-> [port |-> 8081, tls |-> [enabled |-> TRUE, cert_path |-> "pem",
                                          key_path |-> "pem"]],
     observability |-> [log_args |-> FALSE, log_responses |-> TRUE, redact_fields |-> "more"],
     guardrails |-> [enabled |-> TRUE,
       rules |-> <<[name |-> "r", action |-> "block",
                    conditions |-> <<[field |-> "f", operator |-> "eq"]>>]>>]],
    [governance |-> [role_bindings |-> <<[workspace_id |-> "a", role |-> "owner",
                                          clients |-> {"c"}]>>,
                     quotas |-> [default |-> [requests_per_minute |-> 1]]]] ++ Base }

BadParts ==
  { [gateway |-> [port |-> 0]],
    [gateway |-> [host |-> "any"]],
    [gateway |-> [tls |-> [enabled |-> TRUE, cert_path |-> "pem"]]],
    [metrics |-> [port |-> 8080]],
    [router |-> [health_check |-> [unhealthy_threshold |-> 0]]],
    [router |-> [circuit_breaker |-> [enabled |-> TRUE, failure_threshold |-> 0]]],
    [cache |-> [l2 |-> [redis_url |-> "?"]]],
    [rate_limits |-> [enabled |-> TRUE, backend |-> "redis"]],
    [rate_limits |-> [enabled |-> TRUE, queue |-> [max_queue_size |-> 0]]],
    [auth |-> [method |-> "jwt"]],
    [acl |-> [enabled |-> TRUE, policies |-> <<[clients |-> {}]>>]],
    [guardrails |-> [enabled |-> TRUE, rules |-> <<[name |-> "r", action |-> "log"]>>]],
    [identity |-> [workspaces |-> <<[id |-> "a", tenant_ids |-> <<"t">>],
                                    [id |-> "b", tenant_ids |-> <<"t">>]>>]],
    [governance |-> [tool_policies |-> <<[name |-> "r"], [name |-> "r"]>>]],
    [connect |-> [profiles |-> <<[id |-> "p", server_ids |-> <<"z">>]>>]],
    [servers |-> <<[id |-> "a", transport |-> "stdio"]>>],
    [servers |-> <<A ++ [upstream_auth |-> [connected_account |-> <<>>]]>>],
    [servers |-> <<A ++ [managed_runtime |-> <<>>]>>] }

BadFiles == {part ++ Base : part \in BadParts}

(* Every file of BadFiles is refused for its part, and no other file is.      *)
ASSUME FilesAsMeant == /\ \A f \in GoodFiles : Valid(Merged(f, <<>>))
                       /\ \A f \in BadFiles : ~Valid(Merged(f, <<>>))

MCNames == {"a", "b", "p", "default"}
MCUrls == {"http://a", "http://b", "redis://r"}
MCPems == {"pem"}
MCFiles == GoodFiles \cup BadFiles \cup {Broken, Absent}
MCEnvs ==
  { <<>>,
    [CONDUIT_ADMIN_KEY |-> "k", CONDUIT_HOST |-> "any", CONDUIT_TLS_CERT |-> "pem",
     CONDUIT_TLS_KEY |-> "pem", CONDUIT_TLS_ENABLED |-> TRUE],
    [CONDUIT_LOG_ARGS |-> FALSE, CONDUIT_REDIS_URL |-> "redis://r", CONDUIT_CONFIG |-> "f"],
    [CONDUIT_GOVERNANCE_DB_PATH |-> "db", CONDUIT_METRICS_PORT |-> 8081,
     CONDUIT_IDENTITY_DB_PATH |-> "db"] }
MCPosted == {Server([id |-> "b", url |-> "http://a"]), Server([id |-> "x", url |-> "ftp"])}
Symmetry == Permutations(Reloads)
=============================================================================
