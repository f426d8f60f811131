# mcp-conduit in TLA+

mcp-conduit is a gateway between MCP clients and MCP servers: it authenticates
and routes JSON-RPC calls, limits, caches and audits them, and keeps the
upstreams healthy. It is one Node process, so no two pieces of code ever run at
once; what makes it hard are the awaits. Between two of them other calls,
timers, answers, child processes and administrators change what the first has
read. The modules of this directory model the parts whose state outlives a call,
with each await (and each event the runtime may deliver) a step boundary and the
code between two awaits one atomic step.

Paths are relative to the repository: `src/router/...` is the implementation,
`docs/...` its documentation.

## Contents

| file | what it is |
|---|---|
| `CircuitBreaker.tla` | the breaker's methods, as operators on a record |
| `BreakerContract.tla` | what a breaker promises, without counters and clock |
| `McpClient.tla`, `McpClient.cfg` | concurrent `forward()` calls over one breaker |
| `RoutingProofs.tla` | breakers, calls, routing and health: their invariants and refinements, proved |
| `ReplicaRouting.tla`, `ReplicaRouting.cfg` | replica selection, health checks, refresh |
| `StdioClient.tla`, `StdioClient.cfg` | the child process client |
| `StdioClientProofs.tla` | its invariants, proved |
| `Filtering.tla` | what `filter()` makes of a list, without recursion (operators) |
| `RateLimiting.tla`, `MCRateLimiting.tla`, `RateLimiting.cfg` | sliding windows and the queue |
| `ResponseCache.tla`, `ResponseCache.cfg` | both cache levels, invalidation, in-flight sharing |
| `Governance.tla`, `MCGovernance.tla`, `Governance.cfg` | approval requests and grants |
| `GovernanceProofs.tla` | its invariants and the finality of decisions, proved |
| `Namespace.tla` | names of tools: strategies, conflicts, the map, resolution (operators) |
| `ServerTable.tla`, `ServerTable.cfg` | which servers there are: reload, discovery, admin API |
| `ServerTableProofs.tla` | routes, owners and lone reloads, proved |
| `Identity.tla` | who a caller is, and which connected account it uses (operators) |
| `AccessPolicy.tla` | ACL, tool policies, guardrails, cache policy (operators) |
| `ToolAccess.tla`, `MCToolAccess.tla`, `ToolAccess.cfg` | lists and calls of tools over `Namespace`, `Identity` and `AccessPolicy` |
| `ToolAccessProofs.tla` | all its properties, proved |
| `ConnectInstall.tla`, `MCConnectInstall.tla`, `ConnectInstall.cfg` | `conduit connect install` and `sync` on clients' files |
| `ConnectInstallProofs.tla` | all its properties, proved |
| `ManagedRuntime.tla`, `MCManagedRuntime.tla`, `ManagedRuntime.cfg` | rollouts, rollbacks, imports and the health gate |
| `ManagedRuntimeProofs.tla` | all its properties, proved |
| `Configuration.tla` | defaults, merge, environment, validation (operators) |
| `ConfigReload.tla`, `MCConfigReload.tla`, `ConfigReload.cfg`, `EnvironmentWins.cfg` | the configuration over starts, edits and reloads |
| `GatewayProofs.tla` | the cache, the limiter with its queue, the configuration: their invariants, proved |
| `PROJECT.json` | components, runs, mutants, map to the source, hazards, findings, theorems |

`tlc -config X.cfg M` checks a run, `tlapm M.tla` the proofs of a module. A
definition introduced by the comment "Seeded fault" or "Mutant" is the body of a mutant: a
bug the code might plausibly have, which `PROJECT.json` pairs with the property
that must catch it. The modules never use it.

## The system

### Components, their state and their operations

| component | state | operations | what makes it hard | what makes it correct |
|---|---|---|---|---|
| Circuit breaker `router/circuit-breaker.ts` | mode, failures, successes, half-open slots, last failure time | `canExecute`, `onSuccess`, `onFailure`, `getState`, `reset` | asked before an await, told after it, by many calls; changes mode only when asked | slots are released, evidence stays in its episode, a refusing circuit recovers |
| Upstream clients `proxy/mcp-client.ts`, `proxy/stdio-mcp-client.ts` | connection count; child process, pending map, respawn budget | `forward`, spawn, answer, exit, `shutdown` | answers in any order, late, or never; crashes; signals; backoff | an answer reaches the caller that asked; nobody waits on a dead child; the child comes back |
| Routing and health `router/router.ts`, `router/registry.ts` | health records, breakers, round-robin counter | select, health check, refresh, admin resets | selection is used several awaits later; checks, refreshes and calls write the same records | rotation is fair, nothing is sent to an open breaker, replicas recover |
| Rate limits `rate-limit/*` | timestamps per bucket, queues, poll timer | consume, preview, enqueue, poll, reset, stop | one await per bucket; a batch interleaves; the queue polls | no window above its limit, a served call is counted everywhere, everyone is answered |
| Cache `cache/*` | LRU and its indexes, Redis, in-flight map, recent writes | get, promote, share, store, invalidate, scan, purge, flush | reads in flight across a write; fire-and-forget writes; a scan key by key | the index is exact, stale entries end, a quiet write leaves nothing stale |
| Governance `governance/*` | SQLite rows; configuration in force | evaluate, request, verify, decide, prune, reload, restart | decisions, expiry, repeats and reloads between a call's steps; survives restarts | a call that passes was approved for what it is, by somebody entitled; decisions are final |
| Pipeline `gateway/pipeline.ts` | none of its own | drives all of the above in a fixed order | state read before one await is used after another | the properties of the components it composes |
| Server table `gateway/gateway.ts`, `discovery/*`, `admin/routes.ts` | registry, clients map, `config.servers`, name map, `managedServerIds`, heartbeats | reload, reconcile, import, replace, delete, refresh | four tables written by three kinds of operation that await in the middle | a name leads to a server, each server has one owner, the dead leave, the living join |
| Tool access `gateway/pipeline.ts`, `auth/*`, `governance/runtime.ts`, `guardrails/evaluator.ts`, `cache/cache-key.ts`, `identity/*` | name map, tool lists, policies, connected accounts, shared answers | `tools/list`, `tools/call`, reload, relist, connect, revoke | a name judged now is answered later, with an entry somebody else's call made | what is listed can be called; answers are of one's own tool, arguments and tenant; accounts are the caller's |
| Configuration `config/*`, `gateway/gateway.ts` | the file, the environment, the running configuration, the defaults | start, edit, reload, admin changes | a reload keeps some sections and replaces others; reloads overlap | always valid; a reload leaves what it can change as a restart would |
| Managed runtime `runtime/managed.ts` | releases of a server, the entry in registry and configuration | import, rollout, rollback, gate, finalise | two admin requests over one server | what is reported is what runs; nothing that never answered passes the gate |
| Connect `connect/local.ts`, `cli/connect.ts` | clients' configuration files, manifests, secrets | install, sync | several processes and the user edit one file; a crash between two files | the user's entries survive all but a crash or an edit in the middle of a write, an entry leads to a manifest and a token |
| Redis limiter `rate-limit/redis-limiter.ts` | sorted sets | pipelined commands, fallback | two windows of a key share one set | (not modelled) |
| Admin API `admin/routes.ts` | none | resets, purges, decisions, servers, accounts, rollouts, reload | arrives at any time | its routes are actions of the component they change |
| Plugins, observability, connect's registry library and exports, utilities | little or none | | | listed with their reasons in `PROJECT.json` |

### How they interact

A `tools/call` runs through `handleToolCall` (`gateway/pipeline.ts:233-925`) in
this order; each numbered step is in the module named:

0. the caller is authenticated (`Identity!Authenticated`);
1. the name is resolved (`ToolAccess!Target`) and the replica selected
   (`ReplicaRouting!Select`);
2. profile, ACL and tool policy (`ToolAccess!Passes`), which may demand an
   approval (`Governance!Arrive`);
3. the workspace quota is awaited (`Governance`, phase `quota`);
4. guardrails (`ToolAccess!Screened`), which may demand an approval
   (`Governance!Guard`);
5. the client's limits are consumed, one await each (`RateLimiting!Consume`);
6. if the call invalidates other tools, level 1, then the scan of level 2
   (`ResponseCache!Invalidate`, `Scan`, `Forward`);
7. hooks, which may answer the call (`AnswerEarly`, `TurnAway`);
8. the key (`ToolAccess!KeyOf`), level 1, level 2, promotion
   (`ResponseCache!Read`, `RedisReads`, `Promote`);
9. the server's limits (`RateLimiting!Lookup`, `Consume`);
10. the call itself, shared with identical ones (`ResponseCache!Share`), through
    with the caller's account (`ToolAccess!Send`) and `forward()` of the replica
   selected in step 1 (`ReplicaRouting!Forward`,
    `McpClient!Admit`, `StdioClient!Send`);
11. hooks, then the answer is cached (`ResponseCache!Store`).

Every module models the whole of its component and lets the other components
decide freely: a step that belongs to another component is an early answer, a
delay or an outcome that may come at any time. The state spaces stay small and
no property of one module depends on another's luck. `ReplicaRouting` is the
composition of breakers, health records and pipeline; `CircuitBreaker` is shared
by it and by `McpClient`, and both are shown to use it as `BreakerContract`
demands.

## Modules

### CircuitBreaker, McpClient, BreakerContract

`CircuitBreaker` gives each method of the class as an operator from record to
record (`Executed` for `canExecute`, `Succeeded`, `Failed`, `Reset`, and `Ripen`,
the OPEN to HALF-OPEN transition inside `canExecute`). Time is the field
`since`, ticks since the last failure, which saturates at `ResetTimeout`: the
code only compares. `tripCount`, which only the admin API reports, is left out.

`McpClient` has the breaker `circuit` and a set of callers. `Admit` and `Refuse` are
the start of `forward()` with `canExecute()` true and false (a refused call may
still turn OPEN into HALF-OPEN when no slot exists), `Answer` and `Throw` its end,
`ClientTick` the clock, `ResetCircuit` the admin route. The labels `probe` and
`inFlight` of `caller` are history: a call admitted in the present half-open episode
is a probe. The code cannot tell them apart, and that is the point of `SlotsHeld`.

`BreakerContract` is the state machine in the header of `circuit-breaker.ts`:
only a failure opens, only a success of a half-open circuit or the
administrator closes, and nothing is admitted by an open circuit that stays
open. `McpClient` and `ReplicaRouting` implement it under the mapping
`mode <- circuit.state` (`breaker[r].state` of each replica `r`),
`inFlight <- the calls in forward()`.

### ReplicaRouting

One server with `NumReplicas` replicas. A call is `selected` from
`getClientForServer` to `forward()`, and `sent` from there to its answer; a
`checking[r]` counts the health checks of `r` that await an answer: rounds of checks do
not wait for each other (`registry.ts:367`), so they overlap when a check takes longer
than the interval, which the validation allows. A check of an HTTP
replica is a bare `fetch` and never meets the breaker; one of a stdio replica
goes through `forward()`. `refreshServer` is one more caller, bound to the
primary. `passed[r]` is history (the replicas selected since `r` last was, or all
after a change of the routable set); `calm` is the environment's: once it is set every
call is answered, and every check before the next is made, the premise of the
liveness property. The
round-robin counter only matters modulo the size of the set it indexes: it is kept
modulo `CounterPeriod`, any common multiple of the sizes a routable set may have.

The tool lists, the name map and the server's aggregate health flag, which
nothing in the selection of a replica reads, are in `ToolAccess` and
`ServerTable`.

### StdioClient

The child is absent, `young` (less than `FAST_FAILURE_THRESHOLD_MS`) or `old`.
`pending` maps an id to the call whose promise it resolves. A call keeps its slot until
it has settled and left no trace: `work` holds the requests the child has not answered,
`stdout` those it has, the answer not yet read; answers outlive their child. Every call
picks any id, as the code lets it: a health check is always 0 (`registry.ts:447`), a
refresh always 1 (`:274`), and clients number their requests as they like, each from 0 or 1.
`Crash` is an exit with a code or a spawn error, `Killed` an exit by a signal
(which the code never charges to the budget), `Shutdown` the method, after which
the child still lives until its signal arrives. A timer is armed exactly while
its call waits, so `Timeout` needs no state. `WriteFails` is what `writeStdioMessage`
reports: no stdin, or an error while the stream is full (`drain` awaited), which may come
after the call has timed out and then deletes the entry of whoever has its id. `earlier`
and `shared` are history: whom a call's id could still be answered for when it was sent,
and which calls met another of their id.

Not modelled: an error of stdin after `write()` returned true has no listener any more
(`stdio-mcp-client.ts:553-558`) and ends the gateway (`index.ts:18`);
`stdoutBuffer` is abstracted to whole lines, so that a respawn empties it, and may cut a
line that is still arriving, is left out; and so is a second
event ('error', then 'exit') of a child already replaced.

### RateLimiting

A bucket is a key with a window; `used[b][a]` counts its timestamps of at most `a`
ticks, so that `used[b][Window[b]]` is what the code counts, and a tick shifts it.
Requests pass their buckets one await at a time (`Consume`), which is where two
calls of one JSON-RPC batch interleave. Promises that are ready run before
timers, so `Tick`, `Poll` and `Begin` wait until no request is between two
buckets (`Settled`). The other way through the code is `consumeWithQueue()`: a
preview, then either all buckets or the queue of the key that refused, then the
checks of other keys (`Rest`). What `filter()` keeps of a list is `Picked` of
`Filtering`: the elements at a set of positions, in order. Only tests call it (the option
`rate_limits.queue` reaches no caller of it), and it is modelled because the
class offers it.

`evictIfFull()` is left out: the instances have fewer buckets than its cap.

### ResponseCache

A value is the version of the backend it was read at. A reader asks level 1,
level 2 (which may not answer), shares the call in flight or starts it, and
stores its result; the writer invalidates level 1 at once, scans level 2 key by
key, and forwards. Level 2 writes are fire-and-forget (`sending`) and may be
lost; a key written within the last 200 ms is not written again (`recent`). `Evict`
stands for the entries of other tools, which share the LRU. `calm` is history:
the last write met no read under way and no error of Redis.

### Governance

`request` is the table `approval_requests`; each method of the store is
synchronous and begins with `pruneExpiredApprovalRequests()`, so each action that
calls one applies `PrunedRequests`. `Enforce` is `enforceApprovalRequirement()`,
called after the tool policy and after the guardrails, with the quota's await
between them. `Decide` is `decideApproval()` with its guards: pending and not
expired, the name in the body is the authenticated client's, a required role in
the request's workspace, no approval of one's own. `Reload` replaces the
configuration between any two steps, `Restart` drops the calls and keeps the
rows. `verdict` is history: who decided, and under which roles.

Regular expressions, policies and quotas are here abstracted to their verdicts
(`config.effect`, `config.action`, `AnswerEarly`), the policies themselves being
`AccessPolicy`'s; the tool, the fingerprint and
the workspace follow from the client and the arguments. With `AuthOn` false the
admin key alone lets its holder decide in anybody's name, as the comment at
`src/admin/routes.ts:910` says; the theorems cover both values.

### Namespace, ServerTable

`Namespace` gives the two strategies (`prefix`, `none`) as operators: when a
map can be built, its routes, and what a name resolves to. `ServerTable` has the
four tables that say which servers there are (`servers` the registry, `clients`,
`config`, `routes`) and discovery's own `managed`. A worker is one operation in
progress: `at = "run"` holds the thread, the other values name what it awaits
(`list` for `addServer`'s and `refreshServer`'s `tools/list`, `poll` for the
backends, `check` for the addresses of an imported url). The array
`config.servers` is shared with the discovery manager until the first reload
replaces it by a filtered copy: `fresh` and `captured` tell which array the
manager holds. `touched` and `alone` are history.

### Identity, AccessPolicy, ToolAccess

`Identity` is `authenticate()` (the verification of a token is an input), the
resolution of a connected account and the preflight; `AccessPolicy` the ACL, the
tool policies, the guardrails with their conditions, and the cache policy. They
are operators: patterns are the sets they match, and arguments are fields whose
values are known by kind, identity, parts and matched patterns.

`ToolAccess` puts them in the order of `handleToolCall` and `handleToolsList`. A call
is `judged` where it arrives (`Judge`: authentication, target, profile, ACL,
policies, guardrails), then, after awaits, answered from the cache, joined to a
call in flight, or `sent`. `rules` may be reloaded, lists and health may change,
accounts may be connected, replaced and revoked in between. `scene` is the
configuration that does not change; a run has a set of scenes as initial states.
The key's group, a header that only divides further, is left out, and so are
approvals (Governance's) and limits (`TurnedAway`).

### ConnectInstall

A process of the CLI reads a file, merges, truncates it and fills it, each a step
of its own as each is a system call; a file in between is `Torn`. Then it writes
its manifest the same way. `Crash` may come at any step, and `UserEdits` between any
two. `raced`, `cut` and `spoiled` are history: the files that were edited or read
torn between a read and its write, those whose process crashed between truncating
and filling them, and the ids whose process crashed or threw.
An entry holds what the code writes into it, the installation and the server id of its
relay, under the name `AliasIn` gives the server in that file; names may collide, and
then the last server of the bundle stays (`Named`, `Last`). A file in which no server has
a name stands for the user's file that `ensureCodexProjectTrusted` reads and writes.
The exchange of the one-time code and the keychain are left out.

### ManagedRuntime

`live` is the registry's entry with the release its process was started for,
`listed` the entries of the server in `config.servers`. A request is at `body` (await
of the request's body), `deploy` (await of the new process's `tools/list`) or
`restore` (the same, of an automatic rollback). `holds` says that the object it
keeps a reference to is still the registry's. At `import` it awaits the `tools/list` of
a package imported from the registry, which counts as active and healthy at once.
A start takes what the file says (`Files`): any active and last healthy release, listed
or not, with statuses or without, whether the process answers or not. `vouched` and
`overlapped` are history.
The launch command, its isolation and the package are abstracted to the release.

### Configuration, ConfigReload

`Configuration` is `mergeWithDefaults` (`Filled`, the sections that have defaults, and
`Merged`), `applyEnvOverrides` (`Overridden`, variable by variable) and `validateConfig`
(`Valid`, whose parts each take the sections they look at), over records whose
missing keys are missing from their domain; `r ++ s` is the spread `{...s, ...r}`.
`ConfigReload` is the life of one gateway: the operator edits the file (`Edit`), the
process starts and stops (`Start`, `Shutdown`), reloads begin (`BeginReload`), wait for
each server they add (`Connected`), and finish, and the admin API changes
`config.servers` (`Post`, `Delete`). `shared` tells that `config.servers` is the very
array inside `DEFAULT_GATEWAY_CONFIG`. `budget` is what is left of the bound `MaxEvents`.

## Runs

Passing runs. Deadlock is checked in `breaker`, `routing`, `rate_limits`, `cache`,
`governance`, `access` and `managed`. It is not in `stdio`, where a client that was shut
down, or has spent its budget, really stops; in `connect` and `config`, whose bounds
on ids, faults and events use up; and in `servers`, which always has an edit of the
file to go on with.

| run | states | what it shows |
|---|---|---|
| `breaker` | 486 | `SlotsHeld`: an occupied slot belongs to a probe still out. `EvidenceScoped`: no counter carries from one mode to another. `Recoverable`: a refusing circuit admits again by itself. `ImplementsContract`. |
| `routing` | 119,396 | `RotationFair`: between two selections of a replica round-robin selects every other, while the routable set stays. `NoBlindForward`: a stale selection never reaches an open breaker. `ImplementsContracts`. `Recovers`: checks alone restore replicas once the upstreams answer. |
| `stdio` | 357,780 | `AnswersMatch`: a call gets its own answer or, if its id was in use, possibly that to an earlier call of the id, never to a later one. `NobodyStranded`: nobody waits on a dead child, and who waits has an entry, but for calls that met another of their id. `Respawns`: a dead child is replaced within the budget. |
| `rate_limits` | 74,753 | `WithinLimit`; `CountedEverywhere`: who is let through was counted in every bucket, but for other windows of the key it waited for; `NobodyForgotten` (a waiter is in one queue, and the timer is set), `AllAnswered`. |
| `cache` | 74,855 | `Indexed`: the tool index names exactly the entries. `QuietWriteInvalidates`: with no read under way a write leaves nothing stale on either level. `StaleExpires`: what is stale is in the end served no more. `ReadsEnd`. |
| `governance` | 1,076,061 | `ApprovedProperly`: a call that passed on an approval has one, of this client and these arguments, by somebody entitled when deciding. `OnePending`. `DecisionsFinal`. |
| `servers` | 219,804 | `RoutesLead`: no name leads to a server that is gone, and clients and registry agree. `OneOwner`: the file, discovery or an operation under way accounts for each server, and only one of them. `ReloadApplied`: a reload that met no other does what its file says. `Converges`: what discovery added leaves when its heartbeats end, what keeps sending them is registered again and again. |
| `access` | 295,076 | `ListedIsCallable`: a listed name means the tool it was listed for and passes the checks, however stale the map. `AnswersAreOwn`: an answer is of the call's tool and arguments, past the caller's own guardrails, made for its tenant. `PreflightHonest`: the preflight tells what a call will meet, with an account that is the caller's. `ReplacementWins`: a replaced account is never used again. |
| `connect` | 3,520,609 | `UserKept`: the user's own entries are lost only by an edit between a read and its write, a text read half written, or a crash between truncating and filling the file; nothing else leaves a file torn. `EntriesLead`: an entry leads to a manifest and a token, or its process was stopped. `Delivered`: after an undisturbed run each server's name leads to that server, or to another of the bundle with the same name. |
| `managed` | 2,247,436 | While requests do not overlap: `RunsWhatItSays`, and `GateHolds`: with automatic rollback, a release that a rollout or rollback made active or the one to fall back to has answered. However they overlap: `OneActive`, the record is consistent if the file's was. |
| `config` | 123,514 | `SoundAlways`: whatever mixture of files, environment and admin changes runs, its sections pass their checks. `ReloadMatchesRestart`: a reload without errors leaves what it can change (sections, logging switches, which servers, their cache settings) as a restart would, and the address, TLS, auth method and server urls so or reported as skipped; of the settings the code passes over in silence it says nothing. |

### Bounds, and why they are enough

- `breaker`: four callers over two slots and a failure threshold of two: late
  outcomes of an earlier episode, full slots and two probes meet. The success
  threshold (3) exceeds the slots, so closing takes more than one round.
- `routing`: two replicas (the smallest rotation), one request besides the
  refresh and the checks, thresholds of one so that a single event changes a
  mode; two checks of a replica at a time (`MaxChecks`), so that rounds overlap; both transports and both strategies are initial states of one run.
- `stdio`: three calls and two ids, so that two calls share an id beside one that does
  not, and an answer that is late meets a call with its id while another waits; three
  fast failures and a cap of two ticks, so that the delay doubles once and meets its cap.
- `rate_limits`: two requests, a global bucket of two, a server bucket of one, and
  two windows for the client, a short one of one and a longer one of two: one
  request may pass where the other is refused, in each order, and either window
  may be the one that blocks; a wait of one tick.
- `cache`: two readers of one key and one write, enough for a read in flight
  across it, a shared call and a promotion after an invalidation; an entry lives
  for one tick after the one it was made in. `MaxVersion` bounds the writes.
- `governance`: two clients of two workspaces that approve for each other, two
  calls at once, two request ids (`Ids` bounds the requests ever made), three
  configurations: all calls held back; one client its own approver; no approver
  at all. Ids and calls are symmetric. All properties are safety properties, so
  symmetry is sound.
- `servers`: one server id, since no operation reads one id to write another but
  for the name map's conflicts, which prefixed names cannot have; two workers,
  enough for every pair of operations to overlap. `MaxCopies` says that the
  configuration names a server "so often or more". `MaxSeen` is the code's 1000
  registrations, which one server does not reach; the proofs hold for any number.
- `access`: two servers, two tools, three clients of two tenants; thirteen scenes.
  Two change names, lists, health and rules (under `prefix` and `none`); six share
  answers (isolated or not; by API key, by token, and without authentication by
  either header; with arguments, guardrails and ignored arguments); five change
  accounts, one for each binding and one with identity disabled. `MaxRows` bounds
  the accounts ever made at two: one and its replacement.
- `connect`: two processes and two ids; Codex with its TOML file, and VS Code's suite
  of its JSON file, in which both servers have one name, and the same TOML file, in
  which they have two. `MaxFaults` = 2 is two edits, two crashes or one of each. A file
  without names (the trust entry) is left to the theorems, which take any names.
- `managed`: two requests, three releases (the first, and one for each request); files
  with what an export of an import says, without a last healthy release, with a last
  healthy but unlisted active one, and each of the three gates; imports with automatic
  rollback, as is the default (`managed.ts:27`);
  ids carry the time of their making, so a release is named anew only when nothing
  names it any more. `MaxEntries` bounds the copies that overlaps leave in
  `config.servers`.
- `config`: a base file, one file for each thing a reload must apply or skip, one
  for each check, broken in that respect alone (asserted by `FilesAsMeant`), a file
  that does not parse and none; four environments; two reloads; `MaxEvents` = 3
  edits, starts and admin changes together.

### Fairness, and why the code justifies it

- the clock ticks; timers fire (a stdio request's, a poll's: `setInterval`);
- a call in flight ends: `fetch` is aborted after `timeout_ms`, a stdio request
  has its own timer, `deduplicate()` settles with the call it shares;
- Redis answers or its client gives up;
- health checks keep coming (`setInterval` in the registry), but what they find
  is up to the upstreams. In `StdioClient` they are what keeps calling a dead
  child; with `health_check.enabled` false, or all replicas without clients,
  `Respawns` is a statement about clients that keep calling;
- `Poll` and `Tick` of `RateLimiting` are strongly fair: a newcomer may disable
  them for the time of its microtasks, over and over, and Node still runs timers
  once per turn of its loop;
- in `ServerTable` each operation's next step is weakly fair (what it awaits has a
  timeout), and the interval of discovery strongly: it fires however many
  operations are in progress, where the model may have no worker free.

Nothing makes a client call, an upstream recover, an administrator act or a
configuration change. `Recoverable` needs `half_open_max_requests` to be
positive, as the default is; the safety theorems do not.

### A violation: the environment and reloads

`env_wins` shows that a reload takes back what the environment had set, where
`config/loader.ts:5` says that environment variables "override everything, including
the config file". `reload()` merges and validates the file without
`applyEnvOverrides()`. `ReloadMatchesRestart` excepts the variables for that reason.

### What else the models show of the code

These follow from the code as modelled. Some contradict a document, others are
only worth knowing. None is a run of its own, because the properties above are
stated so as to hold around them.

Circuits and replicas:
- a late success of a call admitted earlier frees a half-open slot, so more than
  `half_open_max_requests` probes are out (`circuit-breaker.ts:100`;
  `docs/CONFIGURATION.md:106`);
- the open breaker of an HTTP replica never becomes half-open by itself: only
  `canExecute()` does that, an open replica is never selected, and its check is a
  bare fetch (`registry.ts:577`; `:105`);
- one success and then one failed check mark a replica healthy when the unhealthy
  threshold is above one (`registry.ts:511`; `:95`).

Clients, limits, cache:
- calls that use one JSON-RPC id at a time on a stdio server meet: the later one may be
  given the answer to the earlier, also to one that has timed out, and the earlier is
  left to its timer (`stdio-mcp-client.ts:192-198`); on a child that exits it is not
  rejected (`AnswersMatch`, `NobodyStranded`);
- after its wait in the queue a request is not counted in the other windows of
  the key that blocked it (`rate-limiter.ts:162`);
- a read in flight across a write keeps the old value for a full ttl
  (`pipeline.ts:575`; `docs/CONFIGURATION.md:158`);
- an override with a ttl never invalidates, whatever it lists
  (`cache-policy.ts:66,118`).

Access:
- a client whose account was revoked is still answered from the cache
  (`pipeline.ts:704`; `config/types.ts:66`); the key names the tenant, not the
  account. Likewise a guardrail on an argument that `ignore_args` leaves out of the
  key does not see what the shared answer was made for;
- a guardrail's action `transform` changes nothing: the call passes as it is
  (`pipeline.ts:411-497`; `docs/CONFIGURATION.md:497`). A bypass does not look at
  the tools or the conditions of its rule;
- an account that is optional, on a gateway without identity, is reported as
  ready and makes every call throw (`identity/runtime.ts:313`);
- a call to the endpoint of a server that is down may be routed to another
  server that has a tool of that name (`pipeline.ts:249`, strategy `none`).

Servers:
- after a reload discovery takes a configured server for a new one and replaces
  its client by one the registry does not use (`gateway.ts:363`,
  `discovery/manager.ts:108`);
- DELETE of a discovered server leaves it in `managedServerIds`; an import that
  replaces one gives it two owners; removing a server shuts its primary client
  only (`registry.ts:241`);
- with 1000 registrations a heartbeat that would renew one of them is refused too, and
  all of them lapse (`routes.ts:2227`);
- a failed DNS lookup is an empty answer, and removes all that DNS had found
  (`dns-discovery.ts:24`); the admin's refresh leaves the name map alone.

Configuration:
- a file without servers makes `config.servers` the defaults' own array: what the
  admin API adds becomes a default, and a later reload may bring it back;
- `POST /servers` asks none of `validateConfig`; `NaN` passes the checks written as
  `<= 0`; duplicate server ids are not refused; `plugins` and `discovery` are
  documented sections that the merge drops (`docs/CONFIGURATION.md:766`);
- a missing file means the defaults at a start and an error at a reload, and a
  file that is valid only with a variable's help is refused by a reload;
- a reload that fails at one server keeps what it changed before; changes of
  `router`, `cache`, `metrics`, `identity`, `connect` and `admin`, of the log store, of
  every key of `auth` but its method and of every field of a server but its url and
  cache are ignored without a word (`gateway.ts:325-446`); of two
  overlapping reloads the older file may be applied last; certificates are read
  at a start only (`docs/SECURITY_GUIDE.md:435`).

Connect and managed runtime:
- a crash between truncating and filling a client's file loses all the user had in
  it, as it is written in place (`local.ts:577`, `cut` in `UserKept`);
- two servers whose ids have one camel case (`a-b`, `a.b`) have one name in VS Code's
  file: the later one's relay replaces the earlier one's, which is reported as
  installed all the same (`local.ts:325`, `469`);
- a manifest torn by a crash keeps `sync` of all installations from repairing any
  (`local.ts:121`); it may also overwrite a newer entry of the same name;
- a rollback in flight brings back a server deleted meanwhile (`routes.ts:310`), and
  sets the release to fall back to before it has answered (`managed.ts:306`);
  releases live in memory only;
- an import, and a start, name a release active and last healthy that may never have
  answered, and no gate looks at it (`managed.ts:104`, `registry.ts:334`): the first
  rollback may go there;
- after a rollout of a server whose file leaves `last_healthy_release_id` out, which it
  may, two releases of its list are called active (`managed.ts:236`);
- two overlapping rollouts may leave the server listed twice, or a registry that
  reports one release and runs another (`routes.ts:1601`): `RunsWhatItSays` and
  `GateHolds` stop at the first overlap, and nothing is shown of the gate after it.

## Proofs

TLC checks the instances above; TLAPS proves the following for every value of
the constants that satisfies the modules' `ASSUME`s.

**RoutingProofs.** Constants: any thresholds, any finite set of callers, any number
of replicas, any counter period that is a multiple of each set size. One lemma per
method of the breaker says what it returns, and serves both modules.

For one client the inductive invariant conjoins `Sound` (the breaker's type and
`EvidenceScoped`, which speaks of the breaker alone), the type of `caller`, and
`SlotsHeld`. They need each other: that a late success cannot take `probes` below
zero needs the code's guard and the type; that `SlotsHeld` survives the end of an
episode, when every probe loses its label, needs `EvidenceScoped` (no slots outside
half-open). The theorems are `ClientTypeCorrect`, `NoSlotLeaks`, `EvidenceStaysScoped`,
and `ClientImplements`: each action is the contract's action of the same kind or a
stutter of it.

For the replicas of a server, `RoutingInv` is the type with every breaker `Sound`.
`NeverForwardsBlind` follows from the one fact that whoever enters `forward()` has
just been admitted by the breaker of its replica, whatever the selection once saw.
`RoutingImplements` says that each replica's breaker moves by its contract's steps
alone: a step of the gateway touches it in one of six ways (`BreakerMove`), each a step
of the contract. `RotationIsFair` is about the n-th element of a set, which the model
chooses by counting those before it: lemmas show that ranks are a numbering, and
that the next number's remainder is the next one around the circle. The invariant
`RotationInv` then says that whoever waits longer than `r` for its turn was selected
since `r` last was; of the one whose turn it is that means everybody else.

**GovernanceProofs.** Constants: any clients, workspaces, calls, ids, ttl and
configurations, authentication on or off. `ApprovedProperly` alone is not
inductive: a call that is about to present an id tells nothing of the row. The
invariant adds `VerdictsProper` (every decided row has a proper verdict, whether
a call ever uses it or not) and the part of `TypeOK` that ties a row's approver
to its status. The step is proved in two layers: each action is first shown to
change each row and each call in one of a few ways (`RowStep`, `CallStep`, in
`NextChanges`), and the invariants and the action property are then proved from
those alone, so the case analysis over actions is done once. The theorems are
`TypeCorrect`, `CallsAreApproved`, `RequestsAreUnique` and `DecisionsAreFinal`, an action
property.

**ServerTableProofs.** Constants: any servers, workers and tools, both strategies.
`RoutesLead` needs to know what each worker that waits has in its hands: `Roles`
says which operation may wait where, and `Held` that an entry whose `tools/list` is
awaited is registered, or was removed by an administrator. `OneOwner` follows
from `Owned(s)`, said of each server that no administrator touched: the file and
discovery exclude each other, at most one worker is adding it, and it is
registered exactly when one of these is so. `LoneReload` carries a reload that
meets no other to its end (`ReloadApplied`). A lemma on `Rebuilt` says to which
table a new name map leads; the rest is one lemma per operation.

**ToolAccessProofs.** Constants: any clients, servers, tools and scenes that the
assumptions allow. The invariant says of every answer kept, joined or in flight
what `AnswersAreOwn` says of one that arrived: it has the key of the call it was
made for (`Filed`, `Justified`). From equal keys follow equal tools, arguments (but
for ignored ones) and tenants, and a lemma shows that guardrails which look at
none of the ignored arguments decide the same of both. Accounts are typed by the
slots they were connected for (`Row`), and `ReplacementWins` rests on the order of
`Resolve`. Two assumptions are worth knowing: `ArgumentsAssumption` (a missing
argument is a value, `Absent`), and `CredentialsAssumption` (the credentials a client
presents are its own, or unknown to the gateway). The second is what "the
caller's tenant" means; the runs check that their scenes satisfy it.

**ManagedRuntimeProofs.** Constants: any releases, any requests at once, any
`MaxEntries`. `OneActive` needs that each configuration anyone keeps (the registry,
`config.servers`, a request that waits with the old and the new one) is sound, if the
file is; lemmas show that `RolledOut`, `RolledBack`, `MarkedHealthy` and `Imported` give
sound ones. `RunsWhatItSays` and `GateHolds` hold only until requests overlap: `Alone` says
what the one request there is has done at each of its awaits, and that the
releases it may fall back to are vouched for: they have answered, or the file or an
import named them. Nothing is assumed of what the file says.

**ConnectInstallProofs.** Constants: any processes, installations, files, bundles and
names, any number of edits and crashes. A process that has read a file and not
written it back holds what will be the file: `ReadKept` and `ReadLeads` say of it
what `UserKept` and `EntriesLead` say of files. `EntriesLead` is inductive only with
`Led`, which allows an entry whose process is still at work on the manifest.
`Written` counts the files an undisturbed process has finished, and gives
`Delivered`; that a name shared by several servers leads to one of them rests on
`LastIsIn` (of finitely many positions there is a last). A torn file is accounted for by
who is filling it, or by `cut` (`TornStays`). Bundles are assumed to name at least one
file, and no server to have the name of the user's own entry; servers may share names.

**StdioClientProofs.** Constants: any calls and ids, any budget and cap, and no
assumption on who uses which id. The invariant says that no entry outlives its wait
(`EntriesAwaited`), that the entry of an id belongs to the last call sent with it, so that
any other call of the id that may be answered came earlier (`EntriesLast`), and that a
waiting call that met no other of its id has its entry, with no call left that could
delete it (`NoneLost`). `AnswersMatch` follows from the second at the step that reads an
answer, `NobodyStranded` from the third.

**GatewayProofs, the cache.** Constants: any readers, keys, ttl and number of writes. One
lemma carries most of it (`DataKept`): no step but the backend's makes a value, so if
all values held anywhere are of a set that has the backend's present one, so are
all after the step. Taken for all versions it types the levels, the writes under
way, the shared calls and the readers; taken for the present version alone it
says that after a quiet write nothing older comes back. In between, from the
invalidation to the backend's answer, `Calmed` says that nothing is held: it needs
`Waited` (a call in flight has somebody who waits for it), without which a call
that no reader shares any more might bring an old answer, and `Named`, which makes the
invalidation complete.

**GatewayProofs, the limiter.** Constants: any requests, buckets, limits, windows, keys
and queue sizes. `WithinLimit` needs `Tallied`: the counts of a bucket never fall with
age, and the whole is within the limit, also when a poll lets several waiters pass
at once (`PushedTally`). `NobodyForgotten` needs `InLine`: who is queued stands in one
place of one queue, nobody else stands in any, a queue that holds somebody watches a
bucket of its own key, and the timer is set. Both rest on lemmas on `Picked`: a filtered list has the elements at its
positions, each once and in order. `Accounted` relates what a request was charged
with to what it has still to pass, at each phase, and says that only the queue makes
a request wait for a key. From it follows `CountedEverywhere`, for any windows; its one
exception, the other windows of the key a request waited for, is the code's (see above).

**GatewayProofs, the configuration.** Constants: any files, environments, posted servers
and number of reloads. Nobody checks the mixture of two configurations that a reload
leaves. That it is sound all the same (`AlwaysSound`) rests on `AppliedFit`: each part
of `validateConfig` looks at sections that a reload takes together or leaves
together, so what it takes of a sound file and leaves of a sound configuration is
sound. `ReloadsMatchRestart` compares what a reload leaves with what a start on the file
it read would run, in what the reload changes or reports. Its invariant `ConfigInv` needs besides soundness that lists of
servers are lists (`Lists`), that a reload that waits still applies the file it read
(`ReadFromFile`), and that the gateway section is already what the environment makes of
it (`EnvironmentKept`): a reload compares the file's bare section with it, and the
lemma `GatewayTwice` shows that applying the environment a second time changes
nothing, which makes the comparison one with a restart. `ConfigAssumption` says that the
servers of a file are a list (the merge ignores anything else) and that a posted server
has an id, an address and cache settings: `POST /servers` refuses one without an id and
supplies the settings; an address that was not given counts as one more address.

Values such as `None` that stand for "nothing" are assumed to differ from the
records they stand beside: TLA+ does not say that a string or model value is no record.

### What stays with TLC

- Liveness under fairness (`Recoverable`, `Recovers`, `Respawns`, `AllAnswered`,
  `StaleExpires`, `ReadsEnd`, `Converges`): out of the prover's reach.
- That a probe's slot, a waiter, a reload is in the end released, resolved, finished:
  the safety theorems say that nothing is lost on the way, the liveness runs that it
  moves on.
- The operators of `Namespace`, `Identity` and `AccessPolicy` are proved about as far as
  `ToolAccess` and `ServerTable` use them.

## Not modelled

`PROJECT.json` names each component with its reason, and each hazard that no
property covers with a note. In short:

- the Redis limiter, the eviction of rate buckets and the refresh of the connect
  registry's catalogue are state machines still to be written;
- plugins are arbitrary code: their early answers are steps of the models
  (`AnswerEarly`, `TurnAway`, `TurnedAway`), what else a hook may do is not;
- logs, metrics, traces and the audit trail are written by every step and read by
  no guard; descriptors, ranking, exports and the CLI's prompts are wording;
- the gateway's stop, TLS, and the encryption of stored secrets;
- the MCP session id that `McpClient` shares between callers
  (`mcp-client.ts:128`), the streaming transports, and the aggregation of a batch's
  answers.

## Plan

Modules that would carry the project on:

1. `RedisRateLimiting`: sorted sets shared by the windows of a key, members that
   collide, the fallback, the swap at start, against the abstract sliding window
   of `RateLimiting`.
2. `RateBuckets`: the eviction of buckets at the cap, with `WithinLimit`.
3. `RegistryLibrary`: refreshes of the catalogue that overlap, pages and cursors.
4. The session store of `connect/install.ts` as the other side of `Install`.
