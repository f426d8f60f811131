---------------------------- MODULE ConfigReload ----------------------------
(* The configuration over the life of a gateway: the operator edits the file, *)
(* the process starts on it, and while it runs POST /conduit/config/reload    *)
(* (or SIGHUP) re-reads it and applies what can be changed in place, beside   *)
(* the admin API's own changes of config.servers (src/gateway/gateway.ts,     *)
(* src/index.ts, src/admin/routes.ts).                                        *)
(*                                                                            *)
(* A reload gives up the thread only while a server it adds is being          *)
(* connected; each such wait ends by Connected. The two admin routes are one  *)
(* step here: what interleaves inside them is ServerTable's subject. A file   *)
(* that gives no servers makes config.servers the list inside                 *)
(* DEFAULT_GATEWAY_CONFIG itself: shared says so, and defaults is that list.  *)
EXTENDS Configuration, Filtering

CONSTANTS
  Files,       \* what the file can hold: raw records, and Broken
  Broken,      \* a file that cannot be parsed, or holds no object
  Absent,      \* no file
  Envs,        \* the environments a process may be started in
  Posted,      \* the servers the admin API may be given
  Reloads,     \* reload requests
  MaxEvents    \* bound: edits of the file, starts and admin changes together

IsList(s) == s \in Seq({s[i] : i \in DOMAIN s})

(* The merge takes the servers of a file for a list or ignores them, and POST *)
(* /servers sees to an id and to cache settings; a missing url is a url here. *)
ASSUME ConfigAssumption ==
  /\ MaxEvents \in Nat
  /\ \A f \in Files \ {Broken, Absent} : Given(f, "servers") => IsList(f.servers)
  /\ \A s \in Posted : {"id", "url", "cache"} \subseteq DOMAIN s

VARIABLES
  file,      \* the file's content
  env,       \* the process's environment
  config,    \* the running configuration, or Down
  shared,    \* config.servers is the defaults' own list
  defaults,  \* DEFAULT_GATEWAY_CONFIG.servers
  reload,    \* [Reloads -> the reload in progress]
  answer,    \* what the step before answered to a reload, or NoAnswer
  budget     \* what is left of MaxEvents

configVars == <<file, env, config, shared, defaults, reload, answer, budget>>

Down == [down |-> TRUE]
Up == config # Down
NoReload == [at |-> "idle"]
Unread == {Broken, Absent}

-----------------------------------------------------------------------------
(* The parts of reload().                                                     *)

Differs(a, b, k) == (Given(a, k) # Given(b, k)) \/ (Given(a, k) /\ a[k] # b[k])

(* Mutant: a section the file drops stays.                                    *)
TakeGiven(a, b, k) == IF Given(b, k) THEN [x \in {k} |-> b[k]] ++ a ELSE a

(* The section of b in place of a's, or no section when b has none.           *)
Take(a, b, k) == IF Given(b, k) THEN [x \in {k} |-> b[k]] ++ a ELSE Without(a, k)

Pinned(cfg, new) ==
  {k \in {"port", "host", "tls"} : Differs(new.gateway, cfg.gateway, k)}
  \cup (IF Differs(Section(new, "auth"), Section(cfg, "auth"), "method")
        THEN {"auth.method"} ELSE {})
  \cup (IF Differs(new.governance, cfg.governance, "enabled")
           \/ Differs(new.governance, cfg.governance, "db_path")
        THEN {"governance"} ELSE {})

Find(cfg, id) == LET at == {i \in DOMAIN cfg.servers : cfg.servers[i].id = id}
                 IN cfg.servers[CHOOSE i \in at : \A j \in at : i <= j]

MovedUrls(cfg, new) ==
  {id \in ServerIds(new) \cap ServerIds(cfg) : Find(new, id).url # Find(cfg, id).url}

(* What follows the last server added, in one turn: servers the file does not *)
(* name go, the sections are replaced, and the entries take the file's cache  *)
(* settings.                                                                  *)
Staying(cfg, new) ==
  Picked(cfg.servers, {i \in DOMAIN cfg.servers : cfg.servers[i].id \in ServerIds(new)})

(* The logging switches of new over those of old; the rest stays.             *)
Logging(old, new) ==
  [old EXCEPT !.log_args = new.log_args, !.log_responses = new.log_responses,
              !.redact_fields = new.redact_fields]

(* Mutant: the admin section, made for the address of the start, goes too.    *)
SectionsAndAdmin(cfg, new) ==
  LET hot == Take(Take(Take(Take(cfg, new, "acl"), new, "guardrails"), new, "rate_limits"),
                  new, "admin")
  IN [hot EXCEPT !.observability = Logging(@, new.observability)]

Sections(cfg, new) ==
  LET hot == Take(Take(Take(cfg, new, "acl"), new, "guardrails"), new, "rate_limits")
      gov == IF "governance" \in Pinned(cfg, new) THEN hot ELSE Take(hot, new, "governance")
  IN [gov EXCEPT !.observability = Logging(@, new.observability)]

Applied(cfg, new) ==
  LET stay == Staying(cfg, new)
      First(i) == \A j \in 1..i - 1 : stay[j].id # stay[i].id
      Entry(i) == IF First(i) THEN [stay[i] EXCEPT !.cache = Find(new, stay[i].id).cache]
                              ELSE stay[i]
  IN [Sections(cfg, new) EXCEPT !.servers = [i \in DOMAIN stay |-> Entry(i)]]

(* The servers a reload adds: those not in config.servers when it begins.     *)
Missing(cfg, new) ==
  Picked(new.servers, {i \in DOMAIN new.servers : new.servers[i].id \notin ServerIds(cfg)})

NoAnswer == [errors |-> {"none"}]
Refused == [errors |-> {"refused"}]

-----------------------------------------------------------------------------

ConfigInit ==
  /\ file \in Files
  /\ env \in Envs
  /\ config = Down
  /\ shared = FALSE
  /\ defaults = <<>>
  /\ reload = [w \in Reloads |-> NoReload]
  /\ answer = NoAnswer
  /\ budget = MaxEvents

(* Someone changes the file.                                                  *)
Edit ==
  /\ budget > 0
  /\ \E f \in Files \ {file} : file' = f
  /\ budget' = budget - 1
  /\ answer' = NoAnswer
  /\ UNCHANGED <<env, config, shared, defaults, reload>>

(* A process that is not told which file to read does without one.            *)
Content(f) == IF f = Absent THEN <<>> ELSE f

Starts(f) ==
  /\ f # Broken /\ (f = Absent => ~Given(env, "CONDUIT_CONFIG"))
  /\ Valid(Loaded(Content(f), env))

(* main: the process starts on the file and the environment, or exits again.  *)
Start ==
  /\ ~Up /\ budget > 0
  /\ budget' = budget - 1
  /\ defaults' = <<>>
  /\ IF Starts(file)
     THEN /\ config' = Loaded(Content(file), env)
          /\ shared' = ~Given(Content(file), "servers")
     ELSE config' = Down /\ shared' = FALSE
  /\ answer' = NoAnswer
  /\ UNCHANGED <<file, env, reload>>

(* The process ends: whatever it was doing ends with it.                      *)
Shutdown ==
  /\ Up
  /\ config' = Down /\ shared' = FALSE /\ defaults' = <<>>
  /\ reload' = [w \in Reloads |-> NoReload] /\ answer' = NoAnswer
  /\ UNCHANGED <<file, env, budget>>

(* The last turn of a reload. filter() makes a new list.                      *)
Finish(w, r, cfg) ==
  /\ config' = Applied(cfg, r.new)
  /\ shared' = FALSE
  /\ reload' = [reload EXCEPT ![w] = NoReload]
  /\ answer' = [read |-> r.read, errors |-> r.errors,
                skipped |-> Pinned(cfg, r.new) \cup MovedUrls(cfg, r.new)]

(* A reload reads the file and checks it without the environment.             *)
BeginReload(w) ==
  /\ Up
  /\ reload[w].at = "idle"
  /\ LET new == IF file \in Unread THEN Down ELSE Merged(file, defaults)
     IN IF file \in Unread \/ ~Valid(new)
        THEN answer' = Refused /\ UNCHANGED <<config, shared, reload>>
        ELSE LET r == [at |-> "adding", read |-> file, new |-> new,
                       todo |-> Missing(config, new), errors |-> {}]
             IN IF r.todo = <<>> THEN Finish(w, r, config)
                ELSE /\ reload' = [reload EXCEPT ![w] = r] /\ answer' = NoAnswer
                     /\ UNCHANGED <<config, shared>>
  /\ UNCHANGED <<file, env, defaults, budget>>

(* The server being added answers, or cannot be registered.                   *)
Connected(w) ==
  /\ reload[w].at = "adding"
  /\ \E ok \in BOOLEAN :
       LET r   == reload[w]
           s   == Head(r.todo)
           cfg == IF ok THEN [config EXCEPT !.servers = Append(@, s)] ELSE config
           on  == [r EXCEPT !.todo = Tail(@),
                            !.errors = IF ok THEN @ ELSE @ \cup {s.id}]
       IN /\ defaults' = IF shared /\ ok THEN Append(defaults, s) ELSE defaults
          /\ IF on.todo = <<>> THEN Finish(w, on, cfg)
             ELSE /\ config' = cfg /\ reload' = [reload EXCEPT ![w] = on]
                  /\ answer' = NoAnswer /\ UNCHANGED shared
  /\ UNCHANGED <<file, env, budget>>

(* POST /servers: nothing of validateConfig is asked of the body.             *)
Post ==
  /\ Up /\ budget > 0
  /\ \E s \in Posted :
       /\ s.id \notin ServerIds(config)
       /\ config' = [config EXCEPT !.servers = Append(@, s)]
       /\ defaults' = IF shared THEN Append(defaults, s) ELSE defaults
  /\ budget' = budget - 1
  /\ answer' = NoAnswer
  /\ UNCHANGED <<file, env, shared, reload>>

(* DELETE /servers/:id splices the first entry of that id.                    *)
Delete ==
  /\ Up /\ budget > 0
  /\ \E id \in ServerIds(config) :
       LET Cut(s) == LET i == CHOOSE i \in DOMAIN s : /\ s[i].id = id
                                                      /\ \A j \in 1..i - 1 : s[j].id # id
                     IN SubSeq(s, 1, i - 1) \o SubSeq(s, i + 1, Len(s))
       IN /\ config' = [config EXCEPT !.servers = Cut(@)]
          /\ defaults' = IF shared THEN Cut(defaults) ELSE defaults
  /\ budget' = budget - 1
  /\ answer' = NoAnswer
  /\ UNCHANGED <<file, env, shared, reload>>

ConfigNext ==
  \/ Edit \/ Start \/ Shutdown \/ Post \/ Delete
  \/ \E w \in Reloads : BeginReload(w) \/ Connected(w)

ConfigSpec == ConfigInit /\ [][ConfigNext]_configVars

-----------------------------------------------------------------------------
(* Whatever way the running configuration came about, through starts with an  *)
(* environment, reloads of other files, some overlapping, and the admin API,  *)
(* it passes the checks the parts made from it rely on (thresholds, limits,   *)
(* queue sizes, one workspace per tenant, an admin key where the gateway is   *)
(* exposed), though a reload keeps some sections of one file and takes others *)
(* from another (gateway.ts reload, schema.ts validateConfig).                *)
SoundAlways == Up => SoundSections(config)

(* What a reload that reports no error has done. The sections it can change   *)
(* (acl, guardrails, rate limits, the governance unless listed as skipped),   *)
(* the logging switches and the cache settings of the servers are as after a  *)
(* restart on the file it read, and of a file that lists servers no others    *)
(* are left (all are there when no server had to be awaited). Of what it      *)
(* leaves to a restart it watches four things, and each of these is as after  *)
(* one or listed as skipped: the gateway's address, its TLS, the method of    *)
(* auth, the url of a server. On the rest (router, cache, metrics, identity,  *)
(* connect, admin, the stores, the keys of auth, other fields of a server)    *)
(* the code is silent, and nothing is claimed. What the environment sets is   *)
(* excepted (gateway.ts:319-448 against loader.ts:30-62).                     *)
AsRestarted ==
  LET r     == answer'
      fresh == Loaded(r.read, env)
      Unset(var) == ~Given(env, var)
  IN /\ \A k \in {"acl", "guardrails"} : ~Differs(config', fresh, k)
     /\ Unset("CONDUIT_REDIS_URL") => ~Differs(config', fresh, "rate_limits")
     /\ Unset("CONDUIT_GOVERNANCE_DB_PATH") /\ "governance" \notin r.skipped
          => config'.governance = fresh.governance
     /\ Unset("CONDUIT_LOG_ARGS")
          => config'.observability.log_args = fresh.observability.log_args
     /\ \A k \in {"log_responses", "redact_fields"} :
          config'.observability[k] = fresh.observability[k]
     /\ Given(r.read, "servers") =>
          /\ ServerIds(config') \subseteq ServerIds(fresh)
          /\ reload' = reload => ServerIds(config') = ServerIds(fresh)
          /\ \A id \in ServerIds(config') :
               /\ Find(config', id).cache = Find(fresh, id).cache
               /\ id \in r.skipped \/ Find(config', id).url = Find(fresh, id).url
     /\ \A k \in {"port", "host", "tls"} :
          k \in r.skipped \/ ~Differs(config'.gateway, fresh.gateway, k)
     /\ "auth.method" \in r.skipped
          \/ ~Differs(Section(config', "auth"), Section(fresh, "auth"), "method")

ReloadMatchesRestart == [][answer'.errors = {} => AsRestarted]_configVars

(* loader.ts:5 and :107: the environment variables override everything and    *)
(* always have priority over the file. A reload, which applies the file alone,*)
(* takes CONDUIT_LOG_ARGS and CONDUIT_REDIS_URL back.                         *)
EnvironmentWins ==
  Up => /\ Given(env, "CONDUIT_LOG_ARGS")
             => config.observability.log_args = env.CONDUIT_LOG_ARGS
        /\ Given(env, "CONDUIT_REDIS_URL")
             => Or(Section(config, "rate_limits"), "redis_url", "") = env.CONDUIT_REDIS_URL
=============================================================================
