--------------------------- MODULE ManagedRuntime ---------------------------
(***************************************************************************)
(* The releases of one managed stdio server: rollouts, rollbacks, the      *)
(* health gate between them (src/runtime/managed.ts) and the admin         *)
(* requests that drive them (src/admin/routes.ts).                         *)
(*                                                                         *)
(* A request awaits its body, and tools/list of every process it starts;   *)
(* other requests run meanwhile.  Removing the old process and registering *)
(* the new one is one turn, so that addServer never finds the id taken.    *)
(***************************************************************************)
EXTENDS Naturals, Sequences

CONSTANTS
    Release,      \* ids of releases
    Files,        \* what the configuration file may say of the server
    ImportGate,   \* the gate of a server imported from the package registry
    Request,      \* admin requests that may be in progress at one time
    MaxEntries,   \* bound: entries of the server in config.servers
    None

\* A configuration: the active and the last healthy release, the status of the
\* releases in its list ("unset" when the file gives none), and its health gate:
\* "off", "keep" (no auto_rollback) or "rollback".
Statuses == {"none", "unset", "candidate", "active", "healthy", "failed",
             "rolled_back"}

Config == [active : Release, last : Release \union {None},
           status : [Release -> Statuses],
           gate : {"off", "keep", "rollback"}]

Entry == [cfg : Config, runs : Release \union {None}, ok : BOOLEAN]

ASSUME ManagedRuntimeAssumption ==
    /\ Files \subseteq Config /\ ImportGate \in {"keep", "rollback"}
    /\ None \notin Release \union Config \union Entry
    /\ MaxEntries \in Nat \ {0}

VARIABLES
    file,       \* what the configuration file says
    live,       \* the registry's entry, or None
    listed,     \* the entries of the server in config.servers
    request,
    vouched,    \* history: releases whose process has answered tools/list, or
                \* that the file or an import calls active or healthy
    overlapped  \* history: something changed the server during a request

vars == <<file, live, listed, request, vouched, overlapped>>

Idle == [at |-> "idle", prev |-> None, next |-> None, holds |-> FALSE]
InProgress == {q \in Request : request[q].at # "idle"}

\* The releases of a configuration, and those it calls active or healthy.
Targets(cfg) == {r \in Release : cfg.status[r] # "none"}
Claimed(cfg) == {cfg.active, cfg.last} \ {None}

\* A process is started by the command of the active release, or, when the file
\* lists no such release, by the server's own.
Runs(cfg) == IF cfg.active \in Targets(cfg) THEN cfg.active ELSE None

Starting(cfg) == [cfg |-> cfg, runs |-> Runs(cfg), ok |-> FALSE]

\* The gateway has started with its file: the server is registered, listed and
\* asked for its tools, whether it answers or not.  No gate looks at it.
Up(ok) == [Starting(file) EXCEPT !.ok = ok]

Init ==
    /\ file \in Files
    /\ live \in {Up(ok) : ok \in BOOLEAN} /\ listed = <<file>>
    /\ request = [q \in Request |-> Idle]
    /\ vouched = Claimed(file) /\ overlapped = FALSE

----------------------------------------------------------------------------
(* runtime/managed.ts.                                                     *)

\* A package just imported: it counts as active and healthy from the first.
Imported(r) ==
    [active |-> r, last |-> r, gate |-> ImportGate,
     status |-> [x \in Release |-> IF x = r THEN "active" ELSE "none"]]

\* Sets the status of a release, if it is in the list.
Set(cfg, r, status) ==
    [cfg.status EXCEPT ![r] = IF @ = "none" THEN @ ELSE status]

\* The status of the release a rollout leaves.
LeftAs(cfg) ==
    IF cfg.active = cfg.last \/ cfg.status[cfg.active] = "unset" THEN "healthy"
    ELSE cfg.status[cfg.active]

RolledOut(cfg, r) ==
    [cfg EXCEPT !.active = r,
                !.status = [Set(cfg, cfg.active, LeftAs(cfg)) EXCEPT ![r] = "candidate"]]

\* Seeded fault: the release that is left keeps its status.
RolledBackKeeping(cfg, r) ==
    [cfg EXCEPT !.active = r, !.last = r, !.status = Set(cfg, r, "active")]

\* The current release may be the target; "rolled_back" then wins.
RolledBack(cfg, r) ==
    [cfg EXCEPT !.active = r, !.last = r,
        !.status = IF r = cfg.active THEN Set(cfg, r, "rolled_back")
                   ELSE [Set(cfg, cfg.active, "rolled_back") EXCEPT ![r] = "active"]]

MarkedHealthy(cfg) ==
    [cfg EXCEPT !.last = cfg.active, !.status = Set(cfg, cfg.active, "active")]

----------------------------------------------------------------------------
Known(cfg) == IF cfg = None THEN {} ELSE Targets(cfg) \union Claimed(cfg)

\* Ids carry the time: one is used again only when nothing names it any more.
Named ==
    Known(file) \union (IF live = None THEN {} ELSE Known(live.cfg))
    \union (UNION {Known(listed[i]) : i \in 1 .. Len(listed)})
    \union (UNION {Known(request[q].prev) \union Known(request[q].next) : q \in Request})

Touched(q) == overlapped' = (overlapped \/ InProgress \ {q} # {})

\* The entry of the registry goes: requests that await its tools/list, or their
\* body, hold what is no longer there.
Orphaned ==
    [q \in Request |->
        IF ~request[q].holds THEN request[q]
        ELSE [request[q] EXCEPT !.holds = FALSE,
                 !.prev = IF request[q].at = "body" THEN live.cfg ELSE @]]

\* Seeded fault: the old entry stays in config.servers.
SplicedNever == listed

Spliced == IF live = None \/ listed = <<>> THEN listed ELSE Tail(listed)

\* addServersToConduit with replaceExisting, up to the await of tools/list.
Replace(q, cfg, new) ==
    /\ live' = Starting(cfg) /\ listed' = Spliced
    /\ request' = [(IF live = None THEN request ELSE Orphaned)
                      EXCEPT ![q] = new]

\* POST .../rollout or .../rollback, up to its body.
Begin(q) ==
    /\ request[q].at = "idle" /\ live # None
    /\ request' = [request EXCEPT ![q] = [Idle EXCEPT !.at = "body", !.holds = TRUE]]
    /\ Touched(q) /\ UNCHANGED <<file, live, listed, vouched>>

\* The configuration the request found.
Found(q) == IF request[q].holds THEN live.cfg ELSE request[q].prev

Deploy(q, next) ==
    /\ Replace(q, next, [at |-> "deploy", prev |-> Found(q), next |-> next,
                         holds |-> TRUE])
    /\ Touched(q) /\ UNCHANGED file

Rollout(q) ==
    /\ request[q].at = "body"
    /\ \E r \in Release \ Named :
          /\ Deploy(q, RolledOut(Found(q), r))
          /\ vouched' = vouched \ {r}

\* To the release the body names, to the last healthy one, or, when there is
\* none, to the first other.
Rollback(q) ==
    /\ request[q].at = "body"
    /\ \E r \in Targets(Found(q)) : Deploy(q, RolledBack(Found(q), r))
    /\ UNCHANGED vouched

\* The body cannot be read, or names no version or a release that is not there.
BadRequest(q) ==
    /\ request[q].at = "body"
    /\ request' = [request EXCEPT ![q] = Idle]
    /\ UNCHANGED <<file, live, listed, vouched, overlapped>>

\* POST /connect/registry/install of the same package: it takes the place of
\* what is registered, and no gate looks at it.
Import(q) ==
    /\ request[q].at = "idle"
    /\ \E r \in Release \ Named :
          /\ Replace(q, Imported(r), [at |-> "import", prev |-> None,
                                     next |-> Imported(r), holds |-> TRUE])
          /\ vouched' = vouched \union {r}
    /\ Touched(q) /\ UNCHANGED file

----------------------------------------------------------------------------
\* refreshServer, for the entry its request registered.
Refreshed(q, ok) == IF request[q].holds THEN [live EXCEPT !.ok = ok] ELSE live

Vouched(cfg, ok) == IF ok THEN vouched \union {cfg.active} ELSE vouched

\* Seeded fault: the gate is not looked at.
GateOpenAlways(cfg, entry) == TRUE

\* The gate looks at whatever is registered by now.
GateOpen(cfg, entry) == cfg.gate = "off" \/ (entry # None /\ entry.ok)

\* Seeded fault: the registry keeps the candidate's configuration.
FinalizedInList(q, entry) == entry

Finalized(q, entry) ==
    IF entry = None THEN None ELSE [entry EXCEPT !.cfg = MarkedHealthy(request[q].next)]

\* addServer has returned: the configuration is listed, and the gate decides.
Deployed(q) ==
    /\ request[q].at = "deploy" /\ Len(listed) < MaxEntries
    /\ \E ok \in BOOLEAN :
       LET next == request[q].next
           entry == Refreshed(q, ok)
           entries == Append(listed, next)
           back == request[q].prev
       IN  /\ vouched' = Vouched(next, ok)
           /\ \/ /\ GateOpen(next, entry)
                 /\ live' = Finalized(q, entry)
                 /\ listed' = [entries EXCEPT ![1] = MarkedHealthy(next)]
                 /\ request' = [request EXCEPT ![q] = Idle]
              \/ /\ ~GateOpen(next, entry) /\ next.gate = "keep"
                 /\ live' = entry /\ listed' = entries
                 /\ request' = [request EXCEPT ![q] = Idle]
              \/ /\ ~GateOpen(next, entry) /\ next.gate = "rollback"
                 /\ live' = Starting(back)
                 /\ listed' = IF entry = None THEN entries ELSE Tail(entries)
                 /\ request' = [(IF live = None THEN request ELSE Orphaned) EXCEPT
                       ![q] = [at |-> "restore", prev |-> back, next |-> None,
                               holds |-> TRUE]]
    /\ Touched(q) /\ UNCHANGED file

\* addServer has returned for an import, which is listed, or for the previous
\* configuration, which is listed again and the request refused: whether or not
\* the process answers.
Registered(q) ==
    /\ request[q].at \in {"import", "restore"} /\ Len(listed) < MaxEntries
    /\ LET cfg == IF request[q].at = "import" THEN request[q].next
                  ELSE request[q].prev
       IN  /\ \E ok \in BOOLEAN :
                 live' = Refreshed(q, ok) /\ vouched' = Vouched(cfg, ok)
           /\ listed' = Append(listed, cfg)
    /\ request' = [request EXCEPT ![q] = Idle]
    /\ Touched(q) /\ UNCHANGED file

\* DELETE /servers/:id.
Delete ==
    /\ live # None
    /\ live' = None /\ listed' = Spliced /\ request' = Orphaned
    /\ overlapped' = (overlapped \/ InProgress # {})
    /\ UNCHANGED <<file, vouched>>

\* The health check of the registry, and the admin's refresh.
CheckHealth(ok) ==
    /\ live # None /\ live.ok # ok
    /\ live' = [live EXCEPT !.ok = ok]
    /\ UNCHANGED <<file, listed, request, vouched, overlapped>>

\* Releases are kept in memory only: a restart is back to the file.
Restart ==
    /\ live' \in {Up(ok) : ok \in BOOLEAN} /\ listed' = <<file>>
    /\ request' = [q \in Request |-> Idle]
    /\ vouched' = Claimed(file) /\ overlapped' = FALSE
    /\ UNCHANGED file

Next ==
    \/ \E q \in Request : \/ Begin(q) \/ Rollout(q) \/ Rollback(q) \/ BadRequest(q)
                          \/ Import(q) \/ Deployed(q) \/ Registered(q)
    \/ Delete \/ \E ok \in BOOLEAN : CheckHealth(ok)
    \/ Restart

Spec == Init /\ [][Next]_vars

----------------------------------------------------------------------------
(***************************************************************************)
(* What the runtime plane reports is what runs (admin/routes.ts:1591,      *)
(* managed.ts:318): when no request is in progress, the process was        *)
(* started for the release the registry calls active, and config.servers   *)
(* has one entry, which says the same.  Until requests overlap: two        *)
(* rollouts read the same configuration, each removes what the other has   *)
(* registered and finalizes whatever it finds there.                       *)
(***************************************************************************)
RunsWhatItSays ==
    InProgress = {} /\ ~overlapped =>
        IF live = None THEN listed = <<>>
        ELSE live.runs = Runs(live.cfg) /\ listed = <<live.cfg>>

(***************************************************************************)
(* The gate means something (admin/routes.ts:286): with automatic          *)
(* rollback, a release that a rollout or a rollback made active, or the    *)
(* one to fall back to, has answered tools/list.  No gate stands before    *)
(* what the file or an import calls active or healthy: it may never have   *)
(* answered (managed.ts:104, registry.ts:151).                             *)
(* Until requests overlap: the gate of one looks at the health of what the *)
(* other has started.                                                      *)
(***************************************************************************)
GateHolds ==
    InProgress = {} /\ ~overlapped /\ live # None /\ live.cfg.gate = "rollback" =>
        Claimed(live.cfg) \subseteq vouched

\* The active release and the one to fall back to are in the list, and a release
\* called active is both.
Consistent(cfg) ==
    /\ {cfg.active, cfg.last} \subseteq Targets(cfg)
    /\ \A r \in Release : cfg.status[r] = "active" => r = cfg.active /\ r = cfg.last

(***************************************************************************)
(* The record stays consistent however requests overlap                    *)
(* (managed.ts:183-316), if the file's was: every configuration kept has   *)
(* its active release in its list, as the one to fall back to, and no      *)
(* other release claims to be active.  Of a file that leaves               *)
(* last_healthy_release_id out, which it may, a rollout makes a list with  *)
(* two active releases.                                                    *)
(***************************************************************************)
OneActive ==
    Consistent(file) =>
        \A cfg \in {listed[i] : i \in 1 .. Len(listed)}
                   \union (IF live = None THEN {} ELSE {live.cfg}) :
            cfg \in Config /\ Consistent(cfg)
=============================================================================
