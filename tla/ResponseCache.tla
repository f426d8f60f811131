--------------------------- MODULE ResponseCache ---------------------------
(***************************************************************************)
(* The two levels of the response cache and the sharing of calls in        *)
(* flight: src/cache/cache-store.ts, redis-cache.ts and inflight.ts as the *)
(* pipeline uses them (src/gateway/pipeline.ts, handleToolCall).  Readers *)
(* call one cacheable tool; the writer calls a tool that invalidates it.   *)
(*                                                                         *)
(* A value is the version of the backend it was read at.  Level 2 drops an *)
(* entry older than its ttl, whatever multiplier Redis was given.          *)
(***************************************************************************)
EXTENDS Naturals, FiniteSets

CONSTANTS
    Readers,        \* calls of the cacheable tool in progress at one time
    Keys,           \* cache keys: one per tool and arguments
    Ttl,            \* the policy's ttl, in ticks
    MaxVersion,     \* bound on the writes
    None

Entry == [val : 0..MaxVersion, age : 0..Ttl + 1]
Answer == [val : 0..MaxVersion]
Asked == [val |-> None]

ASSUME CacheAssumption ==
    /\ Ttl \in Nat /\ MaxVersion \in Nat
    /\ None \notin Readers \union Keys \union Entry \union Answer \union {Asked}

VARIABLES
    version,    \* the backend's state: how many writes it has seen
    l1, l2,     \* the entry of each key at either level, or None
    toolIndex,  \* toolIndex of the tool: the keys an invalidation deletes
    recent,     \* recentWrites: keys written to level 2 within the window
    sending,    \* level 2 writes under way (fire and forget)
    inflight,   \* inflight[k]: None, Asked, or what the backend answered
    reader,     \* reader[r]: where a read is, its key, and what it holds
    writer,     \* idle, scan, forward, written
    unscanned,  \* keys deleteByTool has not come to yet at level 2
    calm        \* history: the last write met no read, nor an error of Redis

vars == <<version, l1, l2, toolIndex, recent, sending, inflight, reader,
          writer, unscanned, calm>>
level1 == <<l1, toolIndex>>
write == <<version, writer, unscanned>>

Idle == [at |-> "idle", key |-> None, holds |-> None]

Init ==
    /\ version = 0
    /\ l1 = [k \in Keys |-> None] /\ l2 = [k \in Keys |-> None]
    /\ toolIndex = {} /\ recent = {} /\ sending = {}
    /\ inflight = [k \in Keys |-> None]
    /\ reader = [r \in Readers |-> Idle]
    /\ writer = "idle" /\ unscanned = {}
    /\ calm = TRUE

----------------------------------------------------------------------------
(* Level 1.                                                                *)

Expired(e) == e.age > Ttl

Live(e) == e # None /\ ~Expired(e)

\* get() finds a live entry.
Hit(k) == Live(l1[k])

\* Seeded fault: an eviction leaves the key in the index.
DisposedNotIndexed(k) == toolIndex

\* dispose(): an entry that leaves leaves its index.
Disposed(k) == toolIndex \ {k}

\* get() drops an entry that has expired, with its index.
Dropped(k) ==
    /\ l1' = [l1 EXCEPT ![k] = None]
    /\ toolIndex' = Disposed(k)

\* set()
Cached(k, e) ==
    /\ l1' = [l1 EXCEPT ![k] = e]
    /\ toolIndex' = toolIndex \union {k}

\* The entries of other tools fill the cache, and k was used least recently.
Evict(k) ==
    /\ l1[k] # None
    /\ l1' = [l1 EXCEPT ![k] = None]
    /\ toolIndex' = Disposed(k)
    /\ UNCHANGED <<l2, recent, sending, inflight, reader, write, calm>>

\* deleteByTool(), deleteByServer(): every key of the index goes.
DeletedByTool ==
    /\ l1' = [k \in Keys |-> IF k \in toolIndex THEN None ELSE l1[k]]
    /\ toolIndex' = {}

----------------------------------------------------------------------------
(* A read.                                                                 *)

At(r, where) == reader[r].at = where
Moves(r, where, k, x) ==
    reader' = [reader EXCEPT ![r] = [at |-> where, key |-> k, holds |-> x]]

\* The read begins: level 1 answers it, or level 2 is asked.
Read(r, k) ==
    /\ At(r, "idle")
    /\ \/ /\ Hit(k)
          /\ UNCHANGED <<level1, reader, calm>>
       \/ /\ ~Hit(k)
          /\ Dropped(k)
          /\ Moves(r, "asks", k, None)
          /\ calm' = (calm /\ writer \in {"idle", "written"})
    /\ UNCHANGED <<l2, recent, sending, inflight, write>>

\* Redis reads the entry; the answer travels back, or comes too late.
RedisReads(r) ==
    /\ At(r, "asks")
    /\ \E x \in {l2[reader[r].key], None} : Moves(r, "answered", reader[r].key, x)
    /\ UNCHANGED <<level1, l2, recent, sending, inflight, write, calm>>

\* A live entry is promoted to level 1 and answers the read.
Promote(r) ==
    LET k == reader[r].key  e == reader[r].holds IN
    /\ At(r, "answered")
    /\ Live(e)
    /\ Cached(k, e)
    /\ reader' = [reader EXCEPT ![r] = Idle]
    /\ UNCHANGED <<l2, recent, sending, inflight, write, calm>>

\* deduplicate(): the first reader of a key calls the backend, the others
\* wait for its answer.
Share(r) ==
    LET k == reader[r].key  e == reader[r].holds IN
    /\ At(r, "answered")
    /\ ~Live(e)
    /\ inflight' = [inflight EXCEPT ![k] = IF @ = None THEN Asked ELSE @]
    /\ Moves(r, "waits", k, None)
    /\ UNCHANGED <<level1, l2, recent, sending, write, calm>>

\* A limit or a hook answers the read instead, before the call or after it.
TurnAway(r) ==
    /\ \/ At(r, "answered") /\ ~Live(reader[r].holds)
       \/ At(r, "stores")
    /\ reader' = [reader EXCEPT ![r] = Idle]
    /\ UNCHANGED <<level1, l2, recent, sending, inflight, write, calm>>

\* The backend serves the call at its present version.
Serve(k) ==
    /\ inflight[k] = Asked
    /\ inflight' = [inflight EXCEPT ![k] = [val |-> version]]
    /\ UNCHANGED <<level1, l2, recent, sending, reader, write, calm>>

\* Seeded fault: one of those who shared the call is told.
WaitersFirst(k) ==
    LET w == {r \in Readers : At(r, "waits") /\ reader[r].key = k}
    IN IF w = {} THEN {} ELSE {CHOOSE r \in w : TRUE}

Waiters(k) == {r \in Readers : At(r, "waits") /\ reader[r].key = k}

\* The answer arrives: the call is no longer in flight, and all who shared it
\* hold what it brought.
Arrive(k) ==
    /\ inflight[k] \notin {None, Asked}
    /\ inflight' = [inflight EXCEPT ![k] = None]
    /\ reader' = [r \in Readers |->
                     IF r \in Waiters(k)
                     THEN [at |-> "stores", key |-> k, holds |-> inflight[k]]
                     ELSE reader[r]]
    /\ UNCHANGED <<level1, l2, recent, sending, write, calm>>

\* The call fails, or the tool reports an error, which is not cached.
Fail(k) ==
    /\ inflight[k] # None
    /\ inflight' = [inflight EXCEPT ![k] = None]
    /\ reader' = [r \in Readers |-> IF r \in Waiters(k) THEN Idle ELSE reader[r]]
    /\ UNCHANGED <<level1, l2, recent, sending, write, calm>>

\* Seeded fault: an entry of its last tick is never past it.
OlderToTtl(e) == IF ~Live(e) THEN e
                 ELSE [e EXCEPT !.age = IF @ < Ttl THEN @ + 1 ELSE @]

Older(e) == IF ~Live(e) THEN e ELSE [e EXCEPT !.age = @ + 1]

\* After its hooks each of them caches the result at level 1, as of now, and
\* at level 2 unless the key was written there within the window.
Store(r) ==
    LET k == reader[r].key  e == [val |-> reader[r].holds.val, age |-> 0] IN
    /\ At(r, "stores")
    /\ Cached(k, e)
    /\ recent' = recent \union {k}
    /\ sending' = IF k \in recent THEN sending
                  ELSE sending \union {[key |-> k, entry |-> e]}
    /\ reader' = [reader EXCEPT ![r] = Idle]
    /\ UNCHANGED <<l2, inflight, write, calm>>

\* Redis takes the write, or the connection loses it.
RedisWrites(w) ==
    /\ w \in sending
    /\ sending' = sending \ {w}
    /\ \E e \in {w.entry, l2[w.key]} : l2' = [l2 EXCEPT ![w.key] = e]
    /\ UNCHANGED <<level1, recent, inflight, reader, write, calm>>

----------------------------------------------------------------------------
(* A write, and the admin.                                                 *)

Quiet == sending = {} /\ \A r \in Readers : At(r, "idle")

\* Level 1 is invalidated at once, before the call is forwarded.
Invalidate ==
    /\ writer \in {"idle", "written"} /\ version < MaxVersion
    /\ DeletedByTool
    /\ writer' = "scan" /\ unscanned' = Keys
    /\ calm' = Quiet
    /\ UNCHANGED <<version, l2, recent, sending, inflight, reader>>

\* deleteByTool() at level 2 comes to one key after another.
Scan(k) ==
    /\ writer = "scan" /\ k \in unscanned
    /\ l2' = [l2 EXCEPT ![k] = None]
    /\ unscanned' = unscanned \ {k}
    /\ UNCHANGED <<version, level1, recent, sending, inflight, reader, writer,
                   calm>>

\* Redis fails: the scan stops there, and the call goes on.
ScanFails ==
    /\ writer = "scan" /\ unscanned # {}
    /\ writer' = "forward" /\ unscanned' = {}
    /\ calm' = FALSE
    /\ UNCHANGED <<version, level1, l2, recent, sending, inflight, reader>>

\* Seeded fault: the call is forwarded without waiting for the scan.
ScannedAnyway == writer = "scan"

Scanned == writer = "scan" /\ unscanned = {}

Forward ==
    /\ Scanned
    /\ writer' = "forward"
    /\ UNCHANGED <<version, level1, l2, recent, sending, inflight, reader,
                   unscanned, calm>>

\* The backend takes the write, and the writer has its answer.
BackendWrites ==
    /\ writer = "forward"
    /\ version' = version + 1
    /\ writer' = "written"
    /\ UNCHANGED <<level1, l2, recent, sending, inflight, reader, unscanned, calm>>

\* A limit turns the writer away after all, or its call fails, with or without
\* effect on the backend.
WriteFails ==
    /\ writer = "forward"
    /\ version' \in {version, version + 1}
    /\ writer' = "idle"
    /\ UNCHANGED <<level1, l2, recent, sending, inflight, reader, unscanned, calm>>

\* DELETE /cache/server/:id, or a reload that changes the server: level 1 only.
AdminPurge ==
    /\ DeletedByTool
    /\ UNCHANGED <<l2, recent, sending, inflight, reader, write, calm>>

\* DELETE /cache/l2/flush
AdminFlush ==
    /\ l2' = [k \in Keys |-> None]
    /\ UNCHANGED <<level1, recent, sending, inflight, reader, write, calm>>

Tick ==
    /\ l1' = [k \in Keys |-> Older(l1[k])]
    /\ l2' = [k \in Keys |-> Older(l2[k])]
    /\ sending' = {[w EXCEPT !.entry = Older(@)] : w \in sending}
    /\ reader' = [r \in Readers |->
                     IF At(r, "answered") THEN [reader[r] EXCEPT !.holds = Older(@)]
                     ELSE reader[r]]
    /\ recent' = {}
    /\ UNCHANGED <<toolIndex, inflight, write, calm>>

Next ==
    \/ \E r \in Readers, k \in Keys : Read(r, k)
    \/ \E r \in Readers : RedisReads(r) \/ Promote(r) \/ Share(r) \/ Store(r)
                          \/ TurnAway(r)
    \/ \E k \in Keys : Serve(k) \/ Arrive(k) \/ Fail(k) \/ Scan(k) \/ Evict(k)
    \/ \E w \in sending : RedisWrites(w)
    \/ Invalidate \/ ScanFails \/ Forward \/ BackendWrites \/ WriteFails
    \/ AdminPurge \/ AdminFlush \/ Tick

Spec == Init /\ [][Next]_vars

\* Redis answers or times out, a call in flight ends (its request has a
\* timeout), what a read began it finishes, and time passes.
Fairness ==
    /\ \A r \in Readers :
          WF_vars(RedisReads(r) \/ Promote(r) \/ Share(r) \/ Store(r) \/ TurnAway(r))
    /\ \A k \in Keys : WF_vars(Arrive(k) \/ Fail(k))
    /\ WF_vars(\E w \in sending : RedisWrites(w))
    /\ WF_vars(Tick)

FairSpec == Spec /\ Fairness

----------------------------------------------------------------------------
TypeOK ==
    /\ version \in 0..MaxVersion
    /\ l1 \in [Keys -> Entry \union {None}]
    /\ l2 \in [Keys -> Entry \union {None}]
    /\ toolIndex \subseteq Keys /\ recent \subseteq Keys
    /\ sending \subseteq [key : Keys, entry : Entry]
    /\ inflight \in [Keys -> Answer \union {None, Asked}]
    /\ reader \in [Readers -> [at : {"idle", "asks", "answered", "waits", "stores"},
                               key : Keys \union {None},
                               holds : Entry \union Answer \union {None}]]
    /\ writer \in {"idle", "scan", "forward", "written"}
    /\ unscanned \subseteq Keys
    /\ calm \in BOOLEAN

\* Whatever evictions, expiries, promotions and purges came before, the index
\* names exactly the entries of level 1 (cache-store.ts:48-52, 136-171): an
\* invalidation misses none, and no index outgrows the cache.
Indexed == TypeOK /\ toolIndex = {k \in Keys : l1[k] # None}

Stale(e) == Live(e) /\ e.val < version

\* The invalidation runs before the write is forwarded (pipeline.ts:575): with
\* no read under way, once the writer is answered no level serves what it
\* replaced.  A read in flight across the write, or begun between the two,
\* stores the old answer after it.
QuietWriteInvalidates ==
    writer = "written" /\ calm =>
        \A k \in Keys : ~Stale(l1[k]) /\ ~Stale(l2[k])

\* A stale entry, however readers in flight, promotions from level 2 and
\* late writes pass it on, is in the end served no more.
StaleExpires ==
    \A k \in Keys : Stale(l1[k]) ~> ~Stale(l1[k])

\* Every read ends, also one that shared another's call which failed.
ReadsEnd == \A r \in Readers : ~At(r, "idle") ~> At(r, "idle")
=============================================================================
