---------------------------- MODULE GatewayProofs ----------------------------
(***************************************************************************)
(* Proofs about what the gateway holds for every call: the response cache, *)
(* for any readers, keys, ttl and number of writes; the rate limiter with  *)
(* its queue, for any requests, buckets, limits and windows; and the       *)
(* configuration they are made from, for any files, environments and       *)
(* reloads in progress.                                                    *)
(***************************************************************************)
EXTENDS ResponseCache, RateLimiting, ConfigReload, TLAPS, FiniteSetTheorems

----------------------------------------------------------------------------
(* The response cache: nothing but the backend makes a value; the levels,  *)
(* the writes to Redis, the shared calls and the readers pass values on    *)
(* (Data).  That types them all, and it is also why a quiet write leaves   *)
(* nothing old: when the call is forwarded nothing is held anywhere        *)
(* (Hushed), and from its answer on only the new version comes in.         *)

EntryOf(V) == [val : V, age : 0..Ttl + 1]

Reads(V) ==
    [at : {"idle"}, key : {None}, holds : {None}]
    \union [at : {"asks", "waits"}, key : Keys, holds : {None}]
    \union [at : {"answered"}, key : Keys, holds : EntryOf(V) \union {None}]
    \union [at : {"stores"}, key : Keys, holds : [val : V]]

\* Every value held anywhere is one of V.
Data(V) ==
    /\ l1 \in [Keys -> EntryOf(V) \union {None}]
    /\ l2 \in [Keys -> EntryOf(V) \union {None}]
    /\ sending \subseteq [key : Keys, entry : EntryOf(V)]
    /\ inflight \in [Keys -> [val : V] \union {None, Asked}]
    /\ reader \in [Readers -> Reads(V)]

Control ==
    /\ version \in 0..MaxVersion
    /\ recent \subseteq Keys /\ unscanned \subseteq Keys
    /\ writer \in {"idle", "scan", "forward", "written"}
    /\ calm \in BOOLEAN
    /\ writer \in {"scan", "forward"} => version < MaxVersion
    /\ writer = "forward" => unscanned = {}

\* The index of the tool names the entries of level 1.
Named == toolIndex = {k \in Keys : l1[k] # None}

\* A call in flight has somebody who waits for it.
Waited == \A k \in Keys : inflight[k] # None => Waiters(k) # {}

\* Nothing is held but at level 2, and nobody is about to bring anything.
Hushed == Quiet /\ \A k \in Keys : l1[k] = None /\ inflight[k] = None

Calmed ==
    calm /\ writer \in {"scan", "forward"} =>
        Hushed /\ \A k \in Keys \ unscanned : l2[k] = None

Renewed == calm /\ writer = "written" => Data({version})

CacheInv == Data(0..MaxVersion) /\ Control /\ Named /\ Waited /\ Calmed /\ Renewed

----------------------------------------------------------------------------
(* What every action preserves on its own.                                 *)

\* Older (cache-store.ts:63-82: age against ttl) stops at the first tick past
\* the ttl and changes no value.
LEMMA OlderKeepsValue ==
    ASSUME NEW V, NEW e \in EntryOf(V) \union {None}
    PROVE  /\ Older(e) \in EntryOf(V) \union {None}
           /\ e # None => Older(e) \in EntryOf(V)
           /\ e = None => Older(e) = None
<1>1. CASE ~Live(e)
  BY <1>1 DEF Older
<1>2. CASE Live(e)
  <2>1. e \in EntryOf(V) /\ e.age <= Ttl /\ e.age \in 0..Ttl + 1 /\ e # None
    BY <1>2, CacheAssumption DEF Live, Expired, EntryOf
  <2>2. Older(e) = [val |-> e.val, age |-> e.age + 1]
    BY <1>2, <2>1 DEF Older, EntryOf
  <2>3. e.age + 1 \in 0..Ttl + 1
    BY <2>1, CacheAssumption
  <2> QED
    BY <2>1, <2>2, <2>3 DEF EntryOf
<1> QED
  BY <1>1, <1>2

\* A live entry is an entry.
LEMMA LiveIsEntry ==
    ASSUME NEW V, NEW e \in EntryOf(V) \union {None}, Live(e)
    PROVE  e \in EntryOf(V)
BY DEF Live

\* Where each reader stands decides what it holds.
LEMMA ReaderHolds ==
    ASSUME NEW V, Data(V), NEW r \in Readers
    PROVE  /\ At(r, "idle") => reader[r] = Idle
           /\ ~At(r, "idle") => reader[r].key \in Keys
           /\ At(r, "answered") => reader[r].holds \in EntryOf(V) \union {None}
           /\ At(r, "stores") => reader[r].holds.val \in V
<1>1. reader[r] \in Reads(V)
  BY DEF Data
<1> QED
  BY <1>1 DEF Reads, At, Idle

\* Only the backend makes values: as long as its own is one of V, every step
\* keeps all that is held anywhere in V.
LEMMA DataKept ==
    ASSUME NEW V, Data(V), version \in V, Next
    PROVE  Data(V)'
<1> USE DEF level1, write
<1>r. ASSUME NEW r \in Readers, NEW x \in Reads(V)
      PROVE  [reader EXCEPT ![r] = x] \in [Readers -> Reads(V)]
  BY DEF Data
<1>i. Idle \in Reads(V)
  BY DEF Idle, Reads
<1>c. ASSUME NEW k \in Keys, NEW e \in EntryOf(V) \union {None}
      PROVE  /\ [l1 EXCEPT ![k] = e] \in [Keys -> EntryOf(V) \union {None}]
             /\ [l2 EXCEPT ![k] = e] \in [Keys -> EntryOf(V) \union {None}]
  BY DEF Data
<1>1. ASSUME NEW r \in Readers, NEW k \in Keys, Read(r, k)
      PROVE  Data(V)'
  <2>1. CASE l1' = l1 /\ reader' = reader
    BY <1>1, <2>1 DEF Read, Data
  <2>2. CASE Dropped(k) /\ Moves(r, "asks", k, None)
    <3>1. [at |-> "asks", key |-> k, holds |-> None] \in Reads(V)
      BY DEF Reads
    <3> QED
      BY <1>1, <2>2, <3>1, <1>r, <1>c DEF Read, Data, Dropped, Moves
  <2> QED
    BY <1>1, <2>1, <2>2 DEF Read
<1>2. ASSUME NEW r \in Readers, RedisReads(r)
      PROVE  Data(V)'
  <2>1. PICK x \in {l2[reader[r].key], None} :
          Moves(r, "answered", reader[r].key, x)
    BY <1>2 DEF RedisReads
  <2>2. reader[r].key \in Keys
    BY <1>2, ReaderHolds DEF RedisReads, At
  <2>3. x \in EntryOf(V) \union {None}
    BY <2>1, <2>2 DEF Data
  <2>4. [at |-> "answered", key |-> reader[r].key, holds |-> x] \in Reads(V)
    BY <2>2, <2>3 DEF Reads
  <2> QED
    BY <1>2, <2>1, <2>4, <1>r DEF RedisReads, Data, Moves
<1>3. ASSUME NEW r \in Readers, Promote(r)
      PROVE  Data(V)'
  <2>1. reader[r].key \in Keys /\ reader[r].holds \in EntryOf(V) \union {None}
    BY <1>3, ReaderHolds DEF Promote, At
  <2> QED
    BY <1>3, <2>1, <1>r, <1>c, <1>i DEF Promote, Cached, Data
<1>4. ASSUME NEW r \in Readers, Share(r)
      PROVE  Data(V)'
  <2>1. reader[r].key \in Keys
    BY <1>4, ReaderHolds DEF Share, At
  <2>2. [at |-> "waits", key |-> reader[r].key, holds |-> None] \in Reads(V)
    BY <2>1 DEF Reads
  <2>3. inflight' \in [Keys -> [val : V] \union {None, Asked}]
    BY <1>4, <2>1 DEF Share, Data
  <2> QED
    BY <1>4, <2>2, <2>3, <1>r DEF Share, Data, Moves
<1>5. ASSUME NEW r \in Readers, Store(r)
      PROVE  Data(V)'
  <2> DEFINE e == [val |-> reader[r].holds.val, age |-> 0]
  <2>1. reader[r].key \in Keys /\ reader[r].holds.val \in V
    BY <1>5, ReaderHolds DEF Store, At
  <2>2. e \in EntryOf(V)
    BY <2>1, CacheAssumption DEF EntryOf
  <2>3. sending' \subseteq [key : Keys, entry : EntryOf(V)]
    BY <1>5, <2>1, <2>2 DEF Store, Data
  <2>4. l1' \in [Keys -> EntryOf(V) \union {None}]
    BY <1>5, <2>1, <2>2, <1>c DEF Store, Cached
  <2> QED
    BY <1>5, <2>3, <2>4, <1>r, <1>i DEF Store, Data
<1>6. ASSUME NEW r \in Readers, TurnAway(r)
      PROVE  Data(V)'
  BY <1>6, <1>r, <1>i DEF TurnAway, Data
<1>7. ASSUME NEW k \in Keys, Serve(k)
      PROVE  Data(V)'
  BY <1>7 DEF Serve, Data
<1>8. ASSUME NEW k \in Keys, Arrive(k)
      PROVE  Data(V)'
  <2>1. inflight[k] \in [val : V]
    BY <1>8 DEF Arrive, Data
  <2>2. [at |-> "stores", key |-> k, holds |-> inflight[k]] \in Reads(V)
    BY <2>1 DEF Reads
  <2>3. reader' \in [Readers -> Reads(V)]
    BY <1>8, <2>2 DEF Arrive, Data
  <2>4. inflight' \in [Keys -> [val : V] \union {None, Asked}]
    BY <1>8 DEF Arrive, Data
  <2> QED
    BY <1>8, <2>3, <2>4 DEF Arrive, Data
<1>9. ASSUME NEW k \in Keys, Fail(k)
      PROVE  Data(V)'
  <2>1. reader' \in [Readers -> Reads(V)]
    BY <1>9, <1>i DEF Fail, Data
  <2>2. inflight' \in [Keys -> [val : V] \union {None, Asked}]
    BY <1>9 DEF Fail, Data
  <2> QED
    BY <1>9, <2>1, <2>2 DEF Fail, Data
<1>10. ASSUME NEW k \in Keys, Scan(k)
       PROVE  Data(V)'
  BY <1>10, <1>c DEF Scan, Data
<1>11. ASSUME NEW k \in Keys, Evict(k)
       PROVE  Data(V)'
  BY <1>11, <1>c DEF Evict, Data
<1>12. ASSUME NEW w \in sending, RedisWrites(w)
       PROVE  Data(V)'
  <2>1. PICK e \in {w.entry, l2[w.key]} : l2' = [l2 EXCEPT ![w.key] = e]
    BY <1>12 DEF RedisWrites
  <2>2. w.key \in Keys /\ e \in EntryOf(V) \union {None}
    BY <2>1 DEF Data
  <2> QED
    BY <1>12, <2>1, <2>2, <1>c DEF RedisWrites, Data
<1>13. ASSUME DeletedByTool
       PROVE  l1' \in [Keys -> EntryOf(V) \union {None}]
  BY <1>13 DEF DeletedByTool, Data
<1>14. CASE Invalidate
  BY <1>14, <1>13 DEF Invalidate, Data
<1>15. CASE ScanFails \/ Forward \/ BackendWrites \/ WriteFails
  BY <1>15 DEF ScanFails, Forward, BackendWrites, WriteFails, Data
<1>16. CASE AdminPurge
  BY <1>16, <1>13 DEF AdminPurge, Data
<1>17. CASE AdminFlush
  BY <1>17 DEF AdminFlush, Data
<1>18. CASE Tick
  <2>1. /\ l1' \in [Keys -> EntryOf(V) \union {None}]
        /\ l2' \in [Keys -> EntryOf(V) \union {None}]
    BY <1>18, OlderKeepsValue DEF Tick, Data
  <2>2. ASSUME NEW w \in sending
        PROVE  [w EXCEPT !.entry = Older(@)] \in [key : Keys, entry : EntryOf(V)]
    <3>1. w \in [key : Keys, entry : EntryOf(V)]
      BY DEF Data
    <3>2. w.entry \in EntryOf(V)
      BY <3>1
    <3>3. w.entry # None => Older(w.entry) \in EntryOf(V)
      BY <3>2, OlderKeepsValue
    <3>4. w.entry = None => Older(w.entry) \in EntryOf(V)
      BY <3>2, OlderKeepsValue
    <3> QED
      BY <3>1, <3>3, <3>4
  <2>3. sending' \subseteq [key : Keys, entry : EntryOf(V)]
    BY <1>18, <2>2 DEF Tick
  <2>4. ASSUME NEW r \in Readers
        PROVE  (IF At(r, "answered") THEN [reader[r] EXCEPT !.holds = Older(@)]
                ELSE reader[r]) \in Reads(V)
    <3>1. reader[r] \in Reads(V)
      BY DEF Data
    <3>2. CASE At(r, "answered")
      <4>1. reader[r] \in [at : {"answered"}, key : Keys,
                           holds : EntryOf(V) \union {None}]
        BY <3>1, <3>2 DEF Reads, At
      <4>2. Older(reader[r].holds) \in EntryOf(V) \union {None}
        BY <4>1, OlderKeepsValue
      <4>3. [reader[r] EXCEPT !.holds = Older(@)]
              \in [at : {"answered"}, key : Keys,
                   holds : EntryOf(V) \union {None}]
        BY <4>1, <4>2
      <4> QED
        BY <3>2, <4>3 DEF Reads
    <3> QED
      BY <3>1, <3>2
  <2>5. reader' \in [Readers -> Reads(V)]
    BY <1>18, <2>4 DEF Tick
  <2>6. inflight' = inflight
    BY <1>18 DEF Tick
  <2> QED
    BY <2>1, <2>3, <2>5, <2>6 DEF Data
<1> QED
  BY <1>1, <1>2, <1>3, <1>4, <1>5, <1>6, <1>7, <1>8, <1>9, <1>10, <1>11, <1>12,
     <1>14, <1>15, <1>16, <1>17, <1>18 DEF Next

----------------------------------------------------------------------------
(* The writer and the versions.                                            *)

LEMMA ControlKept ==
    ASSUME Data(0..MaxVersion), Control, Next
    PROVE  Control'
<1> USE DEF Control, write
<1>1. version \in Nat /\ version <= MaxVersion /\ MaxVersion \in Nat
  BY CacheAssumption
<1>2. ASSUME NEW r \in Readers, NEW k \in Keys, Read(r, k)
      PROVE  Control'
  BY <1>2 DEF Read
<1>3. ASSUME NEW r \in Readers,
             RedisReads(r) \/ Promote(r) \/ Share(r) \/ TurnAway(r)
      PROVE  Control'
  BY <1>3 DEF RedisReads, Promote, Share, TurnAway
<1>4. ASSUME NEW r \in Readers, Store(r)
      PROVE  Control'
  <2>1. reader[r].key \in Keys
    BY <1>4, ReaderHolds DEF Store, At
  <2> QED
    BY <1>4, <2>1 DEF Store
<1>5. ASSUME NEW k \in Keys, Serve(k) \/ Arrive(k) \/ Fail(k) \/ Evict(k)
      PROVE  Control'
  BY <1>5 DEF Serve, Arrive, Fail, Evict
<1>6. ASSUME NEW k \in Keys, Scan(k)
      PROVE  Control'
  BY <1>6 DEF Scan
<1>7. ASSUME NEW w \in sending, RedisWrites(w)
      PROVE  Control'
  BY <1>7 DEF RedisWrites
<1>8. CASE Invalidate
  <2>1. calm' \in BOOLEAN
    BY <1>8 DEF Invalidate, Quiet
  <2> QED
    BY <1>1, <1>8, <2>1 DEF Invalidate
<1>9. CASE ScanFails \/ Forward
  BY <1>9 DEF ScanFails, Forward, Scanned
<1>10. CASE BackendWrites \/ WriteFails
  BY <1>1, <1>10 DEF BackendWrites, WriteFails
<1>11. CASE AdminPurge \/ AdminFlush \/ Tick
  BY <1>11 DEF AdminPurge, AdminFlush, Tick
<1> QED
  BY <1>2, <1>3, <1>4, <1>5, <1>6, <1>7, <1>8, <1>9, <1>10, <1>11 DEF Next

----------------------------------------------------------------------------
(* The index of the tool.                                                  *)

LEMMA NamedKept ==
    ASSUME Data(0..MaxVersion), Named, Next
    PROVE  Named'
<1> USE DEF level1
<1>0. /\ toolIndex = {k \in Keys : l1[k] # None}
      /\ l1 \in [Keys -> EntryOf(0..MaxVersion) \union {None}]
      /\ EntryOf(0..MaxVersion) = Entry
      /\ None \notin Entry
  BY CacheAssumption DEF Named, Data, EntryOf, Entry
<1>1. ASSUME level1' = level1
      PROVE  Named'
  BY <1>1 DEF Named
<1>2. ASSUME NEW k \in Keys, Dropped(k)
      PROVE  Named'
  BY <1>0, <1>2 DEF Dropped, Disposed, Named
<1>3. ASSUME NEW k \in Keys, NEW e, e # None, Cached(k, e)
      PROVE  Named'
  BY <1>0, <1>3 DEF Cached, Named
<1>4. ASSUME DeletedByTool
      PROVE  Named'
  BY <1>0, <1>4 DEF DeletedByTool, Named
<1>5. ASSUME NEW r \in Readers, NEW k \in Keys, Read(r, k)
      PROVE  Named'
  BY <1>1, <1>2, <1>5 DEF Read
<1>6. ASSUME NEW r \in Readers, Promote(r)
      PROVE  Named'
  <2>1. reader[r].key \in Keys /\ reader[r].holds # None
    BY <1>6, ReaderHolds DEF Promote, At, Live
  <2> QED
    BY <1>3, <1>6, <2>1 DEF Promote
<1>7. ASSUME NEW r \in Readers, Store(r)
      PROVE  Named'
  <2> DEFINE e == [val |-> reader[r].holds.val, age |-> 0]
  <2>1. reader[r].key \in Keys /\ reader[r].holds.val \in 0..MaxVersion
    BY <1>7, ReaderHolds DEF Store, At
  <2>2. e \in Entry
    BY <2>1, CacheAssumption DEF Entry
  <2>3. e # None /\ Cached(reader[r].key, e)
    BY <1>0, <1>7, <2>2 DEF Store
  <2> HIDE DEF e
  <2> QED
    BY <1>3, <2>1, <2>3
<1>8. ASSUME NEW k \in Keys, Evict(k)
      PROVE  Named'
  BY <1>0, <1>8 DEF Evict, Disposed, Named
<1>9. ASSUME NEW r \in Readers, RedisReads(r) \/ Share(r) \/ TurnAway(r)
      PROVE  Named'
  BY <1>1, <1>9 DEF RedisReads, Share, TurnAway
<1>10. ASSUME NEW k \in Keys, Serve(k) \/ Arrive(k) \/ Fail(k) \/ Scan(k)
       PROVE  Named'
  BY <1>1, <1>10 DEF Serve, Arrive, Fail, Scan
<1>11. ASSUME NEW w \in sending, RedisWrites(w)
       PROVE  Named'
  BY <1>1, <1>11 DEF RedisWrites
<1>12. CASE Invalidate \/ AdminPurge
  BY <1>4, <1>12 DEF Invalidate, AdminPurge
<1>13. CASE ScanFails \/ Forward \/ BackendWrites \/ WriteFails \/ AdminFlush
  BY <1>1, <1>13 DEF ScanFails, Forward, BackendWrites, WriteFails, AdminFlush
<1>14. CASE Tick
  <2>1. \A k \in Keys : l1'[k] = None <=> l1[k] = None
    <3> SUFFICES ASSUME NEW k \in Keys
                 PROVE  l1'[k] = None <=> l1[k] = None
      OBVIOUS
    <3>1. l1'[k] = Older(l1[k])
      BY <1>14 DEF Tick
    <3>2. l1[k] \in EntryOf(0..MaxVersion) \union {None}
      BY <1>0
    <3> QED
      BY <1>0, <3>1, <3>2, OlderKeepsValue
  <2>2. toolIndex' = toolIndex
    BY <1>14 DEF Tick
  <2> QED
    BY <1>0, <2>1, <2>2 DEF Named
<1> QED
  BY <1>5, <1>6, <1>7, <1>8, <1>9, <1>10, <1>11, <1>12, <1>13, <1>14 DEF Next

----------------------------------------------------------------------------
(* The calls in flight.                                                    *)

\* A call in flight leaves inflight with all who wait for it
\* (inflight.ts:27-47); nobody else stops waiting.
LEMMA WaitedKept ==
    ASSUME Data(0..MaxVersion), Waited, Next
    PROVE  Waited'
<1> USE DEF level1, write
<1>0. reader \in [Readers -> Reads(0..MaxVersion)] /\ DOMAIN inflight = Keys
  BY DEF Data
\* Who waits goes on waiting, and no call starts.
<1>1. ASSUME \A r \in Readers : At(r, "waits") => reader'[r] = reader[r],
             \A k \in Keys : inflight[k] = None => inflight'[k] = None
      PROVE  Waited'
  <2> SUFFICES ASSUME NEW k \in Keys, inflight'[k] # None
               PROVE  Waiters(k)' # {}
    BY DEF Waited
  <2>1. PICK r \in Readers : At(r, "waits") /\ reader[r].key = k
    BY <1>1 DEF Waited, Waiters
  <2>2. reader'[r] = reader[r]
    BY <1>1, <2>1
  <2> QED
    BY <2>1, <2>2 DEF Waiters, At
<1>2. ASSUME NEW r \in Readers, NEW k \in Keys, Read(r, k)
      PROVE  Waited'
  BY <1>0, <1>1, <1>2 DEF Read, Moves, At
<1>3. ASSUME NEW r \in Readers,
             RedisReads(r) \/ Promote(r) \/ Store(r) \/ TurnAway(r)
      PROVE  Waited'
  <2>1. reader' = [reader EXCEPT ![r] = reader'[r]] /\ ~At(r, "waits")
    BY <1>0, <1>3 DEF RedisReads, Promote, Store, TurnAway, Moves, At
  <2>2. inflight' = inflight
    BY <1>3 DEF RedisReads, Promote, Store, TurnAway
  <2>3. \A q \in Readers : At(q, "waits") => reader'[q] = reader[q]
    BY <1>0, <2>1
  <2> QED
    BY <1>1, <2>2, <2>3
<1>4. ASSUME NEW r \in Readers, Share(r)
      PROVE  Waited'
  <2> DEFINE j == reader[r].key
  <2>1. j \in Keys
    BY <1>4, ReaderHolds DEF Share, At
  <2>2. reader'[r].at = "waits" /\ reader'[r].key = j
    BY <1>0, <1>4 DEF Share, Moves
  <2>3. \A q \in Readers : At(q, "waits") => reader'[q] = reader[q]
    BY <1>0, <1>4 DEF Share, Moves, At
  <2>4. \A k \in Keys : k # j => inflight'[k] = inflight[k]
    BY <1>0, <1>4 DEF Share
  <2> SUFFICES ASSUME NEW k \in Keys, inflight'[k] # None
               PROVE  Waiters(k)' # {}
    BY DEF Waited
  <2>5. CASE k = j
    <3>1. r \in Waiters(k)'
      BY <2>2, <2>5 DEF Waiters, At
    <3> QED
      BY <3>1
  <2>6. CASE k # j
    <3>1. PICK q \in Readers : At(q, "waits") /\ reader[q].key = k
      BY <2>4, <2>6 DEF Waited, Waiters
    <3>2. q \in Waiters(k)'
      BY <2>3, <3>1 DEF Waiters, At
    <3> QED
      BY <3>2
  <2> QED
    BY <2>5, <2>6
<1>5. ASSUME NEW k \in Keys, Serve(k)
      PROVE  Waited'
  <2>1. inflight[k] # None
    BY <1>5, CacheAssumption DEF Serve
  <2> QED
    BY <1>0, <1>1, <1>5, <2>1 DEF Serve
<1>6. ASSUME NEW k \in Keys, Arrive(k) \/ Fail(k)
      PROVE  Waited'
  <2>1. inflight' = [inflight EXCEPT ![k] = None]
    BY <1>6 DEF Arrive, Fail
  <2>2. \A q \in Readers : q \notin Waiters(k) => reader'[q] = reader[q]
    BY <1>6 DEF Arrive, Fail
  <2> SUFFICES ASSUME NEW j \in Keys, inflight'[j] # None
               PROVE  Waiters(j)' # {}
    BY DEF Waited
  <2>3. j # k /\ inflight[j] # None
    BY <1>0, <2>1
  <2>4. PICK q \in Readers : At(q, "waits") /\ reader[q].key = j
    BY <2>3 DEF Waited, Waiters
  <2>5. reader'[q] = reader[q]
    BY <2>2, <2>3, <2>4 DEF Waiters
  <2>6. q \in Waiters(j)'
    BY <2>4, <2>5 DEF Waiters, At
  <2> QED
    BY <2>6
<1>7. ASSUME NEW k \in Keys, Scan(k) \/ Evict(k)
      PROVE  Waited'
  BY <1>1, <1>7 DEF Scan, Evict
<1>8. ASSUME NEW w \in sending, RedisWrites(w)
      PROVE  Waited'
  BY <1>1, <1>8 DEF RedisWrites
<1>9. CASE Invalidate \/ ScanFails \/ Forward \/ BackendWrites \/ WriteFails
  BY <1>1, <1>9 DEF Invalidate, ScanFails, Forward, BackendWrites, WriteFails
<1>10. CASE AdminPurge \/ AdminFlush
  BY <1>1, <1>10 DEF AdminPurge, AdminFlush
<1>11. CASE Tick
  BY <1>1, <1>11 DEF Tick, At
<1> QED
  BY <1>2, <1>3, <1>4, <1>5, <1>6, <1>7, <1>8, <1>9, <1>10, <1>11 DEF Next

----------------------------------------------------------------------------
(* The quiet write.                                                        *)

\* From the invalidation (pipeline.ts:575) to the forwarding of the write
\* nothing is brought back, unless a read begins or Redis fails, which ends
\* the calm.
LEMMA CalmedKept ==
    ASSUME Data(0..MaxVersion), Control, Named, Waited, Calmed, Next
    PROVE  Calmed'
<1> SUFFICES ASSUME calm', writer' \in {"scan", "forward"}
             PROVE  Hushed' /\ \A k \in Keys \ unscanned' : l2'[k] = None
  BY DEF Calmed
<1> USE DEF level1, write
<1>0. /\ reader \in [Readers -> Reads(0..MaxVersion)]
      /\ DOMAIN l1 = Keys /\ DOMAIN l2 = Keys /\ DOMAIN inflight = Keys
  BY DEF Data
\* What nothing can happen to while nobody reads.
<1>1. ASSUME calm, writer \in {"scan", "forward"}
      PROVE  /\ \A r \in Readers : At(r, "idle") /\ reader[r].at = "idle"
             /\ \A k \in Keys : l1[k] = None /\ inflight[k] = None
             /\ \A k \in Keys \ unscanned : l2[k] = None
             /\ sending = {}
  BY <1>1 DEF Calmed, Hushed, Quiet, At
<1>2. ASSUME calm, writer \in {"scan", "forward"}, l1' = l1, l2' = l2,
             unscanned' = unscanned, sending' = sending, inflight' = inflight,
             reader' = reader
      PROVE  Hushed' /\ \A k \in Keys \ unscanned' : l2'[k] = None
  BY <1>1, <1>2 DEF Hushed, Quiet, At
<1>3. ASSUME NEW r \in Readers, NEW k \in Keys, Read(r, k)
      PROVE  Hushed' /\ \A j \in Keys \ unscanned' : l2'[j] = None
  BY <1>2, <1>3 DEF Read
<1>4. ASSUME NEW r \in Readers,
             RedisReads(r) \/ Promote(r) \/ Share(r) \/ TurnAway(r) \/ Store(r)
      PROVE  FALSE
  <2>1. reader[r].at # "idle" /\ calm' = calm /\ writer' = writer
    BY <1>4 DEF RedisReads, Promote, Share, TurnAway, Store, At
  <2> QED
    BY <1>1, <2>1
<1>5. ASSUME NEW k \in Keys, Serve(k) \/ Arrive(k) \/ Fail(k) \/ Evict(k)
      PROVE  FALSE
  <2>1. calm' = calm /\ writer' = writer
    BY <1>5 DEF Serve, Arrive, Fail, Evict
  <2>2. inflight[k] # None \/ l1[k] # None
    BY <1>5, CacheAssumption DEF Serve, Arrive, Fail, Evict
  <2> QED
    BY <1>1, <2>1, <2>2
<1>6. ASSUME NEW k \in Keys, Scan(k)
      PROVE  Hushed' /\ \A j \in Keys \ unscanned' : l2'[j] = None
  BY <1>0, <1>1, <1>6 DEF Scan, Hushed, Quiet, At
<1>7. ASSUME NEW w \in sending, RedisWrites(w)
      PROVE  FALSE
  BY <1>1, <1>7 DEF RedisWrites
<1>8. CASE Invalidate
  <2>1. Quiet
    BY <1>8 DEF Invalidate
  <2>2. \A k \in Keys : inflight[k] = None
    BY <2>1 DEF Waited, Waiters, Quiet, At
  <2>3. \A k \in Keys : l1'[k] = None
    BY <1>8 DEF Invalidate, DeletedByTool, Named
  <2>4. Quiet' /\ unscanned' = Keys /\ inflight' = inflight
    BY <1>8, <2>1 DEF Invalidate, Quiet, At
  <2> QED
    BY <2>2, <2>3, <2>4 DEF Hushed
<1>9. CASE Forward
  <2>1. calm /\ writer = "scan"
    BY <1>9 DEF Forward, Scanned
  <2> QED
    BY <1>2, <1>9, <2>1 DEF Forward
<1>10. CASE ScanFails \/ BackendWrites \/ WriteFails
  BY <1>10 DEF ScanFails, BackendWrites, WriteFails
<1>11. CASE AdminPurge
  <2>1. \A k \in Keys : l1'[k] = None
    BY <1>1, <1>11 DEF AdminPurge, DeletedByTool
  <2> QED
    BY <1>1, <1>11, <2>1 DEF AdminPurge, Hushed, Quiet, At
<1>12. CASE AdminFlush
  BY <1>1, <1>12 DEF AdminFlush, Hushed, Quiet, At
<1>13. CASE Tick
  <2>1. calm /\ writer \in {"scan", "forward"}
    BY <1>13 DEF Tick
  <2>2. Older(None) = None
    BY OlderKeepsValue
  <2>3. \A r \in Readers : reader'[r] = reader[r]
    BY <1>1, <1>13, <2>1 DEF Tick, At
  <2>4. sending' = {}
    BY <1>1, <1>13, <2>1 DEF Tick
  <2>5. \A k \in Keys : /\ l1'[k] = None /\ inflight'[k] = None
                        /\ k \notin unscanned' => l2'[k] = None
    BY <1>1, <1>13, <2>1, <2>2 DEF Tick
  <2> QED
    BY <1>1, <2>1, <2>3, <2>4, <2>5 DEF Hushed, Quiet, At
<1> QED
  BY <1>3, <1>4, <1>5, <1>6, <1>7, <1>8, <1>9, <1>10, <1>11, <1>12, <1>13
     DEF Next

\* The writer has its answer: what was hushed holds nothing, and from then on
\* every value is the backend's own.
LEMMA RenewedKept ==
    ASSUME Data(0..MaxVersion), Control, Calmed, Renewed, Next
    PROVE  Renewed'
<1> SUFFICES ASSUME calm', writer' = "written"
             PROVE  Data({version})'
  BY DEF Renewed
<1> USE DEF level1, write
<1>1. PICK v : v = version'
  OBVIOUS
<1>2. CASE BackendWrites
  <2>1. Hushed /\ unscanned = {} /\ \A k \in Keys : l2[k] = None
    BY <1>2 DEF BackendWrites, Calmed, Control
  <2>2. \A r \in Readers : reader[r] = Idle
    BY <2>1, ReaderHolds DEF Hushed, Quiet
  <2>3. Idle \in Reads({v})
    BY DEF Idle, Reads
  <2>4. reader \in [Readers -> Reads({v})]
    BY <2>2, <2>3 DEF Data
  <2>5. Data({v})
    BY <2>1, <2>4 DEF Data, Hushed, Quiet
  <2>6. Data({v})'
    BY <1>2, <2>5 DEF BackendWrites, Data
  <2> QED
    BY <1>1, <2>6 DEF Data
<1>3. CASE ~BackendWrites
  <2>1. calm /\ writer = "written" /\ version' = version
    <3>1. ASSUME NEW r \in Readers, NEW k \in Keys, Read(r, k)
          PROVE  calm /\ writer' = writer /\ version' = version
      BY <3>1 DEF Read
    <3>2. ASSUME NEW r \in Readers,
                 RedisReads(r) \/ Promote(r) \/ Share(r) \/ TurnAway(r) \/ Store(r)
          PROVE  calm /\ writer' = writer /\ version' = version
      BY <3>2 DEF RedisReads, Promote, Share, TurnAway, Store
    <3>3. ASSUME NEW k \in Keys,
                 Serve(k) \/ Arrive(k) \/ Fail(k) \/ Scan(k) \/ Evict(k)
          PROVE  calm /\ writer' = writer /\ version' = version
      BY <3>3 DEF Serve, Arrive, Fail, Scan, Evict
    <3>4. ASSUME NEW w \in sending, RedisWrites(w)
          PROVE  calm /\ writer' = writer /\ version' = version
      BY <3>4 DEF RedisWrites
    <3>5. ASSUME AdminPurge \/ AdminFlush \/ Tick
          PROVE  calm /\ writer' = writer /\ version' = version
      BY <3>5 DEF AdminPurge, AdminFlush, Tick
    <3>6. ~(Invalidate \/ ScanFails \/ Forward \/ WriteFails)
      BY DEF Invalidate, ScanFails, Forward, WriteFails
    <3> QED
      BY <1>3, <3>1, <3>2, <3>3, <3>4, <3>5, <3>6 DEF Next
  <2>2. v = version
    BY <1>1, <2>1
  <2>3. Data({version})
    BY <2>1 DEF Renewed
  <2>4. Data({v})
    BY <2>2, <2>3 DEF Data
  <2>5. Data({v})'
    BY <2>2, <2>4, DataKept
  <2> QED
    BY <1>1, <2>5 DEF Data
<1> QED
  BY <1>2, <1>3

----------------------------------------------------------------------------
(* The theorems.                                                           *)

\* CacheInv holds of every state the cache can be in.
THEOREM CacheInvariance == Spec => []CacheInv
<1>1. Init => CacheInv
  <2> SUFFICES ASSUME Init
               PROVE  CacheInv
    OBVIOUS
  <2>1. Idle \in Reads(0..MaxVersion)
    BY DEF Idle, Reads
  <2>2. Data(0..MaxVersion)
    BY <2>1 DEF Init, Data
  <2>3. Control
    BY CacheAssumption DEF Init, Control
  <2>4. Named /\ Waited /\ Calmed /\ Renewed
    BY DEF Init, Named, Waited, Calmed, Renewed
  <2> QED
    BY <2>2, <2>3, <2>4 DEF CacheInv
<1>2. CacheInv /\ [Next]_vars => CacheInv'
  <2> SUFFICES ASSUME CacheInv, [Next]_vars
               PROVE  CacheInv'
    OBVIOUS
  <2> USE DEF CacheInv
  <2>1. CASE Next
    <3>1. version \in 0..MaxVersion
      BY DEF Control
    <3>2. Data(0..MaxVersion)'
      BY <2>1, <3>1, DataKept
    <3>3. Control' /\ Named' /\ Waited' /\ Calmed' /\ Renewed'
      BY <2>1, ControlKept, NamedKept, WaitedKept, CalmedKept, RenewedKept
    <3> QED
      BY <3>2, <3>3
  <2>2. CASE UNCHANGED vars
    BY <2>2 DEF vars, Data, Control, Named, Waited, Waiters, Calmed, Hushed,
                Quiet, Renewed, At
  <2> QED
    BY <2>1, <2>2
<1> QED
  BY <1>1, <1>2, PTL DEF Spec

\* The index of the tool names exactly the entries of level 1
\* (cache-store.ts:48-52, 136-171), whatever expired, was evicted, promoted or
\* purged: an invalidation misses none.
THEOREM AlwaysIndexed == Spec => []Indexed
<1>1. CacheInv => Indexed
  <2> SUFFICES ASSUME CacheInv
               PROVE  Indexed
    OBVIOUS
  <2>1. EntryOf(0..MaxVersion) = Entry /\ [val : 0..MaxVersion] = Answer
    BY DEF EntryOf, Entry, Answer
  <2>2. Reads(0..MaxVersion)
          \subseteq [at : {"idle", "asks", "answered", "waits", "stores"},
                     key : Keys \union {None},
                     holds : Entry \union Answer \union {None}]
    BY <2>1 DEF Reads
  <2>3. toolIndex \subseteq Keys
    BY DEF CacheInv, Named
  <2>4. TypeOK
    BY <2>1, <2>2, <2>3 DEF CacheInv, Data, Control, TypeOK
  <2> QED
    BY <2>4 DEF CacheInv, Named, Indexed
<1> QED
  BY <1>1, CacheInvariance, PTL

\* With no read under way when a write begins, and none begun before it is
\* answered, no level serves what the write replaced (pipeline.ts:575), for as
\* long as no other write begins.
THEOREM QuietWriteAlwaysInvalidates == Spec => []QuietWriteInvalidates
<1>1. CacheInv => QuietWriteInvalidates
  <2> SUFFICES ASSUME CacheInv, writer = "written", calm, NEW k \in Keys
               PROVE  ~Stale(l1[k]) /\ ~Stale(l2[k])
    BY DEF QuietWriteInvalidates
  <2>1. Data({version})
    BY DEF CacheInv, Renewed
  <2>2. version \in Nat
    BY CacheAssumption DEF CacheInv, Control
  <2>3. ASSUME NEW e \in EntryOf({version}) \union {None}
        PROVE  ~Stale(e)
    BY <2>2 DEF Stale, Live, EntryOf
  <2>4. /\ l1[k] \in EntryOf({version}) \union {None}
        /\ l2[k] \in EntryOf({version}) \union {None}
    BY <2>1 DEF Data
  <2> QED
    BY <2>3, <2>4
<1> QED
  BY <1>1, CacheInvariance, PTL

----------------------------------------------------------------------------
(* The rate limiter and its queue.  A limit holds because who consumes     *)
(* asks first, without an await between; that nobody is forgotten, and     *)
(* that each bucket is counted, follows each request through its phases.   *)
(* First sequences, and what filter() leaves of one.                       *)

\* The positions of I that come before i.
Before(I, i) == {m \in I : m < i}

\* The positions taken are those of I, each once and in order.
LEMMA PlaceProperties ==
    ASSUME NEW n \in Nat, NEW I \in SUBSET (1..n)
    PROVE  /\ Cardinality(I) \in Nat
           /\ \A j \in 1..Cardinality(I) : Place(I, j) \in I
           /\ \A j, l \in 1..Cardinality(I) : Place(I, j) = Place(I, l) => j = l
           /\ \A j, l \in 1..Cardinality(I) : j < l => Place(I, j) < Place(I, l)
           /\ \A i \in I : \E j \in 1..Cardinality(I) : Place(I, j) = i
<1> DEFINE N == Cardinality(I)
           T == 1..N
           f == [i \in I |-> Cardinality(Before(I, i)) + 1]
<1>1. IsFiniteSet(I) /\ N \in Nat
  <2>1. IsFiniteSet(1..n)
    BY FS_Interval
  <2> QED BY <2>1, FS_Subset, FS_CardinalityType
<1>2. ASSUME NEW i \in I
      PROVE  /\ IsFiniteSet(Before(I, i)) /\ Cardinality(Before(I, i)) \in Nat
             /\ Cardinality(Before(I, i)) < N
  <2>1. Before(I, i) \in SUBSET I /\ i \notin Before(I, i)
    BY DEF Before
  <2>2. /\ IsFiniteSet(Before(I, i))
        /\ Cardinality(Before(I, i)) <= N /\ Cardinality(Before(I, i)) # N
    BY <1>1, <2>1, FS_Subset
  <2>3. Cardinality(Before(I, i)) \in Nat
    BY <2>2, FS_CardinalityType
  <2> QED BY <1>1, <2>2, <2>3
<1>3. ASSUME NEW i \in I, NEW m \in I, i < m
      PROVE  Cardinality(Before(I, i)) < Cardinality(Before(I, m))
  <2>1. Before(I, i) \in SUBSET Before(I, m) /\ Before(I, i) # Before(I, m)
    <3>1. i \in Before(I, m) /\ i \notin Before(I, i)
      BY <1>3 DEF Before
    <3>2. \A x \in I : x < i => x < m
      BY <1>3
    <3> QED BY <3>1, <3>2 DEF Before
  <2>2. Cardinality(Before(I, i)) <= Cardinality(Before(I, m))
        /\ Cardinality(Before(I, i)) # Cardinality(Before(I, m))
    BY <1>2, <2>1, FS_Subset
  <2> QED BY <1>2, <2>2
<1>4. \A i, m \in I : Cardinality(Before(I, i)) = Cardinality(Before(I, m)) => i = m
  <2>1. SUFFICES ASSUME NEW i \in I, NEW m \in I,
                        Cardinality(Before(I, i)) = Cardinality(Before(I, m))
                 PROVE  i = m
    OBVIOUS
  <2>2. ~(i < m) /\ ~(m < i)
    BY <1>2, <1>3, <2>1
  <2> QED BY <2>2
<1>5. f \in [I -> T]
  BY <1>1, <1>2
<1>6. f \in Injection(I, T)
  <2>1. \A i, m \in I : f[i] = f[m] => i = m
    BY <1>2, <1>4
  <2> QED BY <1>5, <2>1 DEF Injection, IsInjective
<1>7. IsFiniteSet(T) /\ Cardinality(T) = N
  BY <1>1, FS_Interval
<1>8. f \in Surjection(I, T)
  BY <1>6, <1>7, FS_Injection
<1>9. ASSUME NEW j \in T
      PROVE  /\ Place(I, j) \in I
             /\ Cardinality(Before(I, Place(I, j))) = j - 1
  <2>1. \E i \in I : f[i] = j
    BY <1>8 DEF Surjection
  <2>2. \E i \in I : Cardinality(Before(I, i)) = j - 1
    BY <1>2, <2>1
  <2>3. \E i \in I : Cardinality({m \in I : m < i}) = j - 1
    BY <2>2 DEF Before
  <2> QED BY <2>3 DEF Place, Before
<1>10. \A j, l \in T : Place(I, j) = Place(I, l) => j = l
  <2>1. SUFFICES ASSUME NEW j \in T, NEW l \in T, Place(I, j) = Place(I, l)
                 PROVE  j = l
    OBVIOUS
  <2>2. j - 1 = l - 1
    BY <1>9, <2>1
  <2> QED BY <1>1, <2>2
<1>11. ASSUME NEW i \in I
       PROVE  \E j \in T : Place(I, j) = i
  <2> DEFINE j == Cardinality(Before(I, i)) + 1
  <2>1. j \in T /\ j - 1 = Cardinality(Before(I, i))
    BY <1>1, <1>2
  <2>2. Place(I, j) \in I /\ Cardinality(Before(I, Place(I, j))) = j - 1
    BY <1>9, <2>1
  <2>3. Place(I, j) = i
    BY <1>4, <2>1, <2>2
  <2> QED BY <2>1, <2>3
<1>12. ASSUME NEW j \in T, NEW l \in T, j < l
       PROVE  Place(I, j) < Place(I, l)
  <2>1. /\ Place(I, j) \in I /\ Cardinality(Before(I, Place(I, j))) = j - 1
        /\ Place(I, l) \in I /\ Cardinality(Before(I, Place(I, l))) = l - 1
    BY <1>9
  <2>2. Place(I, j) # Place(I, l)
    BY <1>1, <1>12, <2>1
  <2>3. ~(Place(I, l) < Place(I, j))
    <3>1. SUFFICES ASSUME Place(I, l) < Place(I, j)
                   PROVE  FALSE
      OBVIOUS
    <3>2. Cardinality(Before(I, Place(I, l))) < Cardinality(Before(I, Place(I, j)))
      BY <1>3, <2>1, <3>1
    <3> QED BY <1>1, <1>12, <2>1, <3>2
  <2>4. Place(I, j) \in 1..n /\ Place(I, l) \in 1..n
    BY <2>1
  <2> QED BY <2>2, <2>3, <2>4
<1> QED BY <1>1, <1>9, <1>10, <1>11, <1>12

\* filter() leaves a sequence of elements of the first one: those at I.
LEMMA PickedProperties ==
    ASSUME NEW S, NEW q \in Seq(S), NEW I \in SUBSET (DOMAIN q)
    PROVE  /\ Picked(q, I) \in Seq(S)
           /\ Len(Picked(q, I)) = Cardinality(I)
           /\ DOMAIN Picked(q, I) = 1..Cardinality(I)
           /\ Cardinality(I) \in Nat /\ Cardinality(I) <= Len(q)
           /\ \A j \in 1..Cardinality(I) :
                 Place(I, j) \in I /\ Picked(q, I)[j] = q[Place(I, j)]
           /\ Range(Picked(q, I)) = {q[i] : i \in I}
<1>1. Len(q) \in Nat /\ DOMAIN q = 1..Len(q) /\ \A i \in 1..Len(q) : q[i] \in S
  OBVIOUS
<1>2. /\ Cardinality(I) \in Nat
      /\ \A j \in 1..Cardinality(I) : Place(I, j) \in I
      /\ \A i \in I : \E j \in 1..Cardinality(I) : Place(I, j) = i
  <2>1. I \in SUBSET (1..Len(q)) /\ Len(q) \in Nat
    BY <1>1
  <2> DEFINE n == Len(q)
  <2>2. n \in Nat /\ I \in SUBSET (1..n)
    BY <2>1
  <2> HIDE DEF n
  <2> QED BY <2>2, PlaceProperties
<1>3. \A j \in 1..Cardinality(I) : Picked(q, I)[j] = q[Place(I, j)]
  BY DEF Picked
<1>4. DOMAIN Picked(q, I) = 1..Cardinality(I)
  BY DEF Picked
<1>5. Picked(q, I) \in [1..Cardinality(I) -> S]
  BY <1>1, <1>2 DEF Picked
<1>6. Picked(q, I) \in Seq(S) /\ Len(Picked(q, I)) = Cardinality(I)
  BY <1>2, <1>4, <1>5
<1>7. Range(Picked(q, I)) = {q[i] : i \in I}
  <2>1. ASSUME NEW x \in Range(Picked(q, I))
        PROVE  x \in {q[i] : i \in I}
    <3>1. PICK j \in 1..Cardinality(I) : x = Picked(q, I)[j]
      BY <1>4 DEF Range
    <3> QED BY <1>2, <1>3, <3>1
  <2>2. ASSUME NEW i \in I
        PROVE  q[i] \in Range(Picked(q, I))
    <3>1. PICK j \in 1..Cardinality(I) : Place(I, j) = i
      BY <1>2
    <3>2. q[i] = Picked(q, I)[j] /\ j \in DOMAIN Picked(q, I)
      BY <1>3, <1>4, <3>1
    <3> QED BY <3>2 DEF Range
  <2> QED BY <2>1, <2>2
<1>8. Cardinality(I) <= Len(q)
  <2>1. 1 \in Int /\ Len(q) \in Int
    BY <1>1
  <2>2. /\ IsFiniteSet(1..Len(q))
        /\ Cardinality(1..Len(q)) = IF 1 > Len(q) THEN 0 ELSE Len(q) - 1 + 1
    BY <2>1, FS_Interval
  <2>3. Cardinality(1..Len(q)) = Len(q)
    BY <1>1, <2>2
  <2>4. I \in SUBSET (1..Len(q))
    BY <1>1
  <2> QED BY <2>2, <2>3, <2>4, FS_Subset
<1> QED BY <1>2, <1>3, <1>4, <1>6, <1>7, <1>8

\* The first element, and the others.
LEMMA HeadAndTail ==
    ASSUME NEW S, NEW q \in Seq(S), q # <<>>
    PROVE  /\ Head(q) \in S /\ Tail(q) \in Seq(S)
           /\ \A x : x \in Range(q) => x = Head(q) \/ x \in Range(Tail(q))
<1>1. Head(q) \in S /\ Tail(q) \in Seq(S)
  OBVIOUS
<1>2. ASSUME NEW i \in DOMAIN q, q[i] # Head(q)
      PROVE  q[i] \in Range(Tail(q))
  <2>1. i \in 1..Len(q) /\ i # 1 /\ Len(q) \in Nat
    BY <1>2
  <2>2. i - 1 \in 1..Len(Tail(q)) /\ Tail(q)[i - 1] = q[i]
    BY <2>1
  <2>3. DOMAIN Tail(q) = 1..Len(Tail(q))
    BY <1>1
  <2> QED BY <2>2, <2>3 DEF Range
<1> QED BY <1>1, <1>2 DEF Range

\* The elements of two sequences one after the other.
LEMMA RangeOfBoth ==
    ASSUME NEW S, NEW p \in Seq(S), NEW q \in Seq(S)
    PROVE  /\ p \o q \in Seq(S)
           /\ \A x : x \in Range(p \o q) => x \in Range(p) \/ x \in Range(q)
<1>1. p \o q \in Seq(S) /\ Len(p \o q) = Len(p) + Len(q)
  OBVIOUS
<1>2. ASSUME NEW i \in 1..Len(p \o q)
      PROVE  (p \o q)[i] \in Range(p) \/ (p \o q)[i] \in Range(q)
  <2>1. CASE i <= Len(p)
    <3>1. i \in DOMAIN p /\ (p \o q)[i] = p[i]
      BY <2>1
    <3> QED BY <3>1 DEF Range
  <2>2. CASE i > Len(p)
    <3>1. i - Len(p) \in DOMAIN q /\ (p \o q)[i] = q[i - Len(p)]
      BY <1>1, <2>2
    <3> QED BY <3>1 DEF Range
  <2> QED BY <2>1, <2>2
<1> QED BY <1>1, <1>2 DEF Range
----------------------------------------------------------------------------
(* The invariant of the limiter.                                           *)

\* Everything but the timestamps has its type.
RateTyped ==
    /\ phase \in [Requests -> Phases]
    /\ todo \in [Requests -> Seq(Buckets)]
    /\ queue \in [QueueKeys -> Seq(Requests)]
    /\ \A k \in QueueKeys : Len(queue[k]) <= MaxQueue
    /\ watched \in [QueueKeys -> Buckets \union {NoBucket}]
    /\ left \in [Requests -> 0..MaxWait]
    /\ polling \in BOOLEAN
    /\ charged \in [Requests -> SUBSET Buckets]
    /\ waited \in [Requests -> SUBSET QueueKeys]

\* The timestamps of a bucket: as many as the limit allows, the younger ones
\* among the older.
Tallied ==
    /\ DOMAIN used = Buckets
    /\ \A b \in Buckets :
          /\ used[b] \in [0..Window[b] -> Nat]
          /\ \A a, c \in 0..Window[b] : a <= c => used[b][a] <= used[b][c]
          /\ Count(b) <= Limit[b]

AllPaid(r, checks) == \A b \in Range(checks) : Counted(r, b)
Owed(r, checks) == \A b \in Range(checks) : Counted(r, b) \/ b \in Range(todo[r])

\* What each phase has counted, or is about to count.
Accounted ==
    \A r \in Requests :
        /\ phase[r] = "client" => Owed(r, ClientChecks[r])
        /\ phase[r] \in {"lookup", "hit", "server"} => AllPaid(r, ClientChecks[r])
        /\ phase[r] = "server" => Owed(r, ServerChecks[r])
        /\ phase[r] \in {"all", "rest"} => Owed(r, AllChecks(r))
        /\ phase[r] = "served" => AllPaid(r, AllChecks(r))
        /\ phase[r] \in {"client", "lookup", "hit", "server"} => waited[r] = {}

\* The queues hold those who wait, each in one place, and a queue that holds
\* anybody watches a bucket of its key.
InLine ==
    /\ \A k \in QueueKeys : \A i \in DOMAIN queue[k] : phase[queue[k][i]] = "queued"
    /\ \A r \in Requests : phase[r] = "queued" =>
          polling /\ \E k \in QueueKeys : r \in Range(queue[k])
    /\ \A k, l \in QueueKeys : \A i \in DOMAIN queue[k], j \in DOMAIN queue[l] :
          queue[k][i] = queue[l][j] => k = l /\ i = j
    /\ \A k \in QueueKeys :
          /\ queue[k] # <<>> => watched[k] # NoBucket
          /\ watched[k] # NoBucket => KeyOf[watched[k]] = k

RateInv == RateTyped /\ Tallied /\ Accounted /\ InLine
----------------------------------------------------------------------------
(* The queue.                                                              *)

\* The positions of the entries of queue k whose deadline has not come.
Timely(k) == {i \in DOMAIN queue[k] : ~Late(queue[k][i])}

\* The checks of a request are sequences of buckets.
LEMMA ChecksTyped ==
    ASSUME NEW r \in Requests
    PROVE  /\ ClientChecks[r] \in Seq(Buckets) /\ ServerChecks[r] \in Seq(Buckets)
           /\ AllChecks(r) \in Seq(Buckets)
           /\ \A x \in Range(AllChecks(r)) :
                 x \in Range(ClientChecks[r]) \/ x \in Range(ServerChecks[r])
<1>1. ClientChecks[r] \in Seq(Buckets) /\ ServerChecks[r] \in Seq(Buckets)
  BY RateAssumption
<1> QED BY <1>1, RangeOfBoth DEF AllChecks

\* The room of a bucket is what its window lacks to the limit.
LEMMA RoomLeft ==
    ASSUME Tallied, NEW b \in Buckets
    PROVE  /\ Count(b) \in Nat /\ Limit[b] \in Nat
           /\ Room(b) \in Nat /\ Count(b) + Room(b) <= Limit[b]
<1>1. Window[b] \in 0..Window[b] /\ Limit[b] \in Nat
  BY RateAssumption
<1>2. Count(b) \in Nat /\ Count(b) <= Limit[b]
  BY <1>1 DEF Tallied, Count
<1> QED BY <1>1, <1>2 DEF Room

\* A poll resolves the first entries that are in time, as many as there is
\* room for, and keeps the others that are.
LEMMA PollSplits ==
    ASSUME RateTyped, Tallied, InLine, NEW k \in QueueKeys
    PROVE  LET g == Len(Resolved(k))
               n == Cardinality(Timely(k))
               pos(j) == Place(Timely(k), j)
           IN  /\ g \in Nat /\ n \in Nat /\ g <= n
               /\ Resolved(k) \in Seq(Requests) /\ Kept(k) \in Seq(Requests)
               /\ Len(Kept(k)) = n - g /\ Len(Kept(k)) <= Len(queue[k])
               /\ \A j \in 1..n : pos(j) \in Timely(k)
               /\ \A j, l \in 1..n : pos(j) = pos(l) => j = l
               /\ \A j \in 1..g : Resolved(k)[j] = queue[k][pos(j)]
               /\ \A j \in 1..n - g : Kept(k)[j] = queue[k][pos(g + j)]
               /\ \A i \in Timely(k) : queue[k][i] \in Range(Resolved(k))
                                       \/ queue[k][i] \in Range(Kept(k))
               /\ watched[k] \in Buckets => g <= Room(watched[k])
               /\ queue[k] = <<>> => g = 0 /\ Kept(k) = <<>>
<1> DEFINE q == queue[k]
           I == Timely(k)
           n == Cardinality(I)
           g == Len(Resolved(k))
           pos(j) == Place(I, j)
           t == InTime(k)
<1>1. q \in Seq(Requests) /\ Len(q) \in Nat /\ DOMAIN q = 1..Len(q)
  BY DEF RateTyped
<1>2. I \in SUBSET (DOMAIN q) /\ t = Picked(q, I)
  BY DEF Timely, InTime
<1>3. /\ t \in Seq(Requests) /\ Len(t) = n /\ DOMAIN t = 1..n
      /\ n \in Nat /\ n <= Len(q)
      /\ \A j \in 1..n : pos(j) \in I /\ t[j] = q[pos(j)]
      /\ Range(t) = {q[i] : i \in I}
  BY <1>1, <1>2, PickedProperties
<1>4. \A j, l \in 1..n : pos(j) = pos(l) => j = l
  BY <1>1, <1>2, PlaceProperties
<1>5. /\ g \in Nat /\ g <= n
      /\ Resolved(k) \in Seq(Requests)
      /\ \A j \in 1..g : Resolved(k)[j] = t[j]
      /\ watched[k] \in Buckets => g <= Room(watched[k])
      /\ q = <<>> => g = 0
  <2>1. CASE q = <<>>
    <3>1. Resolved(k) = <<>>
      BY <2>1 DEF Resolved
    <3>2. watched[k] \in Buckets => Room(watched[k]) \in Nat
      BY RoomLeft
    <3> QED BY <1>3, <3>1, <3>2
  <2>2. CASE q # <<>>
    <3> DEFINE m == Lesser(Len(t), Room(watched[k]))
    <3>1. watched[k] \in Buckets
      BY <2>2 DEF InLine, RateTyped
    <3>2. m \in Nat /\ m <= n /\ m <= Room(watched[k])
      BY <1>3, <3>1, RoomLeft DEF Lesser
    <3>3. Resolved(k) = SubSeq(t, 1, m)
      BY <2>2 DEF Resolved
    <3>4. /\ SubSeq(t, 1, m) \in Seq(Requests) /\ Len(SubSeq(t, 1, m)) = m
          /\ \A j \in 1..m : SubSeq(t, 1, m)[j] = t[j]
      BY <1>3, <3>2
    <3> QED BY <2>2, <3>2, <3>3, <3>4
  <2> QED BY <2>1, <2>2
<1>6. /\ Kept(k) \in Seq(Requests) /\ Len(Kept(k)) = n - g
      /\ \A j \in 1..n - g : Kept(k)[j] = t[g + j]
  <2>1. Kept(k) = SubSeq(t, g + 1, n)
    BY <1>3 DEF Kept
  <2>2. /\ SubSeq(t, g + 1, n) \in Seq(Requests)
        /\ Len(SubSeq(t, g + 1, n)) = n - g
        /\ \A j \in 1..n - g : SubSeq(t, g + 1, n)[j] = t[g + j]
    BY <1>3, <1>5
  <2> QED BY <2>1, <2>2
<1>7. \A j \in 1..n - g : Kept(k)[j] = q[pos(g + j)]
  <2>1. \A j \in 1..n - g : g + j \in 1..n
    BY <1>3, <1>5
  <2> QED BY <1>3, <1>6, <2>1
<1>8. ASSUME NEW i \in I
      PROVE  q[i] \in Range(Resolved(k)) \/ q[i] \in Range(Kept(k))
  <2>1. PICK j \in 1..n : t[j] = q[i]
    BY <1>3 DEF Range
  <2>2. CASE j <= g
    <3>1. j \in DOMAIN Resolved(k) /\ Resolved(k)[j] = q[i]
      BY <1>5, <2>1, <2>2
    <3> QED BY <3>1 DEF Range
  <2>3. CASE ~(j <= g)
    <3>1. j - g \in 1..n - g /\ g + (j - g) = j
      BY <1>3, <1>5, <2>1, <2>3
    <3>2. j - g \in DOMAIN Kept(k) /\ Kept(k)[j - g] = q[i]
      BY <1>6, <2>1, <3>1
    <3> QED BY <3>2 DEF Range
  <2> QED BY <2>2, <2>3
<1>9. \A j \in 1..g : Resolved(k)[j] = q[pos(j)]
  <2>1. \A j \in 1..g : j \in 1..n
    BY <1>3, <1>5
  <2> QED BY <1>3, <1>5, <2>1
<1>10. q = <<>> => Kept(k) = <<>>
  BY <1>1, <1>3, <1>5, <1>6
<1>11. Len(Kept(k)) <= Len(q)
  BY <1>1, <1>3, <1>5, <1>6
<1> QED BY <1>3, <1>4, <1>5, <1>6, <1>7, <1>8, <1>9, <1>10, <1>11

\* Whoever a poll lets go on was waiting, in the queue it is taken from.
LEMMA FreedWaits ==
    ASSUME RateTyped, Tallied, InLine, NEW r \in Freed
    PROVE  /\ QueueOf(r) \in QueueKeys
           /\ r \in Range(queue[QueueOf(r)])
           /\ queue[QueueOf(r)] # <<>>
<1>1. PICK k \in QueueKeys : r \in Range(Resolved(k))
  BY DEF Freed
<1>2. PICK j \in DOMAIN Resolved(k) : Resolved(k)[j] = r
  BY <1>1 DEF Range
<1>3. j \in 1..Len(Resolved(k))
  BY <1>2, PollSplits
<1>4. /\ j \in 1..Cardinality(Timely(k))
      /\ Place(Timely(k), j) \in Timely(k) /\ r = queue[k][Place(Timely(k), j)]
  BY <1>2, <1>3, PollSplits
<1>5. r \in Range(queue[k])
  BY <1>4 DEF Timely, Range
<1>6. QueueOf(r) \in QueueKeys /\ r \in Range(queue[QueueOf(r)])
  BY <1>5 DEF QueueOf
<1>7. queue[QueueOf(r)] # <<>>
  BY <1>6 DEF Range
<1> QED BY <1>6, <1>7
----------------------------------------------------------------------------
(* One step of each part of the invariant.                                 *)

\* n timestamps more, when there is room for them, keep a bucket's tally.
LEMMA PushedTally ==
    ASSUME Tallied, NEW b \in Buckets, NEW n \in Nat, Count(b) + n <= Limit[b]
    PROVE  /\ Pushed(b, n) \in [0..Window[b] -> Nat]
           /\ \A a, c \in 0..Window[b] : a <= c => Pushed(b, n)[a] <= Pushed(b, n)[c]
           /\ Pushed(b, n)[Window[b]] <= Limit[b]
<1>1. /\ Window[b] \in 0..Window[b]
      /\ \A a \in 0..Window[b] : used[b][a] \in Nat
  BY RateAssumption DEF Tallied
<1>2. \A a, c \in 0..Window[b] : a <= c => used[b][a] + n <= used[b][c] + n
  BY <1>1 DEF Tallied
<1>3. \A a \in 0..Window[b] : Pushed(b, n)[a] = used[b][a] + n
  BY DEF Pushed
<1>4. Pushed(b, n) \in [0..Window[b] -> Nat]
  BY <1>1 DEF Pushed
<1>5. \A a, c \in 0..Window[b] : a <= c => Pushed(b, n)[a] <= Pushed(b, n)[c]
  BY <1>2, <1>3
<1>6. Pushed(b, n)[Window[b]] <= Limit[b]
  BY <1>1, <1>3 DEF Count
<1> QED BY <1>4, <1>5, <1>6

\* Who consumes asks first, a poll resolves no more than there is room for,
\* and time only takes timestamps away: the tallies stay within the limits.
LEMMA TalliedKept ==
    ASSUME RateTyped, Tallied, InLine, RateNext
    PROVE  Tallied'
<1> USE DEF Count
<1>1. CASE used' = used
  BY <1>1 DEF Tallied
<1>2. ASSUME NEW r \in Requests, Consume(r), used' # used
      PROVE  Tallied'
  <2> DEFINE b == Head(todo[r])
  <2>1. /\ b \in Buckets /\ Allows(b)
        /\ used' = [used EXCEPT ![b] = Pushed(b, 1)]
    BY <1>2 DEF Consume, RateTyped
  <2>2. Count(b) \in Nat /\ Limit[b] \in Nat /\ Count(b) + 1 <= Limit[b]
    BY <2>1, RoomLeft DEF Allows
  <2>3. /\ Pushed(b, 1) \in [0..Window[b] -> Nat]
        /\ \A a, c \in 0..Window[b] : a <= c => Pushed(b, 1)[a] <= Pushed(b, 1)[c]
        /\ Pushed(b, 1)[Window[b]] <= Limit[b]
    BY <2>1, <2>2, PushedTally
  <2>4. DOMAIN used' = Buckets
    BY <2>1 DEF Tallied
  <2>5. \A x \in Buckets : used'[x] = IF x = b THEN Pushed(b, 1) ELSE used[x]
    BY <2>1 DEF Tallied
  <2> HIDE DEF b
  <2> QED BY <2>3, <2>4, <2>5 DEF Tallied
<1>3. CASE Poll
  <2>1. DOMAIN used' = Buckets
    BY <1>3 DEF Poll
  <2>2. ASSUME NEW b \in Buckets
        PROVE  /\ used'[b] \in [0..Window[b] -> Nat]
               /\ \A a, c \in 0..Window[b] : a <= c => used'[b][a] <= used'[b][c]
               /\ used'[b][Window[b]] <= Limit[b]
    <3> DEFINE k == KeyOf[b]
               n == Len(Resolved(k))
    <3>1. CASE b = watched[k]
      <4>1. k \in QueueKeys
        BY DEF QueueKeys
      <4>2. n \in Nat /\ n <= Room(b)
        BY <3>1, <4>1, PollSplits
      <4>3. Count(b) \in Nat /\ Room(b) \in Nat /\ Limit[b] \in Nat
            /\ Count(b) + Room(b) <= Limit[b]
        BY RoomLeft
      <4>4. Count(b) + n <= Limit[b]
        BY <4>2, <4>3
      <4>5. used'[b] = Pushed(b, n)
        BY <1>3, <3>1 DEF Poll
      <4> QED BY <4>2, <4>4, <4>5, PushedTally
    <3>2. CASE b # watched[k]
      <4>1. used'[b] = used[b]
        BY <1>3, <3>2 DEF Poll
      <4> QED BY <4>1 DEF Tallied
    <3> QED BY <3>1, <3>2
  <2> QED BY <2>1, <2>2 DEF Tallied
<1>4. ASSUME NEW scope \in ResetScopes, AdminReset(scope)
      PROVE  Tallied'
  <2>1. DOMAIN used' = Buckets
    BY <1>4 DEF AdminReset
  <2>2. \A b \in Buckets : used'[b] = IF b \in scope THEN [a \in 0..Window[b] |-> 0]
                                      ELSE used[b]
    BY <1>4 DEF AdminReset
  <2>3. \A b \in Buckets : Limit[b] \in Nat /\ Window[b] \in 0..Window[b]
    BY RateAssumption
  <2> QED BY <2>1, <2>2, <2>3 DEF Tallied
<1>5. CASE RateTick
  <2>1. DOMAIN used' = Buckets
    BY <1>5 DEF RateTick
  <2>2. ASSUME NEW b \in Buckets
        PROVE  /\ used'[b] \in [0..Window[b] -> Nat]
               /\ \A a, c \in 0..Window[b] : a <= c => used'[b][a] <= used'[b][c]
               /\ used'[b][Window[b]] <= Limit[b]
    <3>1. /\ Window[b] \in Nat /\ Limit[b] \in Nat
          /\ \A a \in 0..Window[b] : used[b][a] \in Nat
          /\ \A a, c \in 0..Window[b] : a <= c => used[b][a] <= used[b][c]
          /\ used[b][Window[b]] <= Limit[b]
      BY RateAssumption DEF Tallied
    <3>2. used'[b] = [a \in 0..Window[b] |-> IF a = 0 THEN 0 ELSE used[b][a - 1]]
      BY <1>5 DEF RateTick
    <3>3. \A a \in 0..Window[b] : a # 0 => a - 1 \in 0..Window[b]
      BY <3>1
    <3>4. used'[b] \in [0..Window[b] -> Nat]
      BY <3>1, <3>2, <3>3
    <3>5. ASSUME NEW a \in 0..Window[b], NEW c \in 0..Window[b], a <= c
          PROVE  used'[b][a] <= used'[b][c]
      <4>1. CASE a = 0
        BY <3>2, <3>4, <4>1
      <4>2. CASE a # 0
        <5>1. c # 0 /\ a - 1 <= c - 1
          BY <3>1, <3>5, <4>2
        <5>2. used[b][a - 1] <= used[b][c - 1]
          BY <3>1, <3>3, <4>2, <5>1
        <5> QED BY <3>2, <4>2, <5>1, <5>2
      <4> QED BY <4>1, <4>2
    <3>6. used'[b][Window[b]] <= Limit[b]
      <4>1. CASE Window[b] = 0
        BY <3>1, <3>2, <4>1
      <4>2. CASE Window[b] # 0
        <5>1. Window[b] - 1 \in 0..Window[b] /\ Window[b] \in 0..Window[b]
          BY <3>1, <4>2
        <5>2. used[b][Window[b] - 1] <= used[b][Window[b]]
          BY <3>1, <5>1
        <5>3. used'[b][Window[b]] = used[b][Window[b] - 1]
          BY <3>2, <4>2, <5>1
        <5>4. used[b][Window[b] - 1] \in Nat /\ used[b][Window[b]] \in Nat
          BY <3>1, <5>1
        <5> QED BY <3>1, <5>2, <5>3, <5>4
      <4> QED BY <4>1, <4>2
    <3> QED BY <3>4, <3>5, <3>6
  <2> QED BY <2>1, <2>2 DEF Tallied
<1> QED
  BY <1>1, <1>2, <1>3, <1>4, <1>5
  DEF RateNext, Begin, Pass, Lookup, Preview, Enqueue, Stop

\* The types are kept.
LEMMA TypedKept ==
    ASSUME RateTyped, Tallied, InLine, RateNext
    PROVE  RateTyped'
<1> USE DEF RateTyped, Phases, Answered, Evaluating, Consuming
<1>a. \A r \in Requests : ClientChecks[r] \in Seq(Buckets)
                          /\ ServerChecks[r] \in Seq(Buckets)
                          /\ AllChecks(r) \in Seq(Buckets)
  BY ChecksTyped
<1>1. ASSUME NEW batch \in SUBSET Requests, NEW p \in {"client", "preview"},
             Begin(batch, p)
      PROVE  RateTyped'
  BY <1>a, <1>1 DEF Begin
<1>2. ASSUME NEW r \in Requests, Consume(r)
      PROVE  RateTyped'
  <2>1. Head(todo[r]) \in Buckets /\ Tail(todo[r]) \in Seq(Buckets)
    BY <1>2 DEF Consume
  <2>2. /\ phase' \in [Requests -> Phases]
        /\ todo' \in [Requests -> Seq(Buckets)]
        /\ charged' \in [Requests -> SUBSET Buckets]
        /\ UNCHANGED <<queue, watched, left, polling, waited>>
    <3>1. \/ /\ charged' = [charged EXCEPT ![r] = charged[r] \union {Head(todo[r])}]
             /\ todo' = [todo EXCEPT ![r] = Tail(todo[r])]
             /\ UNCHANGED phase
          \/ /\ phase' = [phase EXCEPT ![r] = "refused"]
             /\ UNCHANGED <<charged, todo>>
      BY <1>2 DEF Consume
    <3>2. UNCHANGED <<queue, watched, left, polling, waited>>
      BY <1>2 DEF Consume
    <3>3. charged[r] \union {Head(todo[r])} \in SUBSET Buckets
      BY <2>1
    <3> QED BY <2>1, <3>1, <3>2, <3>3
  <2> QED BY <2>2
<1>3. ASSUME NEW r \in Requests, Pass(r) \/ Lookup(r)
      PROVE  RateTyped'
  BY <1>a, <1>3 DEF Pass, Lookup
<1>4. ASSUME NEW r \in Requests, Preview(r)
      PROVE  RateTyped'
  <2>1. CASE todo[r] # <<>> /\ Enqueue(r, Head(todo[r]))
    <3> DEFINE b == Head(todo[r])
               k == KeyOf[b]
    <3>1. b \in Buckets /\ k \in QueueKeys
      BY <2>1 DEF QueueKeys
    <3>2. /\ queue[k] \in Seq(Requests) /\ Len(queue[k]) < MaxQueue
          /\ queue' = [queue EXCEPT ![k] = Append(queue[k], r)]
      BY <2>1, <3>1 DEF Enqueue
    <3>3. /\ Append(queue[k], r) \in Seq(Requests)
          /\ Len(Append(queue[k], r)) <= MaxQueue
      BY <3>2, RateAssumption
    <3>4. MaxWait \in 0..MaxWait
      BY RateAssumption
    <3>5. /\ watched' \in [QueueKeys -> Buckets \union {NoBucket}]
          /\ left' \in [Requests -> 0..MaxWait]
          /\ phase' \in [Requests -> Phases]
          /\ polling' \in BOOLEAN
      BY <2>1, <3>1, <3>4 DEF Enqueue
    <3>6. /\ queue' \in [QueueKeys -> Seq(Requests)]
          /\ \A x \in QueueKeys : Len(queue'[x]) <= MaxQueue
      BY <3>1, <3>2, <3>3
    <3>7. todo' = todo /\ charged' = charged /\ waited' = waited
      BY <1>4, <2>1 DEF Enqueue, Preview
    <3> QED BY <3>5, <3>6, <3>7
  <2>2. CASE todo[r] # <<>> /\ todo' = [todo EXCEPT ![r] = Tail(@)]
             /\ UNCHANGED <<phase, queue, watched, left, polling>>
    <3>1. Tail(todo[r]) \in Seq(Buckets)
      BY <2>2
    <3> QED BY <1>4, <2>2, <3>1 DEF Preview
  <2>3. CASE /\ phase' = [phase EXCEPT ![r] = "all"]
             /\ todo' = [todo EXCEPT ![r] = AllChecks(r)]
             /\ UNCHANGED <<queue, watched, left, polling>>
    BY <1>a, <1>4, <2>3 DEF Preview
  <2>4. CASE /\ phase' = [phase EXCEPT ![r] = "refused"]
             /\ UNCHANGED <<todo, queue, watched, left, polling>>
    BY <1>4, <2>4 DEF Preview
  <2> QED BY <1>4, <2>1, <2>2, <2>3, <2>4 DEF Preview
<1>5. CASE Poll
  <2>1. \A k \in QueueKeys : /\ Kept(k) \in Seq(Requests)
                             /\ Len(Kept(k)) <= MaxQueue
    <3>1. SUFFICES ASSUME NEW k \in QueueKeys
                   PROVE  /\ Kept(k) \in Seq(Requests) /\ Len(Kept(k)) <= MaxQueue
      OBVIOUS
    <3>2. Kept(k) \in Seq(Requests) /\ Len(Kept(k)) <= Len(queue[k])
      BY PollSplits
    <3>3. Len(queue[k]) \in Nat /\ Len(queue[k]) <= MaxQueue /\ MaxQueue \in Nat
      BY RateAssumption
    <3> QED BY <3>2, <3>3
  <2>2. \A r \in Requests : \A k : Rest(r, k) \in Seq(Buckets)
    BY <1>a, PickedProperties DEF Rest
  <2>3. queue' \in [QueueKeys -> Seq(Requests)]
        /\ \A k \in QueueKeys : Len(queue'[k]) <= MaxQueue
    BY <1>5, <2>1 DEF Poll
  <2>4. todo' \in [Requests -> Seq(Buckets)]
    BY <1>5, <2>2 DEF Poll
  <2>5. /\ phase' \in [Requests -> Phases]
        /\ watched' \in [QueueKeys -> Buckets \union {NoBucket}]
        /\ left' = left /\ polling' \in BOOLEAN
    BY <1>5 DEF Poll, StillWaiting
  <2>6. charged' \in [Requests -> SUBSET Buckets]
    <3>1. SUFFICES ASSUME NEW r \in Freed
                   PROVE  watched[QueueOf(r)] \in Buckets
      BY <1>5 DEF Poll
    <3>2. r \in Range(queue[QueueOf(r)]) /\ QueueOf(r) \in QueueKeys
      BY FreedWaits
    <3> QED BY <3>2 DEF InLine, Range
  <2>7. waited' \in [Requests -> SUBSET QueueKeys]
    BY <1>5, FreedWaits DEF Poll
  <2> QED BY <2>3, <2>4, <2>5, <2>6, <2>7
<1>6. CASE Stop
  <2>1. <<>> \in Seq(Requests) /\ Len(<<>>) <= MaxQueue
    BY RateAssumption
  <2>2. \A k \in QueueKeys : queue'[k] = <<>>
    BY <1>6 DEF Stop
  <2>3. queue' \in [QueueKeys -> Seq(Requests)]
    BY <1>6, <2>1 DEF Stop
  <2>4. /\ phase' \in [Requests -> Phases]
        /\ watched' \in [QueueKeys -> Buckets \union {NoBucket}]
        /\ polling' \in BOOLEAN
        /\ UNCHANGED <<todo, left, charged, waited>>
    BY <1>6 DEF Stop
  <2> QED BY <2>1, <2>2, <2>3, <2>4
<1>7. ASSUME NEW scope \in ResetScopes, AdminReset(scope)
      PROVE  RateTyped'
  BY <1>7 DEF AdminReset
<1>8. CASE RateTick
  <2>1. left' \in [Requests -> 0..MaxWait]
    <3>1. \A r \in Requests : left[r] \in 0..MaxWait
      OBVIOUS
    <3>2. \A r \in Requests : (IF left[r] > 0 THEN left[r] - 1 ELSE 0) \in 0..MaxWait
      BY <3>1, RateAssumption
    <3> QED BY <1>8, <3>2 DEF RateTick
  <2> QED BY <1>8, <2>1 DEF RateTick
<1> QED BY <1>1, <1>2, <1>3, <1>4, <1>5, <1>6, <1>7, <1>8 DEF RateNext

\* A request is counted in each bucket on its way, or has it still to pass.
LEMMA AccountedKept ==
    ASSUME RateTyped, Tallied, InLine, Accounted, RateNext
    PROVE  Accounted'
<1> DEFINE Acc(r) ==
             /\ phase[r] = "client" => Owed(r, ClientChecks[r])
             /\ phase[r] \in {"lookup", "hit", "server"} => AllPaid(r, ClientChecks[r])
             /\ phase[r] = "server" => Owed(r, ServerChecks[r])
             /\ phase[r] \in {"all", "rest"} => Owed(r, AllChecks(r))
             /\ phase[r] = "served" => AllPaid(r, AllChecks(r))
             /\ phase[r] \in {"client", "lookup", "hit", "server"} => waited[r] = {}
<1>a. \A r \in Requests : Acc(r)
  BY DEF Accounted
<1>b. SUFFICES \A r \in Requests : Acc(r)'
  BY DEF Accounted
<1>c. ASSUME NEW r \in Requests, phase'[r] = phase[r],
             todo'[r] = todo[r], charged'[r] = charged[r], waited'[r] = waited[r]
      PROVE  Acc(r)'
  BY <1>a, <1>c DEF Owed, AllPaid, Counted
<1>d. \A r \in Requests : ClientChecks[r] \in Seq(Buckets)
                          /\ ServerChecks[r] \in Seq(Buckets)
                          /\ AllChecks(r) \in Seq(Buckets)
                          /\ \A x \in Range(AllChecks(r)) :
                                x \in Range(ClientChecks[r])
                                \/ x \in Range(ServerChecks[r])
  BY ChecksTyped
<1>e. ASSUME NEW r \in Requests,
             phase'[r] \in {"refused", "queued", "preview", "idle"}
      PROVE  Acc(r)'
  BY <1>e
<1>1. ASSUME NEW batch \in SUBSET Requests, NEW p \in {"client", "preview"},
             Begin(batch, p), NEW s \in Requests
      PROVE  Acc(s)'
  <2>1. CASE s \notin batch
    BY <1>1, <1>c, <2>1 DEF Begin
  <2>2. CASE s \in batch /\ p = "preview"
    BY <1>1, <1>e, <2>2 DEF Begin
  <2>3. CASE s \in batch /\ p = "client"
    <3>1. phase'[s] = "client" /\ todo'[s] = ClientChecks[s] /\ waited'[s] = {}
      BY <1>1, <2>3 DEF Begin
    <3> QED BY <3>1 DEF Owed
  <2> QED BY <2>1, <2>2, <2>3
<1>2. ASSUME NEW r \in Requests, Consume(r), NEW s \in Requests
      PROVE  Acc(s)'
  <2>0. PICK b : b = Head(todo[r])
    OBVIOUS
  <2>1. CASE s # r
    BY <1>2, <1>c, <2>1 DEF Consume, RateTyped
  <2>2. CASE s = r /\ phase' = [phase EXCEPT ![r] = "refused"]
    BY <1>e, <2>2 DEF RateTyped
  <2>3. CASE s = r /\ charged' = [charged EXCEPT ![r] = charged[r] \union {b}]
             /\ todo' = [todo EXCEPT ![r] = Tail(todo[r])] /\ UNCHANGED phase
    <3>1. /\ phase'[r] = phase[r] /\ phase[r] \in Consuming
          /\ charged'[r] = charged[r] \union {b} /\ waited'[r] = waited[r]
          /\ todo'[r] = Tail(todo[r]) /\ todo[r] # <<>>
      BY <1>2, <2>3 DEF Consume, RateTyped
    <3>2. \A x \in Range(todo[r]) : x = b \/ x \in Range(Tail(todo[r]))
      BY <2>0, <3>1, HeadAndTail DEF RateTyped
    <3>3. \A x : Counted(r, x) => Counted(r, x)'
      BY <3>1 DEF Counted
    <3>4. Counted(r, b)'
      BY <3>1 DEF Counted
    <3>5. \A q : Owed(r, q) => Owed(r, q)'
      BY <3>1, <3>2, <3>3, <3>4 DEF Owed
    <3>6. \A q : AllPaid(r, q) => AllPaid(r, q)'
      BY <3>3 DEF AllPaid
    <3> QED BY <1>a, <2>3, <3>1, <3>5, <3>6
  <2> QED BY <1>2, <2>0, <2>1, <2>2, <2>3 DEF Consume
<1>3. ASSUME NEW r \in Requests, Pass(r), NEW s \in Requests
      PROVE  Acc(s)'
  <2>1. CASE s # r
    BY <1>3, <1>c, <2>1 DEF Pass, RateTyped
  <2>2. CASE s = r
    <3>1. /\ phase[r] \in Consuming /\ todo[r] = <<>>
          /\ charged' = charged /\ waited' = waited
          /\ phase'[r] = IF phase[r] = "client" THEN "lookup" ELSE "served"
      BY <1>3 DEF Pass, RateTyped
    <3>2. Range(todo[r]) = {}
      BY <3>1 DEF Range
    <3>3. \A q : Owed(r, q) => AllPaid(r, q)'
      BY <3>1, <3>2 DEF Owed, AllPaid, Counted
    <3>4. CASE phase[r] = "client"
      BY <1>a, <2>2, <3>1, <3>3, <3>4
    <3>5. CASE phase[r] = "server"
      <4>1. AllPaid(r, ClientChecks[r])' /\ AllPaid(r, ServerChecks[r])'
        BY <1>a, <3>1, <3>3, <3>5 DEF AllPaid, Counted
      <4>2. AllPaid(r, AllChecks(r))'
        BY <1>d, <4>1 DEF AllPaid
      <4> QED BY <2>2, <3>1, <3>5, <4>2
    <3>6. CASE phase[r] \in {"all", "rest"}
      BY <1>a, <2>2, <3>1, <3>3, <3>6
    <3> QED BY <3>1, <3>4, <3>5, <3>6 DEF Consuming
  <2> QED BY <2>1, <2>2
<1>4. ASSUME NEW r \in Requests, Lookup(r), NEW s \in Requests
      PROVE  Acc(s)'
  <2>1. CASE s # r
    BY <1>4, <1>c, <2>1 DEF Lookup, RateTyped
  <2>2. CASE s = r
    <3>1. /\ phase[r] = "lookup" /\ charged' = charged /\ waited' = waited
          /\ \/ phase'[r] = "hit"
             \/ phase'[r] = "server" /\ todo'[r] = ServerChecks[r]
      BY <1>4 DEF Lookup, RateTyped
    <3>2. AllPaid(r, ClientChecks[r])'
      BY <1>a, <3>1 DEF AllPaid, Counted
    <3>3. phase'[r] = "server" => Owed(r, ServerChecks[r])'
      BY <3>1 DEF Owed
    <3>4. waited'[r] = {}
      BY <1>a, <3>1
    <3>5. phase'[r] \in {"hit", "server"}
      BY <3>1
    <3> QED BY <2>2, <3>2, <3>3, <3>4, <3>5
  <2> QED BY <2>1, <2>2
<1>5. ASSUME NEW r \in Requests, Preview(r), NEW s \in Requests
      PROVE  Acc(s)'
  <2>1. CASE s # r
    BY <1>5, <1>c, <2>1 DEF Preview, Enqueue, RateTyped
  <2>2. CASE s = r
    <3>1. CASE phase'[r] \in {"refused", "queued", "preview", "idle"}
      BY <1>e, <2>2, <3>1
    <3>2. CASE phase'[r] = "all" /\ todo'[r] = AllChecks(r)
      BY <2>2, <3>2 DEF Owed
    <3> QED BY <1>5, <3>1, <3>2 DEF Preview, Enqueue, RateTyped
  <2> QED BY <2>1, <2>2
<1>6. ASSUME Poll, NEW r \in Requests
      PROVE  Acc(r)'
  <2>1. CASE r \in Freed
    <3> DEFINE l == QueueOf(r)
    <3>1. l \in QueueKeys /\ queue[l] # <<>>
      BY <2>1, FreedWaits
    <3>2. watched[l] \in Buckets /\ KeyOf[watched[l]] = l
      BY <3>1 DEF InLine, RateTyped
    <3>3. /\ phase'[r] = "rest" /\ todo'[r] = Rest(r, l)
          /\ charged'[r] = charged[r] \union {watched[l]}
          /\ waited'[r] = waited[r] \union {l}
      BY <1>6, <2>1 DEF Poll
    <3>4. ASSUME NEW b \in Range(AllChecks(r))
          PROVE  Counted(r, b)' \/ b \in Range(Rest(r, l))
      <4>1. CASE KeyOf[b] = l
        BY <3>2, <3>3, <4>1 DEF Counted
      <4>2. CASE KeyOf[b] # l
        <5> DEFINE q == AllChecks(r)
                   I == {i \in DOMAIN q : KeyOf[q[i]] # l}
        <5>1. PICK i \in DOMAIN q : q[i] = b
          BY DEF Range
        <5>2. i \in I
          BY <4>2, <5>1
        <5>3. Range(Picked(q, I)) = {q[x] : x \in I}
          <6>1. I \in SUBSET (DOMAIN q) /\ q \in Seq(Buckets)
            BY <1>d
          <6> HIDE DEF I, q
          <6> QED BY <6>1, PickedProperties
        <5> QED BY <5>1, <5>2, <5>3 DEF Rest
      <4> QED BY <4>1, <4>2
    <3>5. Owed(r, AllChecks(r))'
      BY <3>3, <3>4 DEF Owed
    <3> QED BY <3>3, <3>5
  <2>2. CASE r \notin Freed /\ r \in Rejected
    BY <1>6, <1>e, <2>2 DEF Poll
  <2>3. CASE r \notin Freed /\ r \notin Rejected
    BY <1>6, <1>c, <2>3 DEF Poll
  <2> QED BY <2>1, <2>2, <2>3
<1>7. ASSUME Stop, NEW r \in Requests
      PROVE  Acc(r)'
  <2>1. CASE phase[r] = "queued"
    BY <1>7, <1>e, <2>1 DEF Stop
  <2>2. CASE phase[r] # "queued"
    BY <1>7, <1>c, <2>2 DEF Stop
  <2> QED BY <2>1, <2>2
<1>8. ASSUME RateTick \/ \E scope \in ResetScopes : AdminReset(scope),
             NEW r \in Requests
      PROVE  Acc(r)'
  BY <1>8, <1>c DEF RateTick, AdminReset
<1> HIDE DEF Acc
<1> QED BY <1>1, <1>2, <1>3, <1>4, <1>5, <1>6, <1>7, <1>8 DEF RateNext

\* Nobody is put into a queue who is in one, and nobody leaves it but to go on
\* or to be refused.
LEMMA InLineKept ==
    ASSUME RateTyped, Tallied, InLine, RateNext
    PROVE  InLine'
<1>1. ASSUME UNCHANGED <<queue, watched, polling>>,
             \A r \in Requests : phase[r] = "queued" <=> phase'[r] = "queued"
      PROVE  InLine'
  <2>1. \A k \in QueueKeys : \A i \in DOMAIN queue'[k] : phase'[queue'[k][i]] = "queued"
    <3>1. \A k \in QueueKeys : \A i \in DOMAIN queue[k] : queue[k][i] \in Requests
      BY DEF RateTyped
    <3> QED BY <1>1, <3>1 DEF InLine
  <2> QED BY <1>1, <2>1 DEF InLine
<1>2. ASSUME NEW batch \in SUBSET Requests, NEW p \in {"client", "preview"},
             Begin(batch, p)
      PROVE  InLine'
  BY <1>1, <1>2 DEF Begin, Answered
<1>3. ASSUME NEW r \in Requests, Consume(r)
      PROVE  InLine'
  <2>1. /\ phase[r] # "queued" /\ phase'[r] # "queued"
        /\ \A s \in Requests : s # r => phase'[s] = phase[s]
        /\ UNCHANGED <<queue, watched, polling>>
    BY <1>3 DEF Consume, Consuming, RateTyped
  <2>2. \A s \in Requests : phase[s] = "queued" <=> phase'[s] = "queued"
    BY <2>1
  <2> QED BY <1>1, <2>1, <2>2
<1>4. ASSUME NEW r \in Requests, Pass(r) \/ Lookup(r)
      PROVE  InLine'
  <2>1. /\ phase[r] # "queued" /\ phase'[r] # "queued"
        /\ \A s \in Requests : s # r => phase'[s] = phase[s]
        /\ UNCHANGED <<queue, watched, polling>>
    BY <1>4 DEF Pass, Lookup, Consuming, RateTyped
  <2>2. \A s \in Requests : phase[s] = "queued" <=> phase'[s] = "queued"
    BY <2>1
  <2> QED BY <1>1, <2>1, <2>2
<1>5. ASSUME NEW r \in Requests, Preview(r)
      PROVE  InLine'
  <2>1. phase[r] = "preview" /\ \A s \in Requests : s # r => phase'[s] = phase[s]
    BY <1>5 DEF Preview, Enqueue, RateTyped
  <2>2. CASE UNCHANGED <<queue, watched, polling>> /\ phase'[r] # "queued"
    BY <1>1, <2>1, <2>2
  <2>3. ASSUME todo[r] # <<>>, Enqueue(r, Head(todo[r]))
        PROVE  InLine'
    <3>0. PICK b \in Buckets : b = Head(todo[r])
      BY <2>3, HeadAndTail DEF RateTyped
    <3> DEFINE k == KeyOf[b]
               n == Len(queue[k])
    <3>1. k \in QueueKeys
      BY DEF QueueKeys
    <3>2. /\ queue' = [queue EXCEPT ![k] = Append(queue[k], r)]
          /\ watched' = [watched EXCEPT ![k] = IF watched[k] = NoBucket THEN b
                                               ELSE watched[k]]
          /\ polling' = TRUE /\ phase'[r] = "queued"
      BY <2>3, <3>0 DEF Enqueue, RateTyped
    <3>3. /\ \A x \in QueueKeys : x # k => queue'[x] = queue[x]
          /\ queue'[k] = Append(queue[k], r)
          /\ n \in Nat /\ DOMAIN queue'[k] = 1..n + 1
          /\ \A i \in 1..n : queue'[k][i] = queue[k][i]
          /\ queue'[k][n + 1] = r
          /\ DOMAIN queue[k] = 1..n
      BY <3>1, <3>2 DEF RateTyped
    <3>4. \A x \in QueueKeys : \A i \in DOMAIN queue[x] :
             queue[x][i] \in Requests /\ phase[queue[x][i]] = "queued"
             /\ queue[x][i] # r /\ phase'[queue[x][i]] = "queued"
      BY <2>1 DEF RateTyped, InLine
    <3>5. ASSUME NEW x \in QueueKeys, NEW i \in DOMAIN queue'[x]
          PROVE  \/ i \in DOMAIN queue[x] /\ queue'[x][i] = queue[x][i]
                 \/ x = k /\ i = n + 1 /\ queue'[x][i] = r
      <4>1. CASE x # k
        BY <3>3, <3>5, <4>1
      <4>2. CASE x = k
        <5>1. i \in 1..n + 1
          BY <3>3, <3>5, <4>2
        <5>2. i \in 1..n \/ i = n + 1
          BY <3>3, <5>1
        <5> QED BY <3>3, <4>2, <5>2
      <4> QED BY <4>1, <4>2
    <3>6. \A x \in QueueKeys : \A i \in DOMAIN queue'[x] : phase'[queue'[x][i]] = "queued"
      BY <3>2, <3>4, <3>5
    <3>7. ASSUME NEW s \in Requests, phase'[s] = "queued"
          PROVE  \E x \in QueueKeys : s \in Range(queue'[x])
      <4>1. CASE s = r
        <5>1. r \in Range(queue'[k])
          BY <3>3 DEF Range
        <5> QED BY <3>1, <4>1, <5>1
      <4>2. CASE s # r
        <5>1. PICK x \in QueueKeys : s \in Range(queue[x])
          BY <2>1, <3>7, <4>2 DEF InLine
        <5>2. PICK i \in DOMAIN queue[x] : queue[x][i] = s
          BY <5>1 DEF Range
        <5>3. i \in DOMAIN queue'[x] /\ queue'[x][i] = s
          <6>1. CASE x # k
            BY <3>3, <5>2, <6>1
          <6>2. CASE x = k
            <7>1. i \in 1..n
              BY <3>3, <5>2, <6>2
            <7>2. i \in 1..n + 1
              BY <3>3, <7>1
            <7> QED BY <3>3, <5>2, <6>2, <7>1, <7>2
          <6> QED BY <6>1, <6>2
        <5> QED BY <5>3 DEF Range
      <4> QED BY <4>1, <4>2
    <3>8. \A x, y \in QueueKeys : \A i \in DOMAIN queue'[x], j \in DOMAIN queue'[y] :
             queue'[x][i] = queue'[y][j] => x = y /\ i = j
      BY <3>4, <3>5 DEF InLine
    <3>9. \A x \in QueueKeys : /\ queue'[x] # <<>> => watched'[x] # NoBucket
                               /\ watched'[x] # NoBucket => KeyOf[watched'[x]] = x
      <4>1. b # NoBucket
        BY RateAssumption
      <4>2. ASSUME NEW x \in QueueKeys
            PROVE  \/ x # k /\ queue'[x] = queue[x] /\ watched'[x] = watched[x]
                   \/ x = k /\ watched'[x] = b
                   \/ x = k /\ watched'[x] = watched[x] /\ watched[x] # NoBucket
        BY <3>1, <3>2, <3>3 DEF RateTyped
      <4> QED BY <4>1, <4>2 DEF InLine
    <3> QED BY <3>2, <3>6, <3>7, <3>8, <3>9 DEF InLine
  <2> QED BY <1>5, <2>1, <2>2, <2>3 DEF Preview, RateTyped
<1>6. CASE Poll
  <2> DEFINE I(k) == Timely(k)
             n(k) == Cardinality(Timely(k))
             g(k) == Len(Resolved(k))
             pos(k, j) == Place(Timely(k), j)
  <2>1. \A k \in QueueKeys :
           /\ g(k) \in Nat /\ n(k) \in Nat /\ g(k) <= n(k)
           /\ Kept(k) \in Seq(Requests) /\ Len(Kept(k)) = n(k) - g(k)
           /\ \A j \in 1..n(k) : pos(k, j) \in I(k)
           /\ \A j, l \in 1..n(k) : pos(k, j) = pos(k, l) => j = l
           /\ \A j \in 1..g(k) : Resolved(k)[j] = queue[k][pos(k, j)]
           /\ \A j \in 1..n(k) - g(k) : Kept(k)[j] = queue[k][pos(k, g(k) + j)]
           /\ \A i \in I(k) : queue[k][i] \in Range(Resolved(k))
                              \/ queue[k][i] \in Range(Kept(k))
           /\ DOMAIN Resolved(k) = 1..g(k)
           /\ queue[k] = <<>> => Kept(k) = <<>>
    BY PollSplits
  <2>2. /\ \A k \in QueueKeys : queue'[k] = Kept(k)
        /\ \A k \in QueueKeys : watched'[k] = IF Kept(k) = <<>> THEN NoBucket
                                              ELSE watched[k]
        /\ \A r \in Requests : phase'[r] = IF r \in Freed THEN "rest"
                                           ELSE IF r \in Rejected THEN "refused"
                                           ELSE phase[r]
        /\ polling' = StillWaiting(queue')
    BY <1>6 DEF Poll
  <2>3. \A k \in QueueKeys : \A i \in I(k) : i \in DOMAIN queue[k] /\ ~Late(queue[k][i])
    BY DEF Timely
  <2>4. ASSUME NEW k \in QueueKeys, NEW j \in DOMAIN Kept(k)
        PROVE  /\ g(k) + j \in 1..n(k) /\ ~(g(k) + j \in 1..g(k)) /\ j \in Nat
               /\ pos(k, g(k) + j) \in I(k)
               /\ Kept(k)[j] = queue[k][pos(k, g(k) + j)]
    <3>1. j \in 1..n(k) - g(k)
      BY <2>1
    <3>2. g(k) + j \in 1..n(k) /\ ~(g(k) + j \in 1..g(k)) /\ j \in Nat
      BY <2>1, <3>1
    <3> QED BY <2>1, <3>1, <3>2
  <2>5. ASSUME NEW k \in QueueKeys, NEW j \in DOMAIN Kept(k)
        PROVE  phase'[Kept(k)[j]] = "queued"
    <3> DEFINE r == Kept(k)[j]
               i == pos(k, g(k) + j)
    <3>1. r = queue[k][i] /\ i \in DOMAIN queue[k] /\ ~Late(r)
      BY <2>3, <2>4
    <3>2. r \in Requests /\ phase[r] = "queued"
      BY <3>1 DEF InLine, RateTyped
    <3>3. r \notin Rejected
      BY <3>1 DEF Rejected
    <3>4. r \notin Freed
      <4>1. SUFFICES ASSUME NEW l \in QueueKeys, r \in Range(Resolved(l))
                     PROVE  FALSE
        BY DEF Freed
      <4>2. PICK m \in 1..g(l) : Resolved(l)[m] = r
        BY <2>1, <4>1 DEF Range
      <4>3. m \in 1..n(l)
        BY <2>1, <4>2
      <4>4. r = queue[l][pos(l, m)] /\ pos(l, m) \in DOMAIN queue[l]
        BY <2>1, <2>3, <4>2, <4>3
      <4>5. l = k /\ pos(l, m) = i
        <5> HIDE DEF pos
        <5>1. queue[k][i] = queue[l][pos(l, m)]
          BY <3>1, <4>4
        <5> QED BY <3>1, <4>4, <5>1 DEF InLine
      <4>6. m = g(k) + j
        BY <2>1, <2>4, <4>3, <4>5
      <4> QED BY <2>4, <4>2, <4>5, <4>6
    <3> QED BY <2>2, <3>2, <3>3, <3>4
  <2>6. ASSUME NEW r \in Requests, phase'[r] = "queued"
        PROVE  polling' /\ \E k \in QueueKeys : r \in Range(queue'[k])
    <3>1. phase[r] = "queued" /\ r \notin Freed /\ r \notin Rejected
      BY <2>2, <2>6
    <3>2. PICK k \in QueueKeys : r \in Range(queue[k])
      BY <3>1 DEF InLine
    <3>3. PICK i \in DOMAIN queue[k] : queue[k][i] = r
      BY <3>2 DEF Range
    <3>4. i \in I(k)
      BY <3>1, <3>3 DEF Rejected, Timely
    <3>5. r \in Range(Kept(k))
      BY <2>1, <3>1, <3>3, <3>4 DEF Freed
    <3>6. Kept(k) # <<>>
      BY <3>5 DEF Range
    <3> QED BY <2>2, <3>5, <3>6 DEF StillWaiting
  <2>7. ASSUME NEW k \in QueueKeys, NEW l \in QueueKeys,
               NEW i \in DOMAIN Kept(k), NEW j \in DOMAIN Kept(l),
               Kept(k)[i] = Kept(l)[j]
        PROVE  k = l /\ i = j
    <3>1. /\ queue[k][pos(k, g(k) + i)] = queue[l][pos(l, g(l) + j)]
          /\ pos(k, g(k) + i) \in DOMAIN queue[k]
          /\ pos(l, g(l) + j) \in DOMAIN queue[l]
      BY <2>3, <2>4, <2>7
    <3>2. k = l /\ pos(k, g(k) + i) = pos(l, g(l) + j)
      BY <3>1 DEF InLine
    <3>3. g(k) + i = g(k) + j
      BY <2>1, <2>4, <3>2
    <3> QED BY <2>1, <2>4, <3>2, <3>3
  <2>8. \A k \in QueueKeys : /\ queue'[k] # <<>> => watched'[k] # NoBucket
                             /\ watched'[k] # NoBucket => KeyOf[watched'[k]] = k
    BY <2>1, <2>2 DEF InLine
  <2> HIDE DEF I, n, g, pos
  <2>9. /\ \A k \in QueueKeys : \A i \in DOMAIN queue'[k] : phase'[queue'[k][i]] = "queued"
        /\ \A k, l \in QueueKeys : \A i \in DOMAIN queue'[k], j \in DOMAIN queue'[l] :
              queue'[k][i] = queue'[l][j] => k = l /\ i = j
    BY <2>2, <2>5, <2>7
  <2> QED BY <2>6, <2>8, <2>9 DEF InLine
<1>7. CASE Stop
  <2>1. \A k \in QueueKeys : queue'[k] = <<>> /\ DOMAIN queue'[k] = {}
                             /\ watched'[k] = NoBucket
    BY <1>7 DEF Stop
  <2>2. \A r \in Requests : phase'[r] # "queued"
    BY <1>7 DEF Stop
  <2> QED BY <2>1, <2>2 DEF InLine
<1>8. CASE RateTick \/ \E scope \in ResetScopes : AdminReset(scope)
  BY <1>1, <1>8 DEF RateTick, AdminReset
<1> QED BY <1>2, <1>3, <1>4, <1>5, <1>6, <1>7, <1>8 DEF RateNext

----------------------------------------------------------------------------
(* The theorems.                                                           *)

\* No window has a timestamp and nobody waits.
LEMMA RateStarts == RateInit => RateInv
<1> SUFFICES ASSUME RateInit PROVE RateInv
  OBVIOUS
<1>1. RateTyped
  <2>1. /\ "idle" \in Phases /\ 0 \in 0..MaxWait
        /\ <<>> \in Seq(Buckets) /\ <<>> \in Seq(Requests) /\ Len(<<>>) <= MaxQueue
    BY RateAssumption DEF Phases
  <2>2. \A k \in QueueKeys : queue[k] = <<>>
    BY DEF RateInit
  <2> QED BY <2>1, <2>2 DEF RateInit, RateTyped
<1>2. Tallied
  <2>1. \A b \in Buckets : Limit[b] \in Nat /\ Window[b] \in 0..Window[b]
    BY RateAssumption
  <2> QED BY <2>1 DEF RateInit, Tallied, Count
<1>3. Accounted
  BY DEF RateInit, Accounted
<1>4. InLine
  <2>1. \A k \in QueueKeys : queue[k] = <<>> /\ DOMAIN queue[k] = {}
                             /\ watched[k] = NoBucket
    BY DEF RateInit
  <2>2. \A r \in Requests : phase[r] # "queued"
    BY DEF RateInit
  <2> QED BY <2>1, <2>2 DEF InLine
<1> QED BY <1>1, <1>2, <1>3, <1>4 DEF RateInv

\* The inductive invariant.
THEOREM RateInvariance == RateSpec => []RateInv
<1>1. RateInit => RateInv
  BY RateStarts
<1>2. RateInv /\ [RateNext]_rateVars => RateInv'
  <2> SUFFICES ASSUME RateInv, [RateNext]_rateVars
               PROVE  RateInv'
    OBVIOUS
  <2>1. CASE RateNext
    BY <2>1, TypedKept, TalliedKept, AccountedKept, InLineKept DEF RateInv
  <2>2. CASE UNCHANGED rateVars
    <3>1. RateTyped' /\ Tallied'
      BY <2>2 DEF RateInv, RateTyped, Tallied, Count, rateVars
    <3>2. Accounted'
      BY <2>2 DEF RateInv, Accounted, Owed, AllPaid, Counted, rateVars
    <3>3. InLine'
      BY <2>2 DEF RateInv, InLine, rateVars
    <3> QED BY <3>1, <3>2, <3>3 DEF RateInv
  <2> QED BY <2>1, <2>2
<1> QED BY <1>1, <1>2, PTL DEF RateSpec

\* The state of the limiter and of its queues has its types.
LEMMA RateInvTypes == RateInv => RateTypeOK
<1> SUFFICES ASSUME RateInv PROVE RateTypeOK
  OBVIOUS
<1>1. ASSUME NEW b \in Buckets
      PROVE  used[b] \in [0..Window[b] -> 0..Limit[b]]
  <2>1. /\ used[b] \in [0..Window[b] -> Nat]
        /\ Window[b] \in 0..Window[b] /\ Limit[b] \in Nat
        /\ \A a \in 0..Window[b] : a <= Window[b] => used[b][a] <= used[b][Window[b]]
        /\ used[b][Window[b]] <= Limit[b]
    BY RateAssumption DEF RateInv, Tallied, Count
  <2>2. \A a \in 0..Window[b] : used[b][a] \in 0..Limit[b]
    <3>1. SUFFICES ASSUME NEW a \in 0..Window[b]
                   PROVE  used[b][a] \in 0..Limit[b]
      OBVIOUS
    <3>2. used[b][a] <= used[b][Window[b]]
      BY <2>1
    <3> QED BY <2>1, <3>2
  <2> QED BY <2>1, <2>2
<1> QED BY <1>1 DEF RateInv, RateTyped, Tallied, RateTypeOK

THEOREM RateTypeCorrect == RateSpec => []RateTypeOK
BY RateInvariance, RateInvTypes, PTL

\* No window ever holds more timestamps than its limit.
THEOREM AlwaysWithinLimit == RateSpec => []WithinLimit
<1>1. RateInv => WithinLimit
  BY DEF RateInv, Tallied, WithinLimit
<1> QED BY <1>1, RateInvariance, PTL

\* Whoever waits stands in one queue, once, and the timer is set.
THEOREM NobodyEverForgotten == RateSpec => []NobodyForgotten
<1>1. ASSUME RateInv, NEW r \in Requests, phase[r] = "queued"
      PROVE  /\ polling
             /\ Cardinality({x \in QueueKeys \X (1..MaxQueue) :
                     x[2] <= Len(queue[x[1]]) /\ queue[x[1]][x[2]] = r}) = 1
  <2> DEFINE P == {x \in QueueKeys \X (1..MaxQueue) :
                     x[2] <= Len(queue[x[1]]) /\ queue[x[1]][x[2]] = r}
  <2>1. polling /\ \E k \in QueueKeys : r \in Range(queue[k])
    BY <1>1 DEF RateInv, InLine
  <2>2. PICK k \in QueueKeys : r \in Range(queue[k])
    BY <2>1
  <2>3. PICK i \in DOMAIN queue[k] : queue[k][i] = r
    BY <2>2 DEF Range
  <2>4. \A l \in QueueKeys : /\ DOMAIN queue[l] = 1..Len(queue[l])
                             /\ Len(queue[l]) \in Nat /\ Len(queue[l]) <= MaxQueue
    BY <1>1 DEF RateInv, RateTyped
  <2>5. i \in 1..MaxQueue /\ i <= Len(queue[k])
    BY <2>3, <2>4, RateAssumption
  <2>6. <<k, i>> \in P
    BY <2>3, <2>5
  <2>7. ASSUME NEW x \in P
        PROVE  x = <<k, i>>
    <3>1. /\ x[1] \in QueueKeys /\ x[2] \in 1..MaxQueue /\ x = <<x[1], x[2]>>
          /\ x[2] <= Len(queue[x[1]]) /\ queue[x[1]][x[2]] = r
      OBVIOUS
    <3>2. x[2] \in DOMAIN queue[x[1]]
      BY <2>4, <3>1
    <3>3. x[1] = k /\ x[2] = i
      BY <1>1, <2>3, <3>1, <3>2 DEF RateInv, InLine
    <3> QED BY <3>1, <3>3
  <2>8. P = {<<k, i>>}
    BY <2>6, <2>7
  <2> QED BY <2>1, <2>8, FS_Singleton
<1>2. RateInv => NobodyForgotten
  BY <1>1, RateInvTypes DEF NobodyForgotten
<1> QED BY <1>2, RateInvariance, PTL

\* A request that is let through was counted in each bucket that applies to it,
\* or, of the key it waited for, in one of the windows, whatever the windows.
THEOREM AlwaysCountedEverywhere == RateSpec => []CountedEverywhere
<1>1. RateInv => CountedEverywhere
  <2>1. ASSUME RateInv, NEW r \in Requests, phase[r] = "hit", NEW b \in Range(ClientChecks[r])
        PROVE  b \in charged[r]
    <3>1. waited[r] = {} /\ AllPaid(r, ClientChecks[r])
      BY <2>1 DEF RateInv, Accounted
    <3> QED BY <3>1 DEF AllPaid, Counted
  <2>2. ASSUME RateInv, NEW r \in Requests, phase[r] = "served"
        PROVE  \A b \in Range(AllChecks(r)) : Counted(r, b)
    BY <2>2 DEF RateInv, Accounted, AllPaid
  <2> QED BY <2>1, <2>2 DEF CountedEverywhere
<1> QED BY <1>1, RateInvariance, PTL

----------------------------------------------------------------------------
(* The configuration.  Every check of validateConfig that concerns a part  *)
(* made once looks at sections a reload takes together, so a mixture of    *)
(* two sound configurations is sound (AppliedFit).  That a reload leaves   *)
(* what a restart would needs three more things to hold at all times: the  *)
(* lists of servers are lists (Lists), a reload applies the file it read   *)
(* (ReadFromFile), and the gateway section already holds what the          *)
(* environment says of it (EnvironmentKept), so that comparing the file's  *)
(* with it is comparing with what a restart would run.                     *)

\* The sections every configuration has, and the settings of observability.
Defaulted ==
    {"gateway", "router", "cache", "observability", "metrics", "servers", "identity",
     "governance"}
Settings == {"retention_days", "log_args", "log_responses", "redact_fields"}

Shaped(c) == Defaulted \subseteq DOMAIN c /\ Settings \subseteq DOMAIN c.observability

\* What every step of a reload keeps sound.
Fit(c) == Shaped(c) /\ SoundSections(c)

\* c and d say the same of k.
Agree(c, d, k) == (Given(c, k) <=> Given(d, k)) /\ (Given(c, k) => c[k] = d[k])

\* What is in {...s, ...r}, and where it comes from.
LEMMA SpreadParts ==
    ASSUME NEW r, NEW s
    PROVE  /\ DOMAIN (r ++ s) = DOMAIN r \cup DOMAIN s
           /\ \A k \in DOMAIN r : (r ++ s)[k] = r[k]
           /\ \A k \in DOMAIN s : k \notin DOMAIN r => (r ++ s)[k] = s[k]
BY DEF ++

\* Taking a section changes that section and no other.
LEMMA TakeParts ==
    ASSUME NEW a, NEW b, NEW k
    PROVE  /\ DOMAIN Take(a, b, k) \ {k} = DOMAIN a \ {k}
           /\ Given(Take(a, b, k), k) <=> Given(b, k)
           /\ Given(b, k) => Take(a, b, k)[k] = b[k]
           /\ \A j \in DOMAIN a : j # k => Take(a, b, k)[j] = a[j]
<1>1. CASE Given(b, k)
  <2> DEFINE one == [x \in {k} |-> b[k]]
  <2>1. Take(a, b, k) = one ++ a /\ DOMAIN one = {k} /\ one[k] = b[k]
    BY <1>1 DEF Take
  <2>2. /\ DOMAIN (one ++ a) = DOMAIN one \cup DOMAIN a
        /\ \A x \in DOMAIN one : (one ++ a)[x] = one[x]
        /\ \A x \in DOMAIN a : x \notin DOMAIN one => (one ++ a)[x] = a[x]
    BY SpreadParts
  <2> HIDE DEF one
  <2> QED BY <1>1, <2>1, <2>2 DEF Given
<1>2. CASE ~Given(b, k)
  BY <1>2 DEF Take, Without, Given
<1> QED BY <1>1, <1>2

\* What a file's sections become, whatever the other sections say.
LEMMA MergedParts ==
    ASSUME NEW raw, NEW servers
    PROVE  /\ Defaulted \subseteq DOMAIN Merged(raw, servers)
           /\ \A k \in Defaulted : Merged(raw, servers)[k] = Filled(raw, servers)[k]
           /\ \A k \in {"auth", "acl", "rate_limits", "admin", "guardrails"} :
                 Agree(Merged(raw, servers), raw, k)
<1> DEFINE head == Filled(raw, servers)
           own  == Only(raw, {"auth", "acl", "rate_limits", "admin", "guardrails"})
           conn == IF Given(raw, "connect") THEN [connect |-> Connect(raw.connect)] ELSE <<>>
<1>1. Merged(raw, servers) = (head ++ own) ++ conn
  BY DEF Merged
<1>2. DOMAIN head = Defaulted
  BY DEF Filled, Defaulted
<1>3. /\ DOMAIN own = {"auth", "acl", "rate_limits", "admin", "guardrails"} \cap DOMAIN raw
      /\ \A k \in DOMAIN own : own[k] = raw[k]
  BY DEF Only
<1>4. DOMAIN conn \subseteq {"connect"}
  <2>1. DOMAIN <<>> = {}
    OBVIOUS
  <2> QED BY <2>1
<1> HIDE DEF head, own, conn
<1>5. /\ DOMAIN (head ++ own) = DOMAIN head \cup DOMAIN own
      /\ \A k \in DOMAIN head : (head ++ own)[k] = head[k]
      /\ \A k \in DOMAIN own : k \notin DOMAIN head => (head ++ own)[k] = own[k]
  BY SpreadParts
<1>6. /\ DOMAIN Merged(raw, servers) = DOMAIN (head ++ own) \cup DOMAIN conn
      /\ \A k \in DOMAIN (head ++ own) : Merged(raw, servers)[k] = (head ++ own)[k]
  <2> DEFINE both == head ++ own
  <2>1. /\ DOMAIN (both ++ conn) = DOMAIN both \cup DOMAIN conn
        /\ \A k \in DOMAIN both : (both ++ conn)[k] = both[k]
    BY SpreadParts
  <2> QED BY <1>1, <2>1
<1>7. ASSUME NEW k \in {"auth", "acl", "rate_limits", "admin", "guardrails"}
      PROVE  Agree(Merged(raw, servers), raw, k)
  <2>1. k \notin DOMAIN head /\ k \notin DOMAIN conn
    BY <1>2, <1>4 DEF Defaulted
  <2>2. k \in DOMAIN Merged(raw, servers) <=> k \in DOMAIN raw
    BY <1>3, <1>5, <1>6, <2>1
  <2>3. k \in DOMAIN raw => Merged(raw, servers)[k] = raw[k]
    BY <1>3, <1>5, <1>6, <2>1
  <2> QED BY <2>2, <2>3 DEF Agree, Given
<1>8. ASSUME NEW k \in Defaulted
      PROVE  k \in DOMAIN Merged(raw, servers) /\ Merged(raw, servers)[k] = head[k]
  BY <1>2, <1>5, <1>6
<1> QED BY <1>7, <1>8 DEF head

\* mergeWithDefaults gives every section, and every setting of observability.
LEMMA MergedShaped ==
    ASSUME NEW raw, NEW servers
    PROVE  Shaped(Merged(raw, servers))
<1>1. Filled(raw, servers).observability = Section(raw, "observability") ++ Default.observability
  BY DEF Filled
<1>2. Settings \subseteq DOMAIN Default.observability
  BY DEF Settings, Default
<1>3. "observability" \in Defaulted
  BY DEF Defaulted
<1>4. Merged(raw, servers).observability = Section(raw, "observability") ++ Default.observability
  BY <1>1, <1>3, MergedParts
<1> DEFINE given == Section(raw, "observability")
           usual == Default.observability
<1>5. DOMAIN (given ++ usual) = DOMAIN given \cup DOMAIN usual
  BY SpreadParts
<1>6. Settings \subseteq DOMAIN Merged(raw, servers).observability
  BY <1>2, <1>4, <1>5
<1> QED BY <1>6, MergedParts DEF Shaped

\* What a reload makes of the sections: s is cfg with what it takes from new.
TakenFrom(s, cfg, new) ==
    /\ Defaulted \subseteq DOMAIN s
    /\ \A k \in Defaulted \ {"observability", "governance"} : s[k] = cfg[k]
    /\ \A k \in {"auth", "admin"} : Section(s, k) = Section(cfg, k)
    /\ \A k \in {"acl", "guardrails", "rate_limits"} :
          /\ Given(s, k) <=> Given(new, k)
          /\ Given(new, k) => s[k] = new[k]
    /\ s.governance = IF "governance" \in Pinned(cfg, new)
                      THEN cfg.governance ELSE new.governance
    /\ s.observability = Logging(cfg.observability, new.observability)

LEMMA SectionsParts ==
    ASSUME NEW cfg, NEW new, Shaped(cfg), Shaped(new)
    PROVE  TakenFrom(Sections(cfg, new), cfg, new)
<1> DEFINE a1 == Take(cfg, new, "acl")
           a2 == Take(a1, new, "guardrails")
           hot == Take(a2, new, "rate_limits")
           gov == IF "governance" \in Pinned(cfg, new) THEN hot ELSE Take(hot, new, "governance")
           obs == Logging(cfg.observability, new.observability)
           R3 == {"acl", "guardrails", "rate_limits"}
<1>1. /\ DOMAIN a1 \ {"acl"} = DOMAIN cfg \ {"acl"}
      /\ Given(a1, "acl") <=> Given(new, "acl")
      /\ Given(new, "acl") => a1["acl"] = new["acl"]
      /\ \A j \in DOMAIN cfg : j # "acl" => a1[j] = cfg[j]
  BY TakeParts
<1>2. /\ DOMAIN a2 \ {"guardrails"} = DOMAIN a1 \ {"guardrails"}
      /\ Given(a2, "guardrails") <=> Given(new, "guardrails")
      /\ Given(new, "guardrails") => a2["guardrails"] = new["guardrails"]
      /\ \A j \in DOMAIN a1 : j # "guardrails" => a2[j] = a1[j]
  <2> HIDE DEF a1
  <2> QED BY TakeParts
<1>3. /\ DOMAIN hot \ {"rate_limits"} = DOMAIN a2 \ {"rate_limits"}
      /\ Given(hot, "rate_limits") <=> Given(new, "rate_limits")
      /\ Given(new, "rate_limits") => hot["rate_limits"] = new["rate_limits"]
      /\ \A j \in DOMAIN a2 : j # "rate_limits" => hot[j] = a2[j]
  <2> HIDE DEF a2
  <2> QED BY TakeParts
<1>4. /\ DOMAIN gov \ {"governance"} = DOMAIN hot \ {"governance"}
      /\ \A j \in DOMAIN hot : j # "governance" => gov[j] = hot[j]
      /\ "governance" \notin Pinned(cfg, new) =>
           "governance" \in DOMAIN gov /\ gov["governance"] = new["governance"]
      /\ "governance" \in Pinned(cfg, new) => gov = hot
  <2> HIDE DEF hot
  <2>1. Given(new, "governance")
    BY DEF Shaped, Defaulted, Given
  <2> QED BY <2>1, TakeParts DEF Given
<1>5. Sections(cfg, new) = [gov EXCEPT !["observability"] =
          Logging(gov.observability, new.observability)]
  <2> HIDE DEF gov
  <2> QED BY DEF Sections, gov, hot, a1, a2
<1> HIDE DEF a1, a2, hot, gov
<1>6. Defaulted \subseteq DOMAIN cfg
  BY DEF Shaped
<1>7. /\ DOMAIN hot \ R3 = DOMAIN cfg \ R3
      /\ \A j \in DOMAIN cfg \ R3 : hot[j] = cfg[j]
      /\ \A k \in R3 : k \in DOMAIN hot <=> k \in DOMAIN new
      /\ \A k \in R3 : k \in DOMAIN new => hot[k] = new[k]
  BY <1>1, <1>2, <1>3 DEF Given
<1>8. /\ DOMAIN gov \ R3 = DOMAIN cfg \ R3
      /\ \A j \in DOMAIN cfg \ R3 : j # "governance" => gov[j] = cfg[j]
      /\ \A k \in R3 : k \in DOMAIN gov <=> k \in DOMAIN new
      /\ \A k \in R3 : k \in DOMAIN new => gov[k] = new[k]
      /\ gov["governance"] = IF "governance" \in Pinned(cfg, new)
                             THEN cfg["governance"] ELSE new["governance"]
  <2>1. "governance" \in DOMAIN cfg \ R3
    BY <1>6 DEF Defaulted
  <2>2. "governance" \in DOMAIN hot
    BY <1>7, <2>1
  <2> QED BY <1>4, <1>7, <2>1, <2>2
<1>9. /\ DOMAIN Sections(cfg, new) = DOMAIN gov
      /\ \A k \in DOMAIN gov : k # "observability" => Sections(cfg, new)[k] = gov[k]
      /\ Sections(cfg, new).observability = obs
  <2>1. "observability" \in DOMAIN cfg \ R3 /\ "observability" # "governance"
    BY <1>6 DEF Defaulted
  <2>2. "observability" \in DOMAIN gov /\ gov.observability = cfg.observability
    BY <1>8, <2>1
  <2> QED BY <1>5, <2>2
<1>10. \A k \in Defaulted : k \in DOMAIN gov /\ k \notin R3
  BY <1>6, <1>8 DEF Defaulted
<1>11. \A k \in {"auth", "admin"} : Section(Sections(cfg, new), k) = Section(cfg, k)
  <2>1. \A k \in {"auth", "admin"} : k \notin R3 /\ k # "governance" /\ k # "observability"
    OBVIOUS
  <2> QED BY <1>8, <1>9, <2>1 DEF Section, Or, Given
<1>12. \A k \in R3 : k # "governance" /\ k # "observability"
  OBVIOUS
<1>13. \A k \in Defaulted \ {"observability", "governance"} : Sections(cfg, new)[k] = cfg[k]
  BY <1>6, <1>8, <1>9, <1>10
<1>14. Sections(cfg, new).governance = IF "governance" \in Pinned(cfg, new)
                                     THEN cfg.governance ELSE new.governance
  BY <1>8, <1>9, <1>10 DEF Defaulted
<1> QED BY <1>8, <1>9, <1>10, <1>11, <1>12, <1>13, <1>14 DEF Given, TakenFrom

\* The last turn of a reload changes the servers beside the sections.
LEMMA AppliedParts ==
    ASSUME NEW cfg, NEW new, Shaped(cfg), Shaped(new)
    PROVE  /\ DOMAIN Applied(cfg, new) = DOMAIN Sections(cfg, new)
           /\ \A k \in DOMAIN Sections(cfg, new) :
                 k # "servers" => Applied(cfg, new)[k] = Sections(cfg, new)[k]
BY DEF Applied

\* A configuration put together from two sound ones is sound.
LEMMA AppliedFit ==
    ASSUME NEW cfg, NEW new, Fit(cfg), Fit(new)
    PROVE  Fit(Applied(cfg, new))
<1> DEFINE s == Sections(cfg, new)
           c == Applied(cfg, new)
<1>0. Shaped(cfg) /\ Shaped(new)
  BY DEF Fit
<1>1. TakenFrom(s, cfg, new)
  BY <1>0, SectionsParts
<1>2. /\ DOMAIN c = DOMAIN s
      /\ \A k \in DOMAIN s : k # "servers" => c[k] = s[k]
  BY <1>0, AppliedParts
<1> HIDE DEF s, c
<1>3. /\ \A k \in {"gateway", "router", "cache", "metrics", "identity"} : c[k] = cfg[k]
      /\ c.governance \in {cfg.governance, new.governance}
      /\ c.observability = s.observability
  BY <1>1, <1>2 DEF Defaulted, TakenFrom
<1>4. /\ \A k \in {"auth", "admin"} : Section(c, k) = Section(cfg, k)
      /\ \A k \in {"acl", "guardrails", "rate_limits"} : Section(c, k) = Section(new, k)
  BY <1>1, <1>2 DEF Section, Or, Given, TakenFrom
<1>5. /\ DOMAIN c.observability = DOMAIN cfg.observability
      /\ c.observability.retention_days = cfg.observability.retention_days
  BY <1>0, <1>1, <1>3 DEF Shaped, Settings, TakenFrom, Logging
<1>6. Shaped(c)
  BY <1>0, <1>1, <1>2, <1>5 DEF Shaped, Defaulted, TakenFrom
<1>7. ValidGovernance(c.governance)
  BY <1>3 DEF Fit, SoundSections
<1>8. SoundSections(c)
  BY <1>3, <1>4, <1>5, <1>7 DEF Fit, SoundSections
<1> QED BY <1>6, <1>8 DEF Fit, c

\* The environment.  What it leaves alone, variable by variable.

\* The gateway section, its variables put over it.
GatewayIn(gateway, e) ==
    LET at == FromEnv([port |-> "CONDUIT_PORT", host |-> "CONDUIT_HOST"], e) ++ gateway
    IN  IF DOMAIN TlsFromEnv(e) = {} THEN at
        ELSE [tls |-> TlsFromEnv(e)
                        ++ Or(at, "tls", [enabled |-> FALSE, cert_path |-> "", key_path |-> ""])]
             ++ at

\* The code's comparison of two settings, the other way round.
LEMMA AgreeIsNotDiffers ==
    ASSUME NEW c, NEW d, NEW k
    PROVE  Agree(c, d, k) <=> ~Differs(c, d, k)
BY DEF Agree, Differs, Given

\* A spread over s leaves what it does not name.
LEMMA SpreadAgrees ==
    ASSUME NEW r, NEW s, NEW k, k \notin DOMAIN r
    PROVE  Agree(r ++ s, s, k)
<1>1. /\ DOMAIN (r ++ s) = DOMAIN r \cup DOMAIN s
      /\ \A x \in DOMAIN s : x \notin DOMAIN r => (r ++ s)[x] = s[x]
  BY SpreadParts
<1> DEFINE t == r ++ s
<1> HIDE DEF t
<1>2. Agree(t, s, k)
  BY <1>1 DEF Agree, Given, t
<1> QED BY <1>2 DEF t

\* The settings the environment may give: they complete three sections.
LEMMA WithSettingsParts ==
    ASSUME NEW c, NEW e, Shaped(c)
    PROVE  /\ DOMAIN WithSettings(c, e) = DOMAIN c
           /\ \A k \in DOMAIN c \ {"gateway", "observability", "metrics"} :
                 WithSettings(c, e)[k] = c[k]
           /\ WithSettings(c, e).gateway =
                FromEnv([port |-> "CONDUIT_PORT", host |-> "CONDUIT_HOST"], e) ++ c.gateway
           /\ WithSettings(c, e).observability =
                FromEnv([db_path |-> "CONDUIT_DB_PATH", log_args |-> "CONDUIT_LOG_ARGS"], e)
                  ++ c.observability
BY DEF WithSettings, Shaped, Defaulted

\* The admin key is put in the admin section alone.
LEMMA WithAdminParts ==
    ASSUME NEW c, NEW e
    PROVE  \A k : k # "admin" => Agree(WithAdmin(c, e), c, k)
<1>1. CASE Given(e, "CONDUIT_ADMIN_KEY")
  <2> DEFINE own == [admin |-> [key |-> e.CONDUIT_ADMIN_KEY] ++ Section(c, "admin")]
  <2>1. WithAdmin(c, e) = own ++ c /\ DOMAIN own = {"admin"}
    BY <1>1 DEF WithAdmin
  <2> HIDE DEF own
  <2>2. \A k : k # "admin" => Agree(own ++ c, c, k)
    BY <2>1, SpreadAgrees
  <2> QED BY <2>1, <2>2
<1>2. CASE ~Given(e, "CONDUIT_ADMIN_KEY")
  BY <1>2 DEF WithAdmin, Agree
<1> QED BY <1>1, <1>2

\* The URL of Redis is put in the rate limits alone.
LEMMA WithRedisParts ==
    ASSUME NEW c, NEW e
    PROVE  /\ \A k : k # "rate_limits" => Agree(WithRedis(c, e), c, k)
           /\ ~Given(e, "CONDUIT_REDIS_URL") => WithRedis(c, e) = c
<1>1. CASE Given(e, "CONDUIT_REDIS_URL")
  <2> DEFINE own == [rate_limits |->
                       [redis_url |-> e.CONDUIT_REDIS_URL]
                       ++ Or(c, "rate_limits", [enabled |-> TRUE, backend |-> "redis"])]
  <2>1. WithRedis(c, e) = own ++ c /\ DOMAIN own = {"rate_limits"}
    BY <1>1 DEF WithRedis
  <2> HIDE DEF own
  <2>2. \A k : k # "rate_limits" => Agree(own ++ c, c, k)
    BY <2>1, SpreadAgrees
  <2> QED BY <1>1, <2>1, <2>2
<1>2. CASE ~Given(e, "CONDUIT_REDIS_URL")
  BY <1>2 DEF WithRedis, Agree
<1> QED BY <1>1, <1>2

\* The paths of the stores are put in two sections, each by its own variable.
LEMMA WithStoresParts ==
    ASSUME NEW c, NEW e
    PROVE  /\ DOMAIN WithStores(c, e) = DOMAIN c
           /\ \A k \in DOMAIN c \ {"identity", "governance"} : WithStores(c, e)[k] = c[k]
           /\ ~Given(e, "CONDUIT_GOVERNANCE_DB_PATH") /\ Given(c, "governance")
                => WithStores(c, e)["governance"] = c["governance"]
BY DEF WithStores, Given

\* The TLS settings are put in the gateway section alone.
LEMMA WithTlsParts ==
    ASSUME NEW c, NEW e, NEW own, own = TlsFromEnv(e)
    PROVE  /\ DOMAIN WithTls(c, e) = DOMAIN c
           /\ \A k \in DOMAIN c \ {"gateway"} : WithTls(c, e)[k] = c[k]
           /\ DOMAIN own = {} => WithTls(c, e) = c
           /\ DOMAIN own # {} /\ Given(c, "gateway") => WithTls(c, e)["gateway"] =
                 [tls |-> own ++ Or(c.gateway, "tls",
                                    [enabled |-> FALSE, cert_path |-> "", key_path |-> ""])]
                 ++ c.gateway
BY DEF WithTls, Given

\* What the environment makes of a configuration c.
OverriddenFrom(o, c, e) ==
    /\ Defaulted \subseteq DOMAIN o
    /\ \A k \in {"auth", "acl", "guardrails", "servers"} : Agree(o, c, k)
    /\ ~Given(e, "CONDUIT_REDIS_URL") => Agree(o, c, "rate_limits")
    /\ ~Given(e, "CONDUIT_GOVERNANCE_DB_PATH") => o.governance = c.governance
    /\ o.observability =
         FromEnv([db_path |-> "CONDUIT_DB_PATH", log_args |-> "CONDUIT_LOG_ARGS"], e)
           ++ c.observability
    /\ o.gateway = GatewayIn(c.gateway, e)

\* All of them together.
LEMMA OverriddenParts ==
    ASSUME NEW c, NEW e, Shaped(c)
    PROVE  OverriddenFrom(Overridden(c, e), c, e)
<1> DEFINE c1 == WithSettings(c, e)
           c2 == WithAdmin(c1, e)
           c3 == WithStores(c2, e)
           c4 == WithTls(c3, e)
           o  == WithRedis(c4, e)
           at == FromEnv([port |-> "CONDUIT_PORT", host |-> "CONDUIT_HOST"], e) ++ c.gateway
           logged == FromEnv([db_path |-> "CONDUIT_DB_PATH", log_args |-> "CONDUIT_LOG_ARGS"], e)
                       ++ c.observability
           own == TlsFromEnv(e)
           usual == [enabled |-> FALSE, cert_path |-> "", key_path |-> ""]
<1>0. Defaulted \subseteq DOMAIN c
  BY DEF Shaped
<1>1. /\ DOMAIN c1 = DOMAIN c
      /\ \A k \in DOMAIN c \ {"gateway", "observability", "metrics"} : c1[k] = c[k]
      /\ c1["gateway"] = at
      /\ c1["observability"] = logged
  BY WithSettingsParts
<1>2. \A k : k # "admin" => Agree(c2, c1, k)
  <2> HIDE DEF c1
  <2> QED BY WithAdminParts
<1>3. /\ DOMAIN c3 = DOMAIN c2
      /\ \A k \in DOMAIN c2 \ {"identity", "governance"} : c3[k] = c2[k]
      /\ ~Given(e, "CONDUIT_GOVERNANCE_DB_PATH") /\ Given(c2, "governance")
           => c3["governance"] = c2["governance"]
  <2> HIDE DEF c2
  <2> QED BY WithStoresParts
<1>4. /\ DOMAIN c4 = DOMAIN c3
      /\ \A k \in DOMAIN c3 \ {"gateway"} : c4[k] = c3[k]
      /\ DOMAIN own = {} => c4 = c3
      /\ DOMAIN own # {} /\ Given(c3, "gateway") => c4["gateway"] =
            [tls |-> own ++ Or(c3.gateway, "tls", usual)] ++ c3.gateway
  <2> HIDE DEF c3
  <2> QED BY WithTlsParts
<1>5. /\ \A k : k # "rate_limits" => Agree(o, c4, k)
      /\ ~Given(e, "CONDUIT_REDIS_URL") => o = c4
  <2> HIDE DEF c4
  <2> QED BY WithRedisParts
<1>6. o = Overridden(c, e)
  BY DEF Overridden
<1>7. GatewayIn(c.gateway, e) = IF DOMAIN own = {} THEN at
                                ELSE [tls |-> own ++ Or(at, "tls", usual)] ++ at
  BY DEF GatewayIn
<1> HIDE DEF c1, c2, c3, c4, o, at, logged, own, usual
<1>8. /\ Defaulted \subseteq DOMAIN c4
      /\ \A k : k # "admin" => (k \in DOMAIN c4 <=> k \in DOMAIN c)
  <2>1. \A k : k # "admin" => (k \in DOMAIN c2 <=> k \in DOMAIN c)
    BY <1>1, <1>2 DEF Agree, Given
  <2>2. \A k : k # "admin" => (k \in DOMAIN c4 <=> k \in DOMAIN c)
    BY <1>3, <1>4, <2>1
  <2> QED BY <1>0, <2>2 DEF Defaulted
<1>9. \A k \in Defaulted : k \in DOMAIN o /\ o[k] = c4[k]
  BY <1>5, <1>8 DEF Agree, Given, Defaulted
<1>10. \A k \in Defaulted : k \in DOMAIN c2 /\ c2[k] = c1[k] /\ k \in DOMAIN c3
  BY <1>0, <1>1, <1>2, <1>3 DEF Agree, Given, Defaulted
<1>11. c3["gateway"] = at /\ c4["observability"] = logged
  BY <1>1, <1>3, <1>4, <1>10 DEF Defaulted
<1>12. o.gateway = GatewayIn(c.gateway, e) /\ o.observability = logged
  <2>1. Given(c3, "gateway") /\ o.gateway = c4["gateway"] /\ o.observability = logged
    BY <1>9, <1>10, <1>11 DEF Defaulted, Given
  <2> QED BY <1>4, <1>7, <1>11, <2>1
<1>13. ~Given(e, "CONDUIT_GOVERNANCE_DB_PATH") => o.governance = c.governance
  BY <1>0, <1>1, <1>3, <1>4, <1>9, <1>10 DEF Defaulted, Given
<1>14. ASSUME NEW k, k \notin {"gateway", "observability", "metrics", "admin", "identity",
                              "governance"}
       PROVE  Agree(c4, c, k)
  BY <1>1, <1>2, <1>3, <1>4, <1>14 DEF Agree, Given
<1>15. \A k \in {"auth", "acl", "guardrails", "servers"} : Agree(o, c, k)
  <2>1. ASSUME NEW k \in {"auth", "acl", "guardrails", "servers"}
        PROVE  Agree(o, c, k)
    <3>1. Agree(c4, c, k) /\ Agree(o, c4, k)
      BY <1>5, <1>14
    <3> QED BY <3>1 DEF Agree, Given
  <2> QED BY <2>1
<1>16. ~Given(e, "CONDUIT_REDIS_URL") => Agree(o, c, "rate_limits")
  BY <1>5, <1>14
<1>17. Defaulted \subseteq DOMAIN o
  BY <1>9
<1>18. OverriddenFrom(o, c, e)
  BY <1>12, <1>13, <1>15, <1>16, <1>17 DEF OverriddenFrom, logged
<1> QED BY <1>6, <1>18

\* A configuration keeps its sections under the environment.
LEMMA OverriddenShaped ==
    ASSUME NEW c, NEW e, Shaped(c)
    PROVE  Shaped(Overridden(c, e))
<1> DEFINE own == FromEnv([db_path |-> "CONDUIT_DB_PATH", log_args |-> "CONDUIT_LOG_ARGS"], e)
           o == Overridden(c, e)
<1>1. Defaulted \subseteq DOMAIN o /\ o.observability = own ++ c.observability
  BY OverriddenParts DEF OverriddenFrom
<1>2. DOMAIN (own ++ c.observability) = DOMAIN own \cup DOMAIN c.observability
  BY SpreadParts
<1> HIDE DEF own, o
<1>3. Shaped(o)
  BY <1>1, <1>2 DEF Shaped
<1> QED BY <1>3 DEF o

\* What only a restart changes of the gateway section.
Fixed == {"port", "host", "tls"}

VarOf == [port |-> "CONDUIT_PORT", host |-> "CONDUIT_HOST"]

\* The gateway section under the environment, setting by setting.
LEMMA GatewayParts ==
    ASSUME NEW g, NEW e
    PROVE  /\ \A k \in {"port", "host"} :
                 /\ Given(GatewayIn(g, e), k) <=> Given(e, VarOf[k]) \/ Given(g, k)
                 /\ Given(e, VarOf[k]) => GatewayIn(g, e)[k] = e[VarOf[k]]
                 /\ ~Given(e, VarOf[k]) /\ Given(g, k) => GatewayIn(g, e)[k] = g[k]
           /\ DOMAIN TlsFromEnv(e) = {} => Agree(GatewayIn(g, e), g, "tls")
           /\ DOMAIN TlsFromEnv(e) # {} =>
                 /\ Given(GatewayIn(g, e), "tls")
                 /\ GatewayIn(g, e).tls =
                      TlsFromEnv(e)
                        ++ Or(g, "tls", [enabled |-> FALSE, cert_path |-> "", key_path |-> ""])
<1> DEFINE own == FromEnv(VarOf, e)
           at == own ++ g
           tls == TlsFromEnv(e)
           usual == [enabled |-> FALSE, cert_path |-> "", key_path |-> ""]
           new == [tls |-> tls ++ Or(at, "tls", usual)]
           both == new ++ at
           r == GatewayIn(g, e)
<1>1. r = IF DOMAIN tls = {} THEN at ELSE both
  BY DEF GatewayIn, VarOf
<1>2. /\ DOMAIN own = {k \in {"port", "host"} : Given(e, VarOf[k])}
      /\ \A k \in DOMAIN own : own[k] = e[VarOf[k]]
  BY DEF FromEnv, VarOf
<1> HIDE DEF own
<1>3. /\ DOMAIN at = DOMAIN own \cup DOMAIN g
      /\ \A k \in DOMAIN own : at[k] = own[k]
      /\ \A k \in DOMAIN g : k \notin DOMAIN own => at[k] = g[k]
  BY SpreadParts
<1> HIDE DEF at
<1>4. DOMAIN new = {"tls"} /\ new["tls"] = tls ++ Or(at, "tls", usual)
  OBVIOUS
<1> HIDE DEF new
<1>5. /\ DOMAIN both = DOMAIN new \cup DOMAIN at
      /\ \A k \in DOMAIN new : both[k] = new[k]
      /\ \A k \in DOMAIN at : k \notin DOMAIN new => both[k] = at[k]
  BY SpreadParts
<1> HIDE DEF both, r, tls, usual
<1>6. "tls" \notin DOMAIN own
  BY <1>2
<1>7. Or(at, "tls", usual) = Or(g, "tls", usual)
  BY <1>3, <1>6 DEF Or, Given
<1>8. \A k \in {"port", "host"} : (k \in DOMAIN r <=> k \in DOMAIN at)
                                /\ (k \in DOMAIN at => r[k] = at[k])
  BY <1>1, <1>4, <1>5
<1>9. \A k \in {"port", "host"} :
        /\ Given(r, k) <=> Given(e, VarOf[k]) \/ Given(g, k)
        /\ Given(e, VarOf[k]) => r[k] = e[VarOf[k]]
        /\ ~Given(e, VarOf[k]) /\ Given(g, k) => r[k] = g[k]
  BY <1>2, <1>3, <1>8 DEF Given
<1>10. DOMAIN tls = {} => Agree(r, g, "tls")
  BY <1>1, <1>3, <1>6 DEF Agree, Given
<1>11. DOMAIN tls # {} => Given(r, "tls") /\ r.tls = tls ++ Or(g, "tls", usual)
  BY <1>1, <1>4, <1>5, <1>7 DEF Given
<1> QED BY <1>9, <1>10, <1>11 DEF r, tls, usual

\* The same of the address: it is the environment's, or as it was.
LEMMA GatewayAddress ==
    ASSUME NEW g, NEW e, NEW k \in {"port", "host"}
    PROVE  /\ Given(e, VarOf[k]) =>
                Given(GatewayIn(g, e), k) /\ GatewayIn(g, e)[k] = e[VarOf[k]]
           /\ ~Given(e, VarOf[k]) => Agree(GatewayIn(g, e), g, k)
<1> DEFINE h == GatewayIn(g, e)
<1>1. /\ Given(h, k) <=> Given(e, VarOf[k]) \/ Given(g, k)
      /\ Given(e, VarOf[k]) => h[k] = e[VarOf[k]]
      /\ ~Given(e, VarOf[k]) /\ Given(g, k) => h[k] = g[k]
  BY GatewayParts
<1> HIDE DEF h
<1>2. /\ Given(e, VarOf[k]) => Given(h, k) /\ h[k] = e[VarOf[k]]
      /\ ~Given(e, VarOf[k]) => Agree(h, g, k)
  BY <1>1 DEF Agree
<1> QED BY <1>2 DEF h

\* A spread over its own result changes nothing.
LEMMA SpreadTwice ==
    ASSUME NEW r, NEW s
    PROVE  r ++ (r ++ s) = r ++ s
BY DEF ++

\* Two gateway sections that agree on a setting do so with the environment too.
LEMMA GatewayAgrees ==
    ASSUME NEW g, NEW h, NEW e, NEW k \in Fixed, Agree(g, h, k)
    PROVE  Agree(GatewayIn(g, e), GatewayIn(h, e), k)
<1>1. CASE k \in {"port", "host"}
  <2>1. CASE Given(e, VarOf[k])
    <3>1. /\ Given(GatewayIn(g, e), k) /\ GatewayIn(g, e)[k] = e[VarOf[k]]
          /\ Given(GatewayIn(h, e), k) /\ GatewayIn(h, e)[k] = e[VarOf[k]]
      BY <1>1, <2>1, GatewayAddress
    <3> QED BY <3>1 DEF Agree
  <2>2. CASE ~Given(e, VarOf[k])
    <3>1. Agree(GatewayIn(g, e), g, k) /\ Agree(GatewayIn(h, e), h, k)
      BY <1>1, <2>2, GatewayAddress
    <3> QED BY <3>1 DEF Agree, Given
  <2> QED BY <2>1, <2>2
<1>2. CASE k = "tls"
  <2> DEFINE usual == [enabled |-> FALSE, cert_path |-> "", key_path |-> ""]
  <2>1. Or(g, "tls", usual) = Or(h, "tls", usual)
    BY <1>2 DEF Agree, Or
  <2>2. Agree(g, h, "tls")
    BY <1>2
  <2>3. CASE DOMAIN TlsFromEnv(e) = {}
    <3>1. Agree(GatewayIn(g, e), g, "tls") /\ Agree(GatewayIn(h, e), h, "tls")
      BY <2>3, GatewayParts
    <3> QED BY <1>2, <2>2, <3>1 DEF Agree, Given
  <2>4. CASE DOMAIN TlsFromEnv(e) # {}
    <3>1. /\ Given(GatewayIn(g, e), "tls") /\ Given(GatewayIn(h, e), "tls")
          /\ GatewayIn(g, e).tls = TlsFromEnv(e) ++ Or(g, "tls", usual)
          /\ GatewayIn(h, e).tls = TlsFromEnv(e) ++ Or(h, "tls", usual)
      BY <2>4, GatewayParts
    <3> QED BY <1>2, <2>1, <3>1 DEF Agree
  <2> QED BY <2>3, <2>4
<1> QED BY <1>1, <1>2 DEF Fixed

\* Putting the environment over a section that has it changes nothing.
LEMMA GatewayTwice ==
    ASSUME NEW g, NEW e, NEW k \in Fixed
    PROVE  Agree(GatewayIn(GatewayIn(g, e), e), GatewayIn(g, e), k)
<1> DEFINE h == GatewayIn(g, e)
           hh == GatewayIn(h, e)
<1>1. CASE k \in {"port", "host"}
  <2>1. CASE Given(e, VarOf[k])
    <3>1. /\ Given(h, k) /\ h[k] = e[VarOf[k]]
          /\ Given(hh, k) /\ hh[k] = e[VarOf[k]]
      BY <1>1, <2>1, GatewayAddress
    <3> QED BY <3>1 DEF Agree
  <2>2. CASE ~Given(e, VarOf[k])
    BY <1>1, <2>2, GatewayAddress
  <2> QED BY <2>1, <2>2
<1>2. CASE k = "tls"
  <2> DEFINE usual == [enabled |-> FALSE, cert_path |-> "", key_path |-> ""]
             tls == TlsFromEnv(e)
  <2>1. CASE DOMAIN tls = {}
    BY <1>2, <2>1, GatewayParts
  <2>2. CASE DOMAIN tls # {}
    <3>1. Given(h, "tls") /\ h.tls = tls ++ Or(g, "tls", usual)
      BY <2>2, GatewayParts
    <3>2. tls ++ h.tls = h.tls
      BY <3>1, SpreadTwice
    <3> HIDE DEF h
    <3>3. Given(hh, "tls") /\ hh.tls = tls ++ Or(h, "tls", usual)
      BY <2>2, GatewayParts
    <3> HIDE DEF hh, tls
    <3>4. Agree(hh, h, "tls")
      BY <3>1, <3>2, <3>3 DEF Agree, Or
    <3> QED BY <1>2, <3>4 DEF hh, h
  <2> QED BY <2>1, <2>2
<1> QED BY <1>1, <1>2 DEF Fixed

----------------------------------------------------------------------------
\* Lists of servers.

Fielded(s) == {"id", "url", "cache"} \subseteq DOMAIN s

Listed(q) == q \in Seq(Range(q)) /\ \A s \in Range(q) : Fielded(s)

\* A sequence of entries is a list of servers.
LEMMA ListedIf ==
    ASSUME NEW S, NEW q \in Seq(S), \A s \in S : Fielded(s)
    PROVE  Listed(q)
<1>1. Len(q) \in Nat /\ DOMAIN q = 1..Len(q) /\ \A i \in 1..Len(q) : q[i] \in S
  OBVIOUS
<1>2. q \in [1..Len(q) -> Range(q)]
  BY <1>1 DEF Range
<1>3. q \in Seq(Range(q))
  BY <1>1, <1>2
<1> QED BY <1>1, <1>3 DEF Listed, Range

\* What a list of servers is.
LEMMA ListedThen ==
    ASSUME NEW q, Listed(q)
    PROVE  /\ Len(q) \in Nat /\ DOMAIN q = 1..Len(q)
           /\ \A i \in 1..Len(q) : Fielded(q[i])
<1> QED BY DEF Listed, Range

\* filter() leaves a list.
LEMMA ListedPicked ==
    ASSUME NEW q, Listed(q), NEW I \in SUBSET (DOMAIN q)
    PROVE  Listed(Picked(q, I))
<1>1. Picked(q, I) \in Seq(Range(q))
  BY PickedProperties DEF Listed
<1> QED BY <1>1, ListedIf DEF Listed

\* push() leaves a list.
LEMMA ListedAppend ==
    ASSUME NEW q, Listed(q), NEW s, Fielded(s)
    PROVE  Listed(Append(q, s))
<1> DEFINE S == Range(q) \cup {s}
<1>1. q \in Seq(S)
  BY DEF Listed
<1>2. Append(q, s) \in Seq(S) /\ \A x \in S : Fielded(x)
  BY <1>1 DEF Listed
<1> HIDE DEF S
<1> QED BY <1>2, ListedIf

\* So does taking the first entry away.
LEMMA ListedTail ==
    ASSUME NEW q, Listed(q), q # <<>>
    PROVE  Listed(Tail(q)) /\ Fielded(Head(q))
<1>1. Head(q) \in Range(q) /\ Tail(q) \in Seq(Range(q))
  BY HeadAndTail DEF Listed
<1> QED BY <1>1, ListedIf DEF Listed

\* So does splice() of one entry.
LEMMA ListedCut ==
    ASSUME NEW q, Listed(q), NEW i \in DOMAIN q
    PROVE  Listed(SubSeq(q, 1, i - 1) \o SubSeq(q, i + 1, Len(q)))
<1>1. q \in Seq(Range(q)) /\ i \in 1..Len(q) /\ Len(q) \in Nat
  BY ListedThen DEF Listed
<1> DEFINE S == Range(q)
           a == SubSeq(q, 1, i - 1)
           b == SubSeq(q, i + 1, Len(q))
<1> HIDE DEF S
<1>2. q \in Seq(S) /\ \A s \in S : Fielded(s)
  BY <1>1 DEF S, Listed
<1>3. a \in Seq(S)
  BY <1>1, <1>2
<1>4. b \in Seq(S)
  BY <1>1, <1>2
<1> HIDE DEF a, b
<1>5. a \o b \in Seq(S)
  BY <1>3, <1>4
<1>6. Listed(a \o b)
  BY <1>2, <1>5, ListedIf
<1> QED BY <1>6 DEF a, b

\* The entry find() returns.
FirstAt(q, id, i) ==
    /\ i \in DOMAIN q /\ q[i].id = id
    /\ \A j \in DOMAIN q : q[j].id = id => i <= j

\* find() returns the first entry of that id.
LEMMA FindFirst ==
    ASSUME NEW c, Listed(c.servers), NEW id, NEW i, FirstAt(c.servers, id, i)
    PROVE  Find(c, id) = c.servers[i]
<1> DEFINE at == {m \in DOMAIN c.servers : c.servers[m].id = id}
           k == CHOOSE m \in at : \A j \in at : m <= j
<1>1. at \subseteq Nat
  BY ListedThen
<1>2. i \in at /\ \A j \in at : i <= j
  BY DEF FirstAt
<1> HIDE DEF at
<1>3. k \in at /\ \A j \in at : k <= j
  BY <1>2
<1>4. k = i
  <2> HIDE DEF k
  <2>1. k \in Nat /\ i \in Nat /\ k <= i /\ i <= k
    BY <1>1, <1>2, <1>3
  <2> QED BY <2>1
<1> QED BY <1>4 DEF Find, at

\* There is one of each id in the list.
LEMMA FirstExists ==
    ASSUME NEW q, Listed(q), NEW m \in DOMAIN q
    PROVE  \E i : FirstAt(q, q[m].id, i)
<1> DEFINE n == Len(q)
           I == {j \in DOMAIN q : q[j].id = q[m].id}
<1>1. n \in Nat /\ DOMAIN q = 1..n
  BY ListedThen
<1>2. I \in SUBSET (1..n) /\ m \in I
  BY <1>1
<1> HIDE DEF n, I
<1>7. \A x \in I : x \in Nat
  BY <1>1, <1>2
<1>3. /\ Cardinality(I) \in Nat
      /\ \A j \in 1..Cardinality(I) : Place(I, j) \in I
      /\ \A j, l \in 1..Cardinality(I) : j < l => Place(I, j) < Place(I, l)
      /\ \A i \in I : \E j \in 1..Cardinality(I) : Place(I, j) = i
  BY <1>1, <1>2, PlaceProperties
<1>4. 1 \in 1..Cardinality(I)
  <2>1. PICK j \in 1..Cardinality(I) : Place(I, j) = m
    BY <1>2, <1>3
  <2> QED BY <1>3, <2>1
<1>5. Place(I, 1) \in I
  BY <1>3, <1>4
<1>6. ASSUME NEW i \in I
      PROVE  Place(I, 1) <= i
  <2>1. PICK j \in 1..Cardinality(I) : Place(I, j) = i
    BY <1>3
  <2>2. CASE j = 1
    BY <1>1, <1>2, <2>1, <2>2
  <2>3. CASE j # 1
    <3>1. 1 < j
      BY <1>3, <2>1, <2>3
    <3>2. Place(I, 1) < i
      BY <1>3, <1>4, <2>1, <3>1
    <3>3. Place(I, 1) \in Nat /\ i \in Nat
      BY <1>5, <1>7
    <3> QED BY <3>2, <3>3
  <2> QED BY <2>2, <2>3
<1> QED BY <1>5, <1>6 DEF FirstAt, I

\* The servers a reload leaves: those of both lists, in the running order, each
\* found with its running URL and the file's cache settings.
LeavesServers(c, cfg, new) ==
    /\ Listed(c.servers)
    /\ ServerIds(c) = ServerIds(cfg) \cap ServerIds(new)
    /\ \A id \in ServerIds(c) : /\ Find(c, id).url = Find(cfg, id).url
                                /\ Find(c, id).cache = Find(new, id).cache

LEMMA AppliedServers ==
    ASSUME NEW cfg, NEW new, Shaped(cfg), Shaped(new), Listed(cfg.servers)
    PROVE  LeavesServers(Applied(cfg, new), cfg, new)
<1> DEFINE q == cfg.servers
           I == {i \in DOMAIN q : q[i].id \in ServerIds(new)}
           stay == Picked(q, I)
           Updated(i) == IF \A j \in 1..i - 1 : stay[j].id # stay[i].id
                       THEN [stay[i] EXCEPT !.cache = Find(new, stay[i].id).cache]
                       ELSE stay[i]
           c == Applied(cfg, new)
           p == c.servers
<1>1. p = [i \in DOMAIN stay |-> Updated(i)]
  <2>1. "servers" \in DOMAIN Sections(cfg, new)
    BY SectionsParts DEF TakenFrom, Defaulted
  <2> QED BY <2>1 DEF Applied, Staying
<1>2. /\ q \in Seq(Range(q)) /\ Len(q) \in Nat /\ DOMAIN q = 1..Len(q)
      /\ \A i \in 1..Len(q) : Fielded(q[i])
  BY ListedThen DEF Listed
<1>3. I \in SUBSET (DOMAIN q)
  OBVIOUS
<1>4. \A i \in DOMAIN q : i \in I <=> q[i].id \in ServerIds(new)
  OBVIOUS
<1> DEFINE N == Cardinality(I)
<1> HIDE DEF I, c
<1>5. /\ N \in Nat /\ DOMAIN stay = 1..N
      /\ \A j \in 1..N : Place(I, j) \in I /\ stay[j] = q[Place(I, j)]
  BY <1>2, <1>3, PickedProperties
<1>6. /\ \A j, l \in 1..N : j < l => Place(I, j) < Place(I, l)
      /\ \A i \in I : \E j \in 1..N : Place(I, j) = i
  <2>1. PICK n \in Nat : n = Len(q) /\ I \in SUBSET (1..n)
    BY <1>2, <1>3
  <2> HIDE DEF q, stay
  <2> QED BY <2>1, PlaceProperties
<1> HIDE DEF stay, N
<1>7. Listed(stay)
  BY <1>3, ListedPicked DEF stay
<1>8. \A i \in 1..N : Fielded(stay[i])
  BY <1>5, <1>7, ListedThen
<1>9. /\ DOMAIN p = 1..N
      /\ \A i \in 1..N : p[i] = Updated(i)
  BY <1>1, <1>5
<1>10. \A i \in 1..N : Fielded(p[i]) /\ p[i].id = stay[i].id /\ p[i].url = stay[i].url
  BY <1>8, <1>9 DEF Fielded
<1>11. Listed(p)
  <2> DEFINE S == {p[i] : i \in 1..N}
  <2>1. p \in [1..N -> S]
    BY <1>1, <1>5
  <2>3. \A s \in S : Fielded(s)
    BY <1>10
  <2> HIDE DEF S, p
  <2>2. p \in Seq(S)
    BY <1>5, <2>1
  <2> QED BY <2>2, <2>3, ListedIf
<1>12. ServerIds(c) = ServerIds(cfg) \cap ServerIds(new)
  <2>1. ASSUME NEW id \in ServerIds(c)
        PROVE  id \in ServerIds(cfg) /\ id \in ServerIds(new)
    <3>1. PICK i \in 1..N : id = p[i].id
      BY <1>9 DEF ServerIds
    <3>2. Place(I, i) \in DOMAIN q /\ id = q[Place(I, i)].id /\ Place(I, i) \in I
      BY <1>3, <1>5, <1>10, <3>1
    <3> QED BY <1>4, <3>2 DEF ServerIds
  <2>2. ASSUME NEW id \in ServerIds(cfg), id \in ServerIds(new)
        PROVE  id \in ServerIds(c)
    <3>1. PICK m \in DOMAIN q : id = q[m].id
      BY DEF ServerIds
    <3>2. PICK j \in 1..N : Place(I, j) = m
      BY <1>4, <1>6, <2>2, <3>1
    <3>3. p[j].id = id
      BY <1>5, <1>10, <3>1, <3>2
    <3> QED BY <1>9, <3>3 DEF ServerIds
  <2> QED BY <2>1, <2>2
<1>13. ASSUME NEW id \in ServerIds(c)
       PROVE  Find(c, id).url = Find(cfg, id).url /\ Find(c, id).cache = Find(new, id).cache
  <2>1. id \in ServerIds(cfg) /\ id \in ServerIds(new)
    BY <1>12
  <2>2. PICK m \in DOMAIN q : q[m].id = id
    BY <2>1 DEF ServerIds
  <2>3. PICK i : FirstAt(q, id, i)
    BY <2>2, FirstExists
  <2>4. Find(cfg, id) = q[i]
    BY <2>3, FindFirst
  <2>5. i \in I
    BY <1>4, <2>1, <2>3 DEF FirstAt
  <2>6. PICK j \in 1..N : Place(I, j) = i
    BY <1>6, <2>5
  <2>7. stay[j] = q[i] /\ stay[j].id = id
    BY <1>5, <2>3, <2>6 DEF FirstAt
  <2>8. \A l \in 1..N : stay[l].id = id => j <= l
    <3>1. SUFFICES ASSUME NEW l \in 1..N, stay[l].id = id, l < j
                   PROVE  FALSE
      BY <1>5
    <3>2. Place(I, l) < i
      BY <1>6, <2>6, <3>1
    <3>3. Place(I, l) \in DOMAIN q /\ q[Place(I, l)].id = id
      BY <1>3, <1>5, <3>1
    <3>4. i <= Place(I, l) /\ i \in Nat /\ Place(I, l) \in Nat
      BY <1>2, <2>3, <3>3 DEF FirstAt
    <3> QED BY <3>2, <3>4
  <2>9. \A l \in 1..j - 1 : stay[l].id # stay[j].id
    <3>1. SUFFICES ASSUME NEW l \in 1..j - 1, stay[l].id = id
                   PROVE  FALSE
      BY <2>7
    <3>2. l \in 1..N /\ l < j
      BY <1>5
    <3> QED BY <1>5, <2>8, <3>1, <3>2
  <2>10. p[j] = [stay[j] EXCEPT !.cache = Find(new, id).cache]
    BY <1>9, <2>7, <2>9
  <2>11. p[j].url = q[i].url /\ p[j].cache = Find(new, id).cache
    BY <1>8, <2>7, <2>10 DEF Fielded
  <2>12. FirstAt(p, id, j)
    BY <1>9, <1>10, <2>7, <2>8 DEF FirstAt
  <2>13. Find(c, id) = p[j]
    BY <1>11, <2>12, FindFirst
  <2> QED BY <2>4, <2>11, <2>13
<1> QED BY <1>11, <1>12, <1>13 DEF LeavesServers, c

\* With nothing to add, every server of the file runs already.
LEMMA NoneMissing ==
    ASSUME NEW cfg, NEW new, Listed(new.servers), Missing(cfg, new) = <<>>
    PROVE  ServerIds(new) \subseteq ServerIds(cfg)
<1> DEFINE q == new.servers
           I == {i \in DOMAIN q : q[i].id \notin ServerIds(cfg)}
<1>1. I \in SUBSET (DOMAIN q) /\ q \in Seq(Range(q))
  BY DEF Listed
<1>2. \A i \in DOMAIN q : i \in I <=> q[i].id \notin ServerIds(cfg)
  OBVIOUS
<1>3. Picked(q, I) = <<>>
  BY DEF Missing
<1> HIDE DEF I
<1>4. Range(Picked(q, I)) = {q[i] : i \in I}
  BY <1>1, PickedProperties
<1>5. Range(<<>>) = {}
  <2>1. DOMAIN <<>> = {}
    OBVIOUS
  <2> QED BY <2>1 DEF Range
<1>6. I = {}
  BY <1>3, <1>4, <1>5
<1> QED BY <1>2, <1>6 DEF ServerIds

\* The servers to add are a list.
LEMMA MissingListed ==
    ASSUME NEW cfg, NEW new, Listed(new.servers)
    PROVE  Listed(Missing(cfg, new))
<1> DEFINE I == {i \in DOMAIN new.servers : new.servers[i].id \notin ServerIds(cfg)}
<1>1. I \in SUBSET (DOMAIN new.servers)
  OBVIOUS
<1> HIDE DEF I
<1>2. Listed(Picked(new.servers, I))
  BY <1>1, ListedPicked
<1> QED BY <1>2 DEF Missing, I

----------------------------------------------------------------------------
\* The running configuration is sound, and so is what a reload under way has read.
Running == Up => Fit(config)

Progress == {"at", "read", "new", "todo", "errors"}

Adding ==
    /\ DOMAIN reload = Reloads
    /\ \A w \in Reloads : reload[w].at = "adding" =>
          Up /\ DOMAIN reload[w] = Progress /\ Fit(reload[w].new)

SoundInv == Running /\ Adding

\* Every list of servers is one, and the list the defaults share is the running one.
Lists ==
    /\ Listed(defaults)
    /\ Up => Listed(config.servers)
    /\ Up /\ shared => defaults = config.servers
    /\ \A w \in Reloads : reload[w].at = "adding" =>
          /\ Listed(reload[w].new.servers)
          /\ Listed(reload[w].todo) /\ reload[w].todo # <<>>

\* A reload applies the file it read.
ReadFromFile ==
    /\ file \in Files
    /\ \A w \in Reloads : reload[w].at = "adding" =>
          /\ reload[w].read \in Files \ Unread
          /\ reload[w].new = Merged(reload[w].read, reload[w].new.servers)

\* The gateway section holds what the environment says of it.
EnvironmentKept ==
    Up => \A k \in Fixed : Agree(GatewayIn(config.gateway, env), config.gateway, k)

ConfigInv == SoundInv /\ Lists /\ ReadFromFile /\ EnvironmentKept

\* A change of the servers alone.
LEMMA ServersOnly ==
    ASSUME NEW c, NEW s, Shaped(c)
    PROVE  LET d == [c EXCEPT !.servers = s]
           IN  /\ d.servers = s
               /\ \A k \in Defaulted \ {"servers"} : d[k] = c[k]
               /\ \A k : k # "servers" => Section(d, k) = Section(c, k)
               /\ Shaped(d)
               /\ SoundSections(c) => SoundSections(d)
<1> DEFINE d == [c EXCEPT !.servers = s]
<1>1. Defaulted \subseteq DOMAIN c /\ Settings \subseteq DOMAIN c.observability
  BY DEF Shaped
<1>2. DOMAIN d = DOMAIN c /\ \A k \in DOMAIN c : k # "servers" => d[k] = c[k]
  OBVIOUS
<1>3. d.servers = s
  BY <1>1 DEF Defaulted
<1> HIDE DEF d
<1>4. \A k \in Defaulted \ {"servers"} : d[k] = c[k]
  BY <1>1, <1>2
<1>5. \A k : k # "servers" => Section(d, k) = Section(c, k)
  BY <1>2 DEF Section, Or, Given
<1>6. Shaped(d)
  BY <1>1, <1>2, <1>4 DEF Shaped, Defaulted
<1>7. SoundSections(c) => SoundSections(d)
  BY <1>4, <1>5 DEF SoundSections, Defaulted
<1> QED BY <1>3, <1>4, <1>5, <1>6, <1>7 DEF d

\* It leaves a fit configuration fit.
LEMMA ServersOnlyFit ==
    ASSUME NEW c, NEW s, Fit(c)
    PROVE  Fit([c EXCEPT !.servers = s])
BY ServersOnly DEF Fit

\* What has the sections is not the absence of a configuration.
LEMMA ShapedUp ==
    ASSUME NEW c, Shaped(c)
    PROVE  c # Down
<1>1. "gateway" \in DOMAIN c
  BY DEF Shaped, Defaulted
<1>2. DOMAIN Down = {"down"}
  BY DEF Down
<1> QED BY <1>1, <1>2

\* A request without a reload is idle.
LEMMA NoReloadIdle == NoReload.at = "idle"
BY DEF NoReload

\* Nothing runs at first.
LEMMA SoundInit ==
    ASSUME ConfigInit
    PROVE  SoundInv
<1>1. ~Up
  BY DEF ConfigInit, Up
<1>2. DOMAIN reload = Reloads /\ \A w \in Reloads : reload[w].at = "idle"
  BY NoReloadIdle DEF ConfigInit
<1> QED BY <1>1, <1>2 DEF SoundInv, Running, Adding

\* What Finish leaves, of a sound configuration and a sound file.
LEMMA FinishSound ==
    ASSUME SoundInv, NEW w \in Reloads, NEW r, NEW cfg, Fit(cfg), Fit(r.new),
           Finish(w, r, cfg), Up
    PROVE  SoundInv'
<1>1. Fit(config')
  BY AppliedFit DEF Finish
<1>2. Up'
  BY <1>1, ShapedUp DEF Fit, Up
<1>3. DOMAIN reload' = Reloads /\ \A v \in Reloads : v # w => reload'[v] = reload[v]
  BY DEF Finish, SoundInv, Adding
<1>4. reload'[w].at = "idle"
  BY NoReloadIdle DEF Finish, SoundInv, Adding
<1>5. \A v \in Reloads : reload'[v].at = "adding" =>
        DOMAIN reload'[v] = Progress /\ Fit(reload'[v].new)
  BY <1>3, <1>4 DEF SoundInv, Adding
<1> QED BY <1>1, <1>2, <1>3, <1>5 DEF SoundInv, Running, Adding

\* A step that leaves the reloads alone and the configuration sound.
LEMMA QuietSound ==
    ASSUME SoundInv, UNCHANGED reload, Up => Fit(config')
    PROVE  Up => SoundInv'
<1> SUFFICES ASSUME Up PROVE SoundInv'
  OBVIOUS
<1>1. Up'
  BY ShapedUp DEF Fit, Up
<1> QED BY <1>1 DEF SoundInv, Running, Adding

\* No step breaks SoundInv.
LEMMA SoundStep ==
    ASSUME SoundInv, [ConfigNext]_configVars
    PROVE  SoundInv'
<1>1. CASE Edit
  BY <1>1 DEF Edit, SoundInv, Running, Adding, Up
<1>2. CASE Start
  <2>1. \A w \in Reloads : reload[w].at # "adding"
    BY <1>2 DEF Start, SoundInv, Adding
  <2>2. Starts(file) => Fit(config')
    <3> DEFINE c == Merged(Content(file), <<>>)
    <3>1. Shaped(Overridden(c, env))
      <4>1. Shaped(c)
        BY MergedShaped
      <4> HIDE DEF c
      <4> QED BY <4>1, OverriddenShaped
    <3> QED BY <1>2, <3>1 DEF Start, Starts, Loaded, Valid, Fit
  <2>3. ~Starts(file) => ~Up'
    BY <1>2 DEF Start, Up
  <2>4. UNCHANGED reload
    BY <1>2 DEF Start
  <2> QED BY <2>1, <2>2, <2>3, <2>4 DEF SoundInv, Running, Adding
<1>3. CASE Shutdown
  <2>1. ~Up'
    BY <1>3 DEF Shutdown, Up
  <2>2. DOMAIN reload' = Reloads /\ \A w \in Reloads : reload'[w].at = "idle"
    BY <1>3, NoReloadIdle DEF Shutdown
  <2> QED BY <2>1, <2>2 DEF SoundInv, Running, Adding
<1>4. CASE Post
  <2>1. PICK s \in Posted : config' = [config EXCEPT !.servers = Append(@, s)]
    BY <1>4 DEF Post
  <2>2. Up /\ UNCHANGED reload /\ Fit(config')
    BY <1>4, <2>1, ServersOnlyFit DEF Post, SoundInv, Running
  <2> QED BY <2>2, QuietSound
<1>5. CASE Delete
  <2>1. PICK s : config' = [config EXCEPT !.servers = s]
    BY <1>5 DEF Delete
  <2>2. Up /\ UNCHANGED reload /\ Fit(config')
    BY <1>5, <2>1, ServersOnlyFit DEF Delete, SoundInv, Running
  <2> QED BY <2>2, QuietSound
<1>6. CASE \E w \in Reloads : BeginReload(w)
  <2>1. PICK w \in Reloads : BeginReload(w)
    BY <1>6
  <2> DEFINE new == Merged(file, defaults)
             r == [at |-> "adding", read |-> file, new |-> new,
                   todo |-> Missing(config, new), errors |-> {}]
  <2>2. Up /\ Fit(config)
    BY <2>1 DEF BeginReload, SoundInv, Running
  <2>3. CASE file \in Unread \/ ~Valid(IF file \in Unread THEN Down ELSE new)
    <3>1. UNCHANGED <<config, reload>>
      BY <2>1, <2>3 DEF BeginReload
    <3> QED BY <2>2, <3>1, QuietSound
  <2>4. CASE ~(file \in Unread \/ ~Valid(IF file \in Unread THEN Down ELSE new))
    <3>1. Fit(new)
      BY <2>4, MergedShaped DEF Valid, Fit
    <3>2. IF r.todo = <<>> THEN Finish(w, r, config)
          ELSE reload' = [reload EXCEPT ![w] = r] /\ UNCHANGED config
      BY <2>1, <2>4 DEF BeginReload
    <3> HIDE DEF new
    <3>3. r.new = new /\ r.at = "adding" /\ DOMAIN r = Progress
      BY DEF Progress
    <3> HIDE DEF r
    <3>4. CASE r.todo = <<>>
      <4>1. PICK b : b = r
        OBVIOUS
      <4>2. PICK c : c = config
        OBVIOUS
      <4> QED BY <2>2, <3>1, <3>2, <3>3, <3>4, <4>1, <4>2, FinishSound
    <3>5. CASE r.todo # <<>>
      <4>1. reload' = [reload EXCEPT ![w] = r] /\ UNCHANGED config
        BY <3>2, <3>5
      <4>2. Up'
        BY <2>2, <4>1 DEF Up
      <4>3. DOMAIN reload' = Reloads /\ reload'[w] = r
            /\ \A v \in Reloads : v # w => reload'[v] = reload[v]
        BY <4>1 DEF SoundInv, Adding
      <4>4. \A v \in Reloads : reload'[v].at = "adding" =>
              DOMAIN reload'[v] = Progress /\ Fit(reload'[v].new)
        BY <3>1, <3>3, <4>3 DEF SoundInv, Adding
      <4> QED BY <2>2, <4>1, <4>2, <4>3, <4>4 DEF SoundInv, Running, Adding
    <3> QED BY <3>4, <3>5
  <2> QED BY <2>3, <2>4
<1>7. CASE \E w \in Reloads : Connected(w)
  <2>1. PICK w \in Reloads : Connected(w)
    BY <1>7
  <2>2. PICK r : r = reload[w]
    OBVIOUS
  <2>3. Up /\ Fit(config) /\ r.at = "adding" /\ DOMAIN r = Progress /\ Fit(r.new)
    BY <2>1, <2>2 DEF Connected, SoundInv, Running, Adding
  <2>4. PICK ok \in BOOLEAN :
          LET s   == Head(r.todo)
              cfg == IF ok THEN [config EXCEPT !.servers = Append(@, s)] ELSE config
              on  == [r EXCEPT !.todo = Tail(@), !.errors = IF ok THEN @ ELSE @ \cup {s.id}]
          IN  IF on.todo = <<>> THEN Finish(w, on, cfg)
              ELSE config' = cfg /\ reload' = [reload EXCEPT ![w] = on]
    BY <2>1, <2>2 DEF Connected
  <2> DEFINE s == Head(r.todo)
  <2>5. PICK cfg : cfg = IF ok THEN [config EXCEPT !.servers = Append(@, s)] ELSE config
    OBVIOUS
  <2>6. PICK on : on = [r EXCEPT !.todo = Tail(@), !.errors = IF ok THEN @ ELSE @ \cup {s.id}]
    OBVIOUS
  <2>7. Fit(cfg)
    BY <2>3, <2>5, ServersOnlyFit
  <2>8. on.at = "adding" /\ DOMAIN on = Progress /\ Fit(on.new)
    BY <2>3, <2>6 DEF Progress
  <2>9. IF on.todo = <<>> THEN Finish(w, on, cfg)
        ELSE config' = cfg /\ reload' = [reload EXCEPT ![w] = on]
    BY <2>4, <2>5, <2>6
  <2>10. CASE on.todo = <<>>
    BY <2>3, <2>7, <2>8, <2>9, <2>10, FinishSound
  <2>11. CASE on.todo # <<>>
    <3>1. config' = cfg /\ reload' = [reload EXCEPT ![w] = on]
      BY <2>9, <2>11
    <3>2. Up'
      BY <2>7, <3>1, ShapedUp DEF Fit, Up
    <3>3. DOMAIN reload' = Reloads /\ reload'[w] = on
          /\ \A v \in Reloads : v # w => reload'[v] = reload[v]
      BY <3>1 DEF SoundInv, Adding
    <3>4. \A v \in Reloads : reload'[v].at = "adding" =>
            DOMAIN reload'[v] = Progress /\ Fit(reload'[v].new)
      BY <2>8, <3>3 DEF SoundInv, Adding
    <3> QED BY <2>7, <3>1, <3>2, <3>3, <3>4 DEF SoundInv, Running, Adding
  <2> QED BY <2>10, <2>11
<1>8. CASE UNCHANGED configVars
  BY <1>8 DEF configVars, SoundInv, Running, Adding, Up
<1> QED BY <1>1, <1>2, <1>3, <1>4, <1>5, <1>6, <1>7, <1>8 DEF ConfigNext

\* The running configuration, and every file a reload is applying, passes the
\* checks of validateConfig (gateway.ts reload, loader.ts loadConfig).
THEOREM SoundInvariance == ConfigSpec => []SoundInv
<1>1. ConfigInit => SoundInv
  BY SoundInit
<1>2. SoundInv /\ [ConfigNext]_configVars => SoundInv'
  BY SoundStep
<1> QED BY <1>1, <1>2, PTL DEF ConfigSpec

\* Whatever way the running configuration came about, through starts, reloads of
\* other files, some overlapping, and the admin API, it passes the checks the
\* parts made from it rely on, though no one checks the mixture a reload leaves
\* (gateway.ts:379-437 against schema.ts validateConfig).
THEOREM AlwaysSound == ConfigSpec => []SoundAlways
<1>1. SoundInv => SoundAlways
  BY DEF SoundInv, Running, Fit, SoundAlways
<1> QED BY <1>1, SoundInvariance, PTL

----------------------------------------------------------------------------
\* What a reload and a restart make of one file.

\* Agreeing goes both ways, and on.
LEMMA AgreeBoth ==
    ASSUME NEW a, NEW b, NEW c, NEW k
    PROVE  /\ Agree(a, b, k) => Agree(b, a, k)
           /\ Agree(a, b, k) /\ Agree(b, c, k) => Agree(a, c, k)
BY DEF Agree, Given

\* Two readings of a file differ in the servers of a file that gives none.
LEMMA MergedTwice ==
    ASSUME NEW raw, NEW a, NEW b
    PROVE  /\ \A k \in Defaulted \ {"servers"} : Merged(raw, a)[k] = Merged(raw, b)[k]
           /\ \A k \in {"auth", "acl", "rate_limits", "admin", "guardrails"} :
                 Agree(Merged(raw, a), Merged(raw, b), k)
           /\ Given(raw, "servers") =>
                 /\ Merged(raw, a).servers = MapSeq(raw.servers, Server)
                 /\ Merged(raw, b).servers = MapSeq(raw.servers, Server)
<1>1. \A k \in Defaulted : /\ Merged(raw, a)[k] = Filled(raw, a)[k]
                           /\ Merged(raw, b)[k] = Filled(raw, b)[k]
  BY MergedParts
<1>2. \A k \in Defaulted \ {"servers"} : Filled(raw, a)[k] = Filled(raw, b)[k]
  BY DEF Defaulted, Filled
<1>3. Given(raw, "servers") =>
        /\ Filled(raw, a).servers = MapSeq(raw.servers, Server)
        /\ Filled(raw, b).servers = MapSeq(raw.servers, Server)
  BY DEF Filled
<1>4. "servers" \in Defaulted
  BY DEF Defaulted
<1>5. ASSUME NEW k \in {"auth", "acl", "rate_limits", "admin", "guardrails"}
      PROVE  Agree(Merged(raw, a), Merged(raw, b), k)
  <2>1. Agree(Merged(raw, a), raw, k) /\ Agree(Merged(raw, b), raw, k)
    BY MergedParts
  <2> QED BY <2>1, AgreeBoth
<1> QED BY <1>1, <1>2, <1>3, <1>4, <1>5

\* normalizeServer gives an entry its id, its address and its cache settings.
LEMMA ServerFielded ==
    ASSUME NEW raw
    PROVE  Fielded(Server(raw))
<1> DEFINE Base(i, u, c) == [id |-> i, url |-> u, cache |-> c]
           Own(s) == IF s THEN Only(raw, {"transport", "command"}) ELSE <<>>
           Replicas == Only(raw, {"replicas"})
           Auth == IF Given(raw, "upstream_auth")
                   THEN [upstream_auth |-> UpstreamAuth(raw.upstream_auth)] ELSE <<>>
           Managed == IF Given(raw, "managed_runtime")
                      THEN [managed_runtime |-> Releases(raw.managed_runtime)] ELSE <<>>
           Made(i, u, c, s) == Base(i, u, c) ++ Own(s) ++ Replicas ++ Auth ++ Managed
<1>1. \A a, b : Fielded(a) => Fielded(a ++ b)
  BY SpreadParts DEF Fielded
<1>2. \A i, u, c : Fielded(Base(i, u, c))
  BY DEF Fielded
<1>3. \E i, u, c, s : Server(raw) = Made(i, u, c, s)
  <2> DEFINE Stdio == Or(raw, "transport", "http") = "stdio"
             Url == IF Stdio /\ Or(raw, "url", "") = "" /\ Given(raw, "command")
                    THEN "stdio" ELSE Or(raw, "url", "")
             Cache == Only(Section(raw, "cache"), {"default_ttl", "overrides"})
                      ++ [default_ttl |-> 0]
  <2>1. Server(raw) = Made(Or(raw, "id", ""), Url, Cache, Stdio)
    BY DEF Server
  <2> HIDE DEF Stdio, Url, Cache, Made
  <2> QED BY <2>1
<1> HIDE DEF Base, Own, Replicas, Auth, Managed
<1> QED BY <1>1, <1>2, <1>3

\* The sections: c is what the reload leaves of cfg, o what a restart would run.
SectionsAsRestarted(c, o, cfg, new, e) ==
    /\ \A k \in {"acl", "guardrails"} : Agree(c, o, k)
    /\ ~Given(e, "CONDUIT_REDIS_URL") => Agree(c, o, "rate_limits")
    /\ ~Given(e, "CONDUIT_GOVERNANCE_DB_PATH") /\ "governance" \notin Pinned(cfg, new)
         => c.governance = o.governance
    /\ ~Given(e, "CONDUIT_LOG_ARGS")
         => c.observability.log_args = o.observability.log_args
    /\ \A k \in {"log_responses", "redact_fields"} : c.observability[k] = o.observability[k]
    /\ c.gateway = cfg.gateway /\ o.gateway = GatewayIn(new.gateway, e)
    /\ Section(c, "auth") = Section(cfg, "auth") /\ Section(o, "auth") = Section(new, "auth")

LEMMA SectionsRestart ==
    ASSUME NEW raw, NEW list, NEW cfg, NEW new, NEW e, Shaped(cfg), new = Merged(raw, list)
    PROVE  SectionsAsRestarted(Applied(cfg, new), Loaded(raw, e), cfg, new, e)
<1> DEFINE c == Applied(cfg, new)
           m == Merged(raw, <<>>)
           o == Loaded(raw, e)
           s == Sections(cfg, new)
           logged == FromEnv([db_path |-> "CONDUIT_DB_PATH", log_args |-> "CONDUIT_LOG_ARGS"], e)
<1>1. Shaped(new) /\ Shaped(m)
  BY MergedShaped
<1>2. TakenFrom(s, cfg, new)
  BY <1>1, SectionsParts
<1>3. /\ DOMAIN c = DOMAIN s
      /\ \A k \in DOMAIN s : k # "servers" => c[k] = s[k]
  BY <1>1, AppliedParts
<1>4. OverriddenFrom(o, m, e)
  BY <1>1, OverriddenParts DEF Loaded
<1>5. /\ \A k \in Defaulted \ {"servers"} : new[k] = m[k]
      /\ \A k \in {"auth", "acl", "rate_limits", "admin", "guardrails"} : Agree(new, m, k)
  BY MergedTwice
<1>6. /\ DOMAIN logged \subseteq {"db_path", "log_args"}
      /\ ~Given(e, "CONDUIT_LOG_ARGS") => "log_args" \notin DOMAIN logged
  BY DEF FromEnv
<1> HIDE DEF c, m, o, s, logged
<1>7. \A k \in {"acl", "guardrails", "rate_limits"} : Agree(c, new, k)
  BY <1>2, <1>3 DEF TakenFrom, Agree, Given
<1>8. \A k \in {"acl", "guardrails"} : Agree(c, o, k)
  <2>1. ASSUME NEW k \in {"acl", "guardrails"}
        PROVE  Agree(c, o, k)
    <3>1. Agree(c, new, k) /\ Agree(new, m, k) /\ Agree(o, m, k)
      BY <1>4, <1>5, <1>7 DEF OverriddenFrom
    <3> QED BY <3>1, AgreeBoth
  <2> QED BY <2>1
<1>9. ~Given(e, "CONDUIT_REDIS_URL") => Agree(c, o, "rate_limits")
  <2>1. SUFFICES ASSUME ~Given(e, "CONDUIT_REDIS_URL")
                 PROVE  Agree(c, o, "rate_limits")
    OBVIOUS
  <2>2. Agree(c, new, "rate_limits") /\ Agree(new, m, "rate_limits") /\ Agree(o, m, "rate_limits")
    BY <1>4, <1>5, <1>7, <2>1 DEF OverriddenFrom
  <2> QED BY <2>2, AgreeBoth
<1>10. /\ c.governance = s.governance /\ c.observability = s.observability
       /\ c.gateway = cfg.gateway
       /\ new.governance = m.governance /\ new.observability = m.observability
       /\ new.gateway = m.gateway
  BY <1>2, <1>3, <1>5 DEF TakenFrom, Defaulted
<1>11. ~Given(e, "CONDUIT_GOVERNANCE_DB_PATH") /\ "governance" \notin Pinned(cfg, new)
         => c.governance = o.governance
  BY <1>2, <1>4, <1>10 DEF TakenFrom, OverriddenFrom
<1>12. /\ c.observability.log_args = m.observability.log_args
       /\ \A k \in {"log_responses", "redact_fields"} : c.observability[k] = m.observability[k]
  <2>1. c.observability = Logging(cfg.observability, new.observability)
    BY <1>2, <1>10 DEF TakenFrom
  <2>2. {"log_args", "log_responses", "redact_fields"} \subseteq DOMAIN cfg.observability
    BY DEF Shaped, Settings
  <2> QED BY <1>10, <2>1, <2>2 DEF Logging
<1>13. /\ ~Given(e, "CONDUIT_LOG_ARGS") => o.observability.log_args = m.observability.log_args
       /\ \A k \in {"log_responses", "redact_fields"} : o.observability[k] = m.observability[k]
  <2>1. o.observability = logged ++ m.observability
    BY <1>4 DEF OverriddenFrom, logged
  <2>2. {"log_args", "log_responses", "redact_fields"} \subseteq DOMAIN m.observability
    BY <1>1 DEF Shaped, Settings
  <2>3. \A k \in DOMAIN m.observability :
          k \notin DOMAIN logged => (logged ++ m.observability)[k] = m.observability[k]
    BY SpreadParts
  <2> QED BY <1>6, <2>1, <2>2, <2>3
<1>14. o.gateway = GatewayIn(new.gateway, e)
  BY <1>4, <1>10 DEF OverriddenFrom
<1>15. Section(c, "auth") = Section(cfg, "auth")
  BY <1>2, <1>3 DEF TakenFrom, Section, Or, Given
<1>16. Section(o, "auth") = Section(new, "auth")
  <2>1. Agree(o, m, "auth") /\ Agree(new, m, "auth")
    BY <1>4, <1>5 DEF OverriddenFrom
  <2> QED BY <2>1 DEF Agree, Section, Or
<1>17. SectionsAsRestarted(c, o, cfg, new, e)
  BY <1>8, <1>9, <1>10, <1>11, <1>12, <1>13, <1>14, <1>15, <1>16 DEF SectionsAsRestarted
<1> QED BY <1>17 DEF c, o

\* The servers, when the file lists them.
LEMMA ServersRestart ==
    ASSUME NEW raw, NEW list, NEW cfg, NEW new, NEW e, Shaped(cfg), new = Merged(raw, list),
           Listed(cfg.servers), Listed(new.servers), Given(raw, "servers")
    PROVE  LET c == Applied(cfg, new)
               o == Loaded(raw, e)
           IN  /\ ServerIds(c) \subseteq ServerIds(o)
               /\ Missing(cfg, new) = <<>> => ServerIds(c) = ServerIds(o)
               /\ \A id \in ServerIds(c) :
                     /\ Find(c, id).cache = Find(o, id).cache
                     /\ id \in MovedUrls(cfg, new) \/ Find(c, id).url = Find(o, id).url
<1> DEFINE c == Applied(cfg, new)
           m == Merged(raw, <<>>)
           o == Loaded(raw, e)
<1>1. Shaped(new) /\ Shaped(m)
  BY MergedShaped
<1>2. LeavesServers(c, cfg, new)
  BY <1>1, AppliedServers
<1>3. OverriddenFrom(o, m, e)
  BY <1>1, OverriddenParts DEF Loaded
<1>4. m.servers = new.servers
  BY MergedTwice
<1>5. o.servers = new.servers
  <2>1. Agree(o, m, "servers") /\ "servers" \in DOMAIN m
    BY <1>1, <1>3 DEF OverriddenFrom, Shaped, Defaulted
  <2> HIDE DEF o, m
  <2> QED BY <1>4, <2>1 DEF Agree, Given
<1> HIDE DEF c, o, m
<1>6. ServerIds(o) = ServerIds(new) /\ \A id : Find(o, id) = Find(new, id)
  BY <1>5 DEF ServerIds, Find
<1>7. ServerIds(c) = ServerIds(cfg) \cap ServerIds(new)
  BY <1>2 DEF LeavesServers
<1>8. Missing(cfg, new) = <<>> => ServerIds(c) = ServerIds(o)
  BY <1>6, <1>7, NoneMissing
<1>9. ASSUME NEW id \in ServerIds(c)
      PROVE  /\ Find(c, id).cache = Find(o, id).cache
             /\ id \in MovedUrls(cfg, new) \/ Find(c, id).url = Find(o, id).url
  <2>1. Find(c, id).url = Find(cfg, id).url /\ Find(c, id).cache = Find(new, id).cache
    BY <1>2 DEF LeavesServers
  <2>2. Find(new, id).url # Find(cfg, id).url => id \in MovedUrls(cfg, new)
    BY <1>7 DEF MovedUrls
  <2> QED BY <1>6, <2>1, <2>2
<1> QED BY <1>6, <1>7, <1>8, <1>9 DEF c, o

\* What the turn that ends a reload begins from: a list cfg of the running
\* sections, and the file as r read it.
ReadyToFinish(r, cfg) ==
    /\ Fit(cfg) /\ Listed(cfg.servers)
    /\ \A k \in Fixed : Agree(GatewayIn(cfg.gateway, env), cfg.gateway, k)
    /\ Fit(r.new) /\ Listed(r.new.servers)
    /\ r.read \in Files \ Unread /\ r.new = Merged(r.read, r.new.servers)

\* A reload that ends leaves what a restart on its file would.
LEMMA FinishRestart ==
    ASSUME NEW w \in Reloads, NEW r, NEW cfg, ReadyToFinish(r, cfg), Finish(w, r, cfg),
           reload' = reload => Missing(cfg, r.new) = <<>>
    PROVE  AsRestarted
<1> DEFINE raw == r.read
           fresh == Loaded(raw, env)
           skip == Pinned(cfg, r.new) \cup MovedUrls(cfg, r.new)
<1>1. PICK new : new = r.new
  OBVIOUS
<1>2. PICK list : list = r.new.servers
  OBVIOUS
<1>3. Shaped(cfg) /\ new = Merged(raw, list) /\ Listed(cfg.servers) /\ Listed(new.servers)
  BY <1>1, <1>2 DEF ReadyToFinish, Fit
<1>4. config' = Applied(cfg, new) /\ answer'.read = raw /\ answer'.skipped = skip
  BY <1>1 DEF Finish
<1>5. PICK c : c = config'
  OBVIOUS
<1>6. PICK o : o = fresh
  OBVIOUS
<1>7. SectionsAsRestarted(c, o, cfg, new, env)
  BY <1>3, <1>4, <1>5, <1>6, SectionsRestart
<1>8. Given(raw, "servers") =>
        /\ ServerIds(c) \subseteq ServerIds(o)
        /\ reload' = reload => ServerIds(c) = ServerIds(o)
        /\ \A id \in ServerIds(c) :
              /\ Find(c, id).cache = Find(o, id).cache
              /\ id \in skip \/ Find(c, id).url = Find(o, id).url
  <2>1. SUFFICES ASSUME Given(raw, "servers")
                 PROVE  /\ ServerIds(c) \subseteq ServerIds(o)
                        /\ reload' = reload => ServerIds(c) = ServerIds(o)
                        /\ \A id \in ServerIds(c) :
                              /\ Find(c, id).cache = Find(o, id).cache
                              /\ id \in skip \/ Find(c, id).url = Find(o, id).url
    OBVIOUS
  <2>2. /\ ServerIds(c) \subseteq ServerIds(o)
        /\ Missing(cfg, new) = <<>> => ServerIds(c) = ServerIds(o)
        /\ \A id \in ServerIds(c) :
              /\ Find(c, id).cache = Find(o, id).cache
              /\ id \in MovedUrls(cfg, new) \/ Find(c, id).url = Find(o, id).url
    BY <1>3, <1>4, <1>5, <1>6, <2>1, ServersRestart
  <2> QED BY <1>1, <2>2
<1>9. ASSUME NEW k \in Fixed
      PROVE  k \in skip \/ ~Differs(c.gateway, o.gateway, k)
  <2>1. SUFFICES ASSUME k \notin Pinned(cfg, new)
                 PROVE  ~Differs(c.gateway, o.gateway, k)
    BY <1>1
  <2>2. ~Differs(new.gateway, cfg.gateway, k)
    BY <2>1 DEF Pinned, Fixed
  <2>3. Agree(new.gateway, cfg.gateway, k)
    BY <2>2, AgreeIsNotDiffers
  <2>4. Agree(GatewayIn(new.gateway, env), GatewayIn(cfg.gateway, env), k)
    <3>1. PICK e : e = env
      OBVIOUS
    <3> QED BY <2>3, <3>1, GatewayAgrees
  <2>5. Agree(GatewayIn(cfg.gateway, env), cfg.gateway, k)
    BY DEF ReadyToFinish
  <2>6. Agree(cfg.gateway, GatewayIn(new.gateway, env), k)
    BY <2>4, <2>5, AgreeBoth
  <2> QED BY <1>7, <2>6, AgreeIsNotDiffers DEF SectionsAsRestarted
<1>10. "auth.method" \in skip \/ ~Differs(Section(c, "auth"), Section(o, "auth"), "method")
  <2>1. SUFFICES ASSUME "auth.method" \notin Pinned(cfg, new)
                 PROVE  ~Differs(Section(c, "auth"), Section(o, "auth"), "method")
    BY <1>1
  <2>2. ~Differs(Section(new, "auth"), Section(cfg, "auth"), "method")
    BY <2>1 DEF Pinned
  <2>3. Agree(Section(cfg, "auth"), Section(new, "auth"), "method")
    BY <2>2, AgreeIsNotDiffers, AgreeBoth
  <2> QED BY <1>7, <2>3, AgreeIsNotDiffers DEF SectionsAsRestarted
<1>11. \A k \in {"acl", "guardrails"} : ~Differs(c, o, k)
  BY <1>7, AgreeIsNotDiffers DEF SectionsAsRestarted
<1>12. ~Given(env, "CONDUIT_REDIS_URL") => ~Differs(c, o, "rate_limits")
  BY <1>7, AgreeIsNotDiffers DEF SectionsAsRestarted
<1>13. /\ ~Given(env, "CONDUIT_GOVERNANCE_DB_PATH") /\ "governance" \notin skip
            => c.governance = o.governance
       /\ ~Given(env, "CONDUIT_LOG_ARGS")
            => c.observability.log_args = o.observability.log_args
       /\ \A k \in {"log_responses", "redact_fields"} : c.observability[k] = o.observability[k]
  BY <1>1, <1>7 DEF SectionsAsRestarted
<1> HIDE DEF skip
<1>14. /\ \A k \in {"acl", "guardrails"} : ~Differs(config', fresh, k)
       /\ ~Given(env, "CONDUIT_REDIS_URL") => ~Differs(config', fresh, "rate_limits")
       /\ ~Given(env, "CONDUIT_GOVERNANCE_DB_PATH") /\ "governance" \notin answer'.skipped
            => config'.governance = fresh.governance
       /\ ~Given(env, "CONDUIT_LOG_ARGS")
            => config'.observability.log_args = fresh.observability.log_args
       /\ \A k \in {"log_responses", "redact_fields"} :
            config'.observability[k] = fresh.observability[k]
  BY <1>4, <1>5, <1>6, <1>11, <1>12, <1>13
<1>15. Given(raw, "servers") =>
          /\ ServerIds(config') \subseteq ServerIds(fresh)
          /\ reload' = reload => ServerIds(config') = ServerIds(fresh)
          /\ \A id \in ServerIds(config') :
               /\ Find(config', id).cache = Find(fresh, id).cache
               /\ id \in answer'.skipped \/ Find(config', id).url = Find(fresh, id).url
  BY <1>4, <1>5, <1>6, <1>8
<1>16. /\ \A k \in {"port", "host", "tls"} :
            k \in answer'.skipped \/ ~Differs(config'.gateway, fresh.gateway, k)
       /\ "auth.method" \in answer'.skipped
            \/ ~Differs(Section(config', "auth"), Section(fresh, "auth"), "method")
  BY <1>4, <1>5, <1>6, <1>9, <1>10 DEF Fixed
<1> QED BY <1>4, <1>14, <1>15, <1>16 DEF AsRestarted

----------------------------------------------------------------------------
\* ConfigInv is inductive.

\* What a reload read is determined by the file and the servers it got.
LEMMA MergedOwn ==
    ASSUME NEW raw, NEW list
    PROVE  Merged(raw, list) = Merged(raw, Merged(raw, list).servers)
<1> DEFINE m == Merged(raw, list)
           own == m.servers
<1>1. m.servers = Filled(raw, list).servers
  BY MergedParts DEF Defaulted
<1>2. CASE Given(raw, "servers")
  <2>1. \A a, b : Filled(raw, a) = Filled(raw, b)
    BY <1>2 DEF Filled
  <2>2. PICK b : b = own
    OBVIOUS
  <2>3. Filled(raw, list) = Filled(raw, b)
    BY <2>1
  <2>4. Merged(raw, list) = Merged(raw, b)
    BY <2>3 DEF Merged
  <2> QED BY <2>2, <2>4
<1>3. CASE ~Given(raw, "servers")
  <2>1. Filled(raw, list).servers = list
    BY <1>3 DEF Filled
  <2> QED BY <1>1, <2>1
<1> QED BY <1>2, <1>3

\* The servers of a file are a list once normalised.
LEMMA MergedListed ==
    ASSUME NEW raw, NEW list, Listed(list), Given(raw, "servers") => IsList(raw.servers)
    PROVE  Listed(Merged(raw, list).servers)
<1>1. Merged(raw, list).servers = Filled(raw, list).servers
  BY MergedParts DEF Defaulted
<1>2. CASE ~Given(raw, "servers")
  BY <1>1, <1>2 DEF Filled
<1>3. CASE Given(raw, "servers")
  <2> DEFINE q == raw.servers
             p == [i \in DOMAIN q |-> Server(q[i])]
             S == {Server(q[i]) : i \in DOMAIN q}
  <2>1. Merged(raw, list).servers = p
    BY <1>1, <1>3 DEF Filled, MapSeq
  <2>2. q \in Seq({q[i] : i \in DOMAIN q})
    BY <1>3 DEF IsList
  <2>3. Len(q) \in Nat /\ DOMAIN q = 1..Len(q)
    BY <2>2
  <2>4. \A s \in S : Fielded(s)
    BY ServerFielded
  <2>5. p \in [1..Len(q) -> S]
    BY <2>3
  <2> HIDE DEF p, S
  <2>6. p \in Seq(S)
    BY <2>3, <2>5
  <2>7. Listed(p)
    BY <2>4, <2>6, ListedIf
  <2> QED BY <2>1, <2>7
<1> QED BY <1>2, <1>3

\* No servers are a list of servers.
LEMMA NothingListed == Listed(<<>>)
<1> DEFINE S == {}
<1>1. <<>> \in Seq(S) /\ \A s \in S : Fielded(s)
  OBVIOUS
<1> HIDE DEF S
<1>2. PICK q : q = <<>>
  OBVIOUS
<1>3. Listed(q)
  BY <1>1, <1>2, ListedIf
<1> QED BY <1>2, <1>3

\* ConfigInv holds before the first start.
LEMMA ConfigInitInv ==
    ASSUME ConfigInit
    PROVE  ConfigInv
<1>1. SoundInv
  BY SoundInit
<1>2. ~Up /\ \A w \in Reloads : reload[w].at = "idle"
  BY NoReloadIdle DEF ConfigInit, Up
<1>3. Listed(defaults) /\ file \in Files
  BY NothingListed DEF ConfigInit
<1> QED BY <1>1, <1>2, <1>3 DEF ConfigInv, Lists, ReadFromFile, EnvironmentKept

\* The last turn of a reload.
LEMMA FinishInv ==
    ASSUME ConfigInv, NEW w \in Reloads, NEW r, NEW cfg, ReadyToFinish(r, cfg),
           Finish(w, r, cfg), UNCHANGED <<file, env>>, Listed(defaults')
    PROVE  Lists' /\ ReadFromFile' /\ EnvironmentKept'
<1>1. PICK new : new = r.new
  OBVIOUS
<1>2. Shaped(cfg) /\ Shaped(new) /\ Listed(cfg.servers) /\ config' = Applied(cfg, new)
  BY <1>1 DEF ReadyToFinish, Fit, Finish
<1>3. LeavesServers(config', cfg, new)
  BY <1>2, AppliedServers
<1>4. \A v \in Reloads : v # w => reload'[v] = reload[v]
  BY DEF Finish, ConfigInv, SoundInv, Adding
<1>5. reload'[w].at = "idle"
  BY NoReloadIdle DEF Finish, ConfigInv, SoundInv, Adding
<1>6. Lists'
  <2>1. ~shared' /\ Listed(config'.servers)
    BY <1>3 DEF Finish, LeavesServers
  <2> QED BY <1>4, <1>5, <2>1 DEF ConfigInv, Lists
<1>7. ReadFromFile'
  BY <1>4, <1>5 DEF ConfigInv, ReadFromFile
<1>8. EnvironmentKept'
  <2>1. config'.gateway = cfg.gateway
    <3>1. TakenFrom(Sections(cfg, new), cfg, new)
      BY <1>2, SectionsParts
    <3>2. "gateway" \in DOMAIN Sections(cfg, new) /\ Sections(cfg, new).gateway = cfg.gateway
      BY <3>1 DEF TakenFrom, Defaulted
    <3> QED BY <1>2, <3>2, AppliedParts
  <2> QED BY <2>1 DEF ReadyToFinish, EnvironmentKept
<1> QED BY <1>6, <1>7, <1>8

\* A change of the servers that runs to the defaults' list where that is shared.
LEMMA ChangedServers ==
    ASSUME ConfigInv, Up, NEW s, Listed(s), config' = [config EXCEPT !.servers = s],
           defaults' = IF shared THEN s ELSE defaults,
           UNCHANGED <<file, env, shared, reload>>
    PROVE  Lists' /\ ReadFromFile' /\ EnvironmentKept'
<1>1. Shaped(config)
  BY DEF ConfigInv, SoundInv, Running, Fit
<1>2. config'.servers = s /\ config'.gateway = config.gateway
  BY <1>1, ServersOnly DEF Defaulted
<1>3. Listed(defaults')
  BY DEF ConfigInv, Lists
<1>4. Lists'
  BY <1>2, <1>3 DEF ConfigInv, Lists
<1>5. ReadFromFile'
  BY DEF ConfigInv, ReadFromFile
<1>6. EnvironmentKept'
  BY <1>2 DEF ConfigInv, EnvironmentKept
<1> QED BY <1>4, <1>5, <1>6

\* A start: the environment is put over the file once, which is for good.
LEMMA StartInv ==
    ASSUME ConfigInv, Start
    PROVE  Lists' /\ ReadFromFile' /\ EnvironmentKept'
<1>1. \A w \in Reloads : reload[w].at # "adding"
  BY DEF Start, ConfigInv, SoundInv, Adding
<1>2. UNCHANGED <<file, env, reload>> /\ defaults' = <<>>
  BY DEF Start
<1>3. ReadFromFile'
  BY <1>1, <1>2 DEF ConfigInv, ReadFromFile
<1>4. Listed(defaults')
  BY <1>2, NothingListed
<1>5. CASE ~Starts(file)
  <2>1. ~Up'
    BY <1>5 DEF Start, Up
  <2> QED BY <1>1, <1>2, <1>3, <1>4, <2>1 DEF Lists, EnvironmentKept
<1>6. CASE Starts(file)
  <2> DEFINE raw == Content(file)
             m == Merged(raw, <<>>)
  <2>1. config' = Overridden(m, env) /\ shared' = ~Given(raw, "servers")
    BY <1>6 DEF Start, Loaded
  <2>2. Shaped(m)
    BY MergedShaped
  <2>3. Given(raw, "servers") => IsList(raw.servers)
    <3>1. CASE file = Absent
      <4>1. raw = <<>> /\ DOMAIN <<>> = {}
        BY <3>1 DEF Content
      <4> QED BY <4>1 DEF Given
    <3>2. CASE file # Absent
      <4>1. raw = file /\ file \in Files \ {Broken, Absent}
        BY <1>6, <3>2 DEF Content, Starts, ConfigInv, ReadFromFile
      <4> QED BY <4>1, ConfigAssumption
    <3> QED BY <3>1, <3>2
  <2>4. Listed(m.servers) /\ (~Given(raw, "servers") => m.servers = <<>>)
    <3>1. Listed(m.servers)
      BY <2>3, NothingListed, MergedListed
    <3>2. m.servers = Filled(raw, <<>>).servers
      BY MergedParts DEF Defaulted
    <3>3. ~Given(raw, "servers") => Filled(raw, <<>>).servers = <<>>
      BY DEF Filled
    <3> QED BY <3>1, <3>2, <3>3
  <2> HIDE DEF m, raw
  <2>5. PICK e : e = env
    OBVIOUS
  <2>6. OverriddenFrom(config', m, e)
    BY <2>1, <2>2, <2>5, OverriddenParts
  <2>7. config'.servers = m.servers
    <3>1. "servers" \in DOMAIN m
      BY <2>2 DEF Shaped, Defaulted
    <3>2. Agree(config', m, "servers")
      BY <2>6 DEF OverriddenFrom
    <3> QED BY <3>1, <3>2 DEF Agree, Given
  <2>8. config'.gateway = GatewayIn(m.gateway, e)
    BY <2>6 DEF OverriddenFrom
  <2>9. \A k \in Fixed : Agree(GatewayIn(config'.gateway, e), config'.gateway, k)
    BY <2>8, GatewayTwice
  <2>10. EnvironmentKept'
    BY <1>2, <2>5, <2>9 DEF EnvironmentKept
  <2>11. Lists'
    BY <1>1, <1>2, <1>4, <2>1, <2>4, <2>7 DEF Lists
  <2> QED BY <1>3, <2>10, <2>11
<1> QED BY <1>5, <1>6

\* POST /servers appends an entry.
LEMMA PostInv ==
    ASSUME ConfigInv, Post
    PROVE  Lists' /\ ReadFromFile' /\ EnvironmentKept'
<1>1. PICK s \in Posted :
        /\ config' = [config EXCEPT !.servers = Append(@, s)]
        /\ defaults' = IF shared THEN Append(defaults, s) ELSE defaults
  BY DEF Post
<1>2. Up /\ UNCHANGED <<file, env, shared, reload>>
  BY DEF Post
<1>3. Fielded(s)
  BY ConfigAssumption DEF Fielded
<1>4. PICK q : q = Append(config.servers, s)
  OBVIOUS
<1>5. Listed(q)
  BY <1>2, <1>3, <1>4, ListedAppend DEF ConfigInv, Lists
<1>6. config' = [config EXCEPT !.servers = q]
  BY <1>1, <1>4
<1>7. defaults' = IF shared THEN q ELSE defaults
  BY <1>1, <1>2, <1>4 DEF ConfigInv, Lists
<1> QED BY <1>2, <1>5, <1>6, <1>7, ChangedServers

\* DELETE /servers/:id cuts the first entry of the id out.
LEMMA DeleteInv ==
    ASSUME ConfigInv, Delete
    PROVE  Lists' /\ ReadFromFile' /\ EnvironmentKept'
<1> DEFINE CutAt(s, id) == CHOOSE i \in DOMAIN s : /\ s[i].id = id
                                               /\ \A j \in 1..i - 1 : s[j].id # id
           Cut(s, id) == SubSeq(s, 1, CutAt(s, id) - 1) \o SubSeq(s, CutAt(s, id) + 1, Len(s))
<1>1. Up /\ UNCHANGED <<file, env, shared, reload>>
  BY DEF Delete
<1>2. PICK id \in ServerIds(config) :
        /\ config' = [config EXCEPT !.servers = Cut(@, id)]
        /\ defaults' = IF shared THEN Cut(defaults, id) ELSE defaults
  BY DEF Delete
<1>3. PICK s : s = config.servers
  OBVIOUS
<1>4. Listed(s)
  BY <1>1, <1>3 DEF ConfigInv, Lists
<1>5. \E i \in DOMAIN s : s[i].id = id /\ \A j \in 1..i - 1 : s[j].id # id
  <2>1. PICK m \in DOMAIN s : s[m].id = id
    BY <1>3 DEF ServerIds
  <2>2. PICK i : FirstAt(s, id, i)
    BY <1>4, <2>1, FirstExists
  <2>3. DOMAIN s = 1..Len(s) /\ Len(s) \in Nat /\ i \in DOMAIN s /\ s[i].id = id
    BY <1>4, <2>2, ListedThen DEF FirstAt
  <2>4. \A j \in 1..i - 1 : j \in DOMAIN s /\ ~(i <= j)
    BY <2>3
  <2>5. \A j \in 1..i - 1 : s[j].id # id
    BY <2>2, <2>4 DEF FirstAt
  <2> QED BY <2>3, <2>5
<1>6. PICK i : i = CutAt(s, id)
  OBVIOUS
<1>7. i \in DOMAIN s
  BY <1>5, <1>6
<1>8. PICK q : q = Cut(s, id)
  OBVIOUS
<1>9. Listed(q)
  BY <1>4, <1>6, <1>7, <1>8, ListedCut
<1>10. config' = [config EXCEPT !.servers = q]
  BY <1>2, <1>3, <1>8
<1>11. defaults' = IF shared THEN q ELSE defaults
  <2>1. CASE ~shared
    BY <1>2, <2>1
  <2>2. CASE shared
    <3>1. defaults = s
      BY <1>1, <1>3, <2>2 DEF ConfigInv, Lists
    <3>2. defaults' = Cut(defaults, id)
      BY <1>2, <2>2
    <3> HIDE DEF Cut, CutAt
    <3> QED BY <1>8, <2>2, <3>1, <3>2
  <2> QED BY <2>1, <2>2
<1> QED BY <1>1, <1>9, <1>10, <1>11, ChangedServers

\* A reload begins: its file is refused, or applied at once, or has servers to add.
LEMMA BeginInv ==
    ASSUME ConfigInv, NEW w \in Reloads, BeginReload(w)
    PROVE  /\ Lists' /\ ReadFromFile' /\ EnvironmentKept'
           /\ answer'.errors = {} => AsRestarted
<1>1. Up /\ UNCHANGED <<file, env, defaults>> /\ reload[w].at = "idle"
  BY DEF BeginReload
<1>2. Fit(config) /\ Listed(config.servers) /\ Listed(defaults) /\ file \in Files
  BY <1>1 DEF ConfigInv, SoundInv, Running, Lists, ReadFromFile
<1>3. PICK new : new = Merged(file, defaults)
  OBVIOUS
<1>4. PICK cfg : cfg = config
  OBVIOUS
<1>5. PICK r : r = [at |-> "adding", read |-> file, new |-> new,
                    todo |-> Missing(cfg, new), errors |-> {}]
  OBVIOUS
<1>6. CASE file \in Unread \/ ~Valid(new)
  <2>1. answer' = Refused /\ UNCHANGED <<config, shared, reload>>
    BY <1>3, <1>6 DEF BeginReload
  <2>2. answer'.errors # {}
    BY <2>1 DEF Refused
  <2>3. Lists' /\ ReadFromFile' /\ EnvironmentKept'
    BY <1>1, <2>1 DEF ConfigInv, Lists, ReadFromFile, EnvironmentKept, Up
  <2> QED BY <2>2, <2>3
<1>7. CASE file \notin Unread /\ Valid(new)
  <2>1. IF r.todo = <<>> THEN Finish(w, r, cfg)
        ELSE /\ reload' = [reload EXCEPT ![w] = r] /\ answer' = NoAnswer
             /\ UNCHANGED <<config, shared>>
    BY <1>3, <1>4, <1>5, <1>7 DEF BeginReload
  <2>2. Fit(new)
    BY <1>3, <1>7, MergedShaped DEF Valid, Fit
  <2>3. file \in Files \ Unread /\ (Given(file, "servers") => IsList(file.servers))
    BY <1>2, <1>7, ConfigAssumption DEF Unread
  <2>4. Listed(new.servers)
    <3>1. PICK f, d : f = file /\ d = defaults
      OBVIOUS
    <3> QED BY <1>2, <1>3, <2>3, <3>1, MergedListed
  <2>5. new = Merged(file, new.servers)
    <3>1. PICK f, d : f = file /\ d = defaults
      OBVIOUS
    <3> QED BY <1>3, <3>1, MergedOwn
  <2>6. /\ r.read = file /\ r.new = new /\ r.errors = {} /\ r.todo = Missing(cfg, new)
    BY <1>5
  <2>7. CASE r.todo = <<>>
    <3>1. Finish(w, r, cfg)
      BY <2>1, <2>7
    <3>2. ReadyToFinish(r, cfg)
      BY <1>1, <1>2, <1>4, <2>2, <2>3, <2>4, <2>5, <2>6
         DEF ReadyToFinish, ConfigInv, EnvironmentKept
    <3>3. Lists' /\ ReadFromFile' /\ EnvironmentKept'
      BY <1>1, <1>2, <3>1, <3>2, FinishInv
    <3>4. AsRestarted
      BY <2>6, <2>7, <3>1, <3>2, FinishRestart
    <3> QED BY <3>3, <3>4
  <2>8. CASE r.todo # <<>>
    <3>1. /\ reload' = [reload EXCEPT ![w] = r] /\ answer' = NoAnswer
          /\ UNCHANGED <<config, shared>>
      BY <2>1, <2>8
    <3>2. answer'.errors # {}
      BY <3>1 DEF NoAnswer
    <3>3. reload'[w] = r /\ \A v \in Reloads : v # w => reload'[v] = reload[v]
      BY <3>1 DEF ConfigInv, SoundInv, Adding
    <3>4. Listed(r.todo)
      BY <2>4, <2>6, MissingListed
    <3>5. Lists'
      BY <1>1, <2>4, <2>6, <2>8, <3>1, <3>3, <3>4 DEF ConfigInv, Lists, Up
    <3>6. ReadFromFile'
      BY <1>1, <2>3, <2>5, <2>6, <3>3 DEF ConfigInv, ReadFromFile
    <3>7. EnvironmentKept'
      BY <1>1, <3>1 DEF ConfigInv, EnvironmentKept, Up
    <3> QED BY <3>2, <3>5, <3>6, <3>7
  <2> QED BY <2>7, <2>8
<1> QED BY <1>6, <1>7

\* One server of a reload was added or failed; the last one ends it.
LEMMA ConnectedInv ==
    ASSUME ConfigInv, NEW w \in Reloads, Connected(w)
    PROVE  /\ Lists' /\ ReadFromFile' /\ EnvironmentKept'
           /\ answer'.errors = {} => AsRestarted
<1>1. PICK r : r = reload[w]
  OBVIOUS
<1>2. /\ Up /\ r.at = "adding" /\ DOMAIN r = Progress
      /\ Fit(r.new) /\ Listed(r.new.servers)
      /\ Listed(r.todo) /\ r.todo # <<>>
      /\ r.read \in Files \ Unread /\ r.new = Merged(r.read, r.new.servers)
  BY <1>1 DEF Connected, ConfigInv, SoundInv, Adding, Lists, ReadFromFile
<1>3. UNCHANGED <<file, env>>
  BY DEF Connected
<1>4. PICK s : s = Head(r.todo)
  OBVIOUS
<1>5. PICK ok \in BOOLEAN :
        LET cfg == IF ok THEN [config EXCEPT !.servers = Append(@, s)] ELSE config
            on  == [r EXCEPT !.todo = Tail(@), !.errors = IF ok THEN @ ELSE @ \cup {s.id}]
        IN  /\ defaults' = IF shared /\ ok THEN Append(defaults, s) ELSE defaults
            /\ IF on.todo = <<>> THEN Finish(w, on, cfg)
               ELSE /\ config' = cfg /\ reload' = [reload EXCEPT ![w] = on]
                    /\ answer' = NoAnswer /\ UNCHANGED shared
  BY <1>1, <1>4 DEF Connected
<1>6. PICK q : q = IF ok THEN Append(config.servers, s) ELSE config.servers
  OBVIOUS
<1>7. PICK cfg : cfg = IF ok THEN [config EXCEPT !.servers = Append(@, s)] ELSE config
  OBVIOUS
<1>8. PICK on : on = [r EXCEPT !.todo = Tail(@), !.errors = IF ok THEN @ ELSE @ \cup {s.id}]
  OBVIOUS
<1>9. /\ defaults' = IF shared /\ ok THEN Append(defaults, s) ELSE defaults
      /\ IF on.todo = <<>> THEN Finish(w, on, cfg)
         ELSE /\ config' = cfg /\ reload' = [reload EXCEPT ![w] = on]
              /\ answer' = NoAnswer /\ UNCHANGED shared
  BY <1>5, <1>7, <1>8
<1>10. Listed(Tail(r.todo)) /\ Fielded(s)
  BY <1>2, <1>4, ListedTail
<1>11. Fit(config) /\ Listed(config.servers) /\ Listed(defaults)
       /\ (shared => defaults = config.servers)
  BY <1>2 DEF ConfigInv, SoundInv, Running, Lists
<1>12. Listed(q) /\ Listed(defaults') /\ (shared => defaults' = q)
  <2>1. Listed(Append(config.servers, s))
    <3>1. PICK c : c = config.servers
      OBVIOUS
    <3> QED BY <1>10, <1>11, <3>1, ListedAppend
  <2>2. Listed(q)
    BY <1>6, <1>11, <2>1
  <2>3. shared => defaults' = q
    BY <1>6, <1>9, <1>11
  <2>4. ~shared => defaults' = defaults
    BY <1>9
  <2> QED BY <1>11, <2>2, <2>3, <2>4
<1>13. /\ cfg.servers = q /\ cfg.gateway = config.gateway /\ Fit(cfg)
  <2>1. CASE ok
    <3>1. cfg = [config EXCEPT !.servers = q]
      BY <1>6, <1>7, <2>1
    <3>2. PICK c : c = config
      OBVIOUS
    <3>3. Shaped(c) /\ SoundSections(c) /\ cfg = [c EXCEPT !.servers = q]
      BY <1>11, <3>1, <3>2 DEF Fit
    <3>4. cfg.servers = q /\ cfg.gateway = c.gateway
      BY <3>3, ServersOnly DEF Defaulted
    <3>5. Fit(cfg)
      BY <1>11, <3>2, <3>3, ServersOnlyFit
    <3> QED BY <3>2, <3>4, <3>5
  <2>2. CASE ~ok
    BY <1>6, <1>7, <1>11, <2>2
  <2> QED BY <2>1, <2>2
<1>14. /\ on.at = "adding" /\ on.new = r.new /\ on.read = r.read /\ on.todo = Tail(r.todo)
  BY <1>2, <1>8 DEF Progress
<1>15. CASE on.todo = <<>>
  <2>1. Finish(w, on, cfg)
    BY <1>9, <1>15
  <2>2. ReadyToFinish(on, cfg)
    BY <1>2, <1>12, <1>13, <1>14 DEF ReadyToFinish, ConfigInv, EnvironmentKept
  <2>3. Lists' /\ ReadFromFile' /\ EnvironmentKept'
    BY <1>3, <1>12, <2>1, <2>2, FinishInv
  <2>4. reload' # reload
    <3>1. reload'[w].at = "idle"
      BY <2>1, NoReloadIdle DEF Finish, ConfigInv, SoundInv, Adding
    <3> QED BY <1>1, <1>2, <3>1
  <2>5. AsRestarted
    BY <2>1, <2>2, <2>4, FinishRestart
  <2> QED BY <2>3, <2>5
<1>16. CASE on.todo # <<>>
  <2>1. /\ config' = cfg /\ reload' = [reload EXCEPT ![w] = on]
        /\ answer' = NoAnswer /\ UNCHANGED shared
    BY <1>9, <1>16
  <2>2. answer'.errors # {}
    BY <2>1 DEF NoAnswer
  <2>3. reload'[w] = on /\ \A v \in Reloads : v # w => reload'[v] = reload[v]
    BY <2>1 DEF ConfigInv, SoundInv, Adding
  <2>4. Lists'
    BY <1>2, <1>10, <1>12, <1>13, <1>14, <1>16, <2>1, <2>3 DEF ConfigInv, Lists
  <2>5. ReadFromFile'
    BY <1>2, <1>3, <1>14, <2>3 DEF ConfigInv, ReadFromFile
  <2>6. EnvironmentKept'
    BY <1>2, <1>3, <1>13, <2>1 DEF ConfigInv, EnvironmentKept
  <2> QED BY <2>2, <2>4, <2>5, <2>6
<1> QED BY <1>15, <1>16

\* No step breaks ConfigInv, and none that reports no error leaves less than a
\* restart would.
LEMMA ConfigStep ==
    ASSUME ConfigInv, [ConfigNext]_configVars
    PROVE  /\ ConfigInv'
           /\ [answer'.errors = {} => AsRestarted]_configVars
<1> DEFINE Others == Lists' /\ ReadFromFile' /\ EnvironmentKept'
           Step == answer'.errors = {} => AsRestarted
<1>1. SoundInv'
  BY SoundStep DEF ConfigInv
<1>2. answer' = NoAnswer => Step
  BY DEF NoAnswer
<1>3. CASE Edit
  <2>1. Others
    BY <1>3 DEF Edit, ConfigInv, Lists, ReadFromFile, EnvironmentKept, Up
  <2>2. answer' = NoAnswer
    BY <1>3 DEF Edit
  <2> QED BY <1>1, <1>2, <2>1, <2>2 DEF ConfigInv
<1>4. CASE Start
  <2>1. answer' = NoAnswer
    BY <1>4 DEF Start
  <2> QED BY <1>1, <1>2, <1>4, <2>1, StartInv DEF ConfigInv
<1>5. CASE Shutdown
  <2>1. ~Up' /\ \A w \in Reloads : reload'[w].at = "idle"
    BY <1>5, NoReloadIdle DEF Shutdown, Up
  <2>2. Listed(defaults') /\ UNCHANGED file /\ answer' = NoAnswer
    BY <1>5, NothingListed DEF Shutdown
  <2>3. Others
    BY <2>1, <2>2 DEF ConfigInv, Lists, ReadFromFile, EnvironmentKept
  <2> QED BY <1>1, <1>2, <2>2, <2>3 DEF ConfigInv
<1>6. CASE Post
  <2>1. answer' = NoAnswer
    BY <1>6 DEF Post
  <2> QED BY <1>1, <1>2, <1>6, <2>1, PostInv DEF ConfigInv
<1>7. CASE Delete
  <2>1. answer' = NoAnswer
    BY <1>7 DEF Delete
  <2> QED BY <1>1, <1>2, <1>7, <2>1, DeleteInv DEF ConfigInv
<1>8. CASE \E w \in Reloads : BeginReload(w)
  BY <1>1, <1>8, BeginInv DEF ConfigInv
<1>9. CASE \E w \in Reloads : Connected(w)
  BY <1>1, <1>9, ConnectedInv DEF ConfigInv
<1>10. CASE UNCHANGED configVars
  <2>1. Others
    BY <1>10 DEF configVars, ConfigInv, Lists, ReadFromFile, EnvironmentKept, Up
  <2> QED BY <1>1, <1>10, <2>1 DEF ConfigInv
<1> QED BY <1>3, <1>4, <1>5, <1>6, <1>7, <1>8, <1>9, <1>10 DEF ConfigNext

\* The lists of servers stay lists and shared ones equal, a reload applies the
\* file it read, and the gateway section keeps what the environment says of it
\* (gateway.ts reload, routes.ts servers, loader.ts applyEnvOverrides).
THEOREM ConfigInvariance == ConfigSpec => []ConfigInv
<1>1. ConfigInit => ConfigInv
  BY ConfigInitInv
<1>2. ConfigInv /\ [ConfigNext]_configVars => ConfigInv'
  BY ConfigStep
<1> QED BY <1>1, <1>2, PTL DEF ConfigSpec

\* A reload that reports no error leaves the sections it can change, the logging
\* switches and the servers as a restart on the file it read would, and lists
\* what it could not change, but for what the environment sets (gateway.ts:319-448
\* against loader.ts:30-62).
THEOREM ReloadsMatchRestart == ConfigSpec => ReloadMatchesRestart
<1>1. ConfigInv /\ [ConfigNext]_configVars => [answer'.errors = {} => AsRestarted]_configVars
  BY ConfigStep
<1> QED BY <1>1, ConfigInvariance, PTL DEF ConfigSpec, ReloadMatchesRestart
=============================================================================
