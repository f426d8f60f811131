------------------------ MODULE ManagedRuntimeProofs ------------------------
(***************************************************************************)
(* Proofs about ManagedRuntime: for any releases, any number of admin      *)
(* requests in progress and any length of config.servers.                  *)
(*                                                                         *)
(* Every configuration that is kept, by the registry, by config.servers or *)
(* by a request that waits, is Sound(file).  That holds however requests         *)
(* overlap.  What the registry, the process and config.servers say of each *)
(* other is known only while nothing overlaps: Alone follows the one       *)
(* request there is from its body to its gate.                             *)
(***************************************************************************)
EXTENDS ManagedRuntime, TLAPS

\* The configurations a gateway with file f may keep.
Sound(f) == {cfg \in Config : Consistent(f) => Consistent(cfg)}

Live(f) == [cfg : Sound(f), runs : Release \union {None}, ok : BOOLEAN]

Phases == {"idle", "body", "deploy", "import", "restore"}

Requests(f) == [at : Phases, prev : {None} \union Sound(f), next : {None} \union Sound(f),
             holds : BOOLEAN]

Typed ==
    /\ file \in Config
    /\ live \in {None} \union Live(file)
    /\ listed \in Seq(Sound(file))
    /\ request \in [Request -> Requests(file)]
    /\ vouched \subseteq Release
    /\ overlapped \in BOOLEAN

\* What request q has in its hands at each await.
Holding(q) ==
    /\ request[q].holds => live # None /\ request[q].at # "idle"
    /\ request[q].at = "body" /\ ~request[q].holds => request[q].prev # None
    /\ request[q].at = "deploy" => request[q].prev # None /\ request[q].next # None
    /\ request[q].at = "import" => request[q].next # None
    /\ request[q].at = "restore" => request[q].prev # None

Backed(cfg) == cfg.gate = "rollback" => Claimed(cfg) \subseteq vouched

Settled ==
    IF live = None THEN listed = <<>>
    ELSE /\ live.runs = Runs(live.cfg) /\ listed = <<live.cfg>>
         /\ Backed(live.cfg)

\* The process of cfg has been started and its entry is not listed yet.
Underway(cfg) == live.cfg = cfg /\ live.runs = Runs(cfg) /\ listed = <<>>

Alone ==
    ~overlapped =>
        /\ \A p, q \in InProgress : p = q
        /\ InProgress = {} => Settled
        /\ \A q \in InProgress :
              /\ request[q].holds
              /\ request[q].at = "body" => Settled
              /\ request[q].at = "deploy" =>
                    Underway(request[q].next) /\ Backed(request[q].prev)
              /\ request[q].at = "import" =>
                    Underway(request[q].next) /\ Backed(request[q].next)
              /\ request[q].at = "restore" =>
                    Underway(request[q].prev) /\ Backed(request[q].prev)

IInv == Typed /\ (\A q \in Request : Holding(q)) /\ Alone

----------------------------------------------------------------------------
(* Configurations.                                                         *)

LEMMA ImportedIsSound ==
  ASSUME NEW f, NEW r \in Release
  PROVE  /\ Imported(r) \in Sound(f)
         /\ Claimed(Imported(r)) = {r}
  BY ManagedRuntimeAssumption
     DEF Imported, Sound, Consistent, Config, Statuses, Targets, Claimed

LEMMA RolledOutIsSound ==
  ASSUME NEW f, NEW cfg \in Sound(f), NEW r \in Release \ Known(cfg)
  PROVE  RolledOut(cfg, r) \in Sound(f)
  <1> DEFINE to == RolledOut(cfg, r)
             left == Set(cfg, cfg.active, LeftAs(cfg))
  <1>1. cfg \in Config /\ cfg # None
    BY ManagedRuntimeAssumption DEF Sound
  <1>2. cfg.active # r /\ cfg.status[r] = "none"
    BY <1>1, ManagedRuntimeAssumption DEF Known, Claimed, Targets, Config
  <1>3. \A x \in Release :
          left[x] = IF x = cfg.active /\ cfg.status[x] # "none" THEN LeftAs(cfg)
                    ELSE cfg.status[x]
    BY <1>1 DEF Set, Config
  <1>4. /\ left \in [Release -> Statuses]
        /\ LeftAs(cfg) # "none" \/ cfg.status[cfg.active] = "none"
    BY <1>1 DEF Set, LeftAs, Config, Statuses
  <1> HIDE DEF left
  <1>5. /\ to = [cfg EXCEPT !.active = r, !.status = [left EXCEPT ![r] = "candidate"]]
    BY DEF RolledOut, left
  <1> HIDE DEF to
  <1>6. to \in Config
    BY <1>1, <1>4, <1>5 DEF Config, Statuses
  <1>7. to.active = r /\ to.last = cfg.last /\ to.status[r] = "candidate"
        /\ \A x \in Release \ {r} : to.status[x] = left[x]
    BY <1>1, <1>4, <1>5 DEF Config, Statuses
  <1>8. ASSUME Consistent(cfg) PROVE Consistent(to)
    <2>1. cfg.last \in Release /\ cfg.last # r
      BY <1>2, <1>8 DEF Consistent, Targets
    <2>2. to.last \in Targets(to) /\ r \in Targets(to)
      BY <1>3, <1>4, <1>7, <1>8, <2>1 DEF Consistent, Targets
    <2>3. ASSUME NEW x \in Release PROVE to.status[x] # "active"
      <3>1. LeftAs(cfg) # "active"
        BY <1>1, <1>8 DEF Consistent, Config, LeftAs
      <3>2. CASE x = r
        BY <1>7, <3>2
      <3>3. CASE x # r
        BY <1>3, <1>7, <1>8, <3>1, <3>3 DEF Consistent
      <3> QED
        BY <3>2, <3>3
    <2> QED
      BY <1>7, <2>2, <2>3 DEF Consistent
  <1> QED
    BY <1>6, <1>8 DEF Sound, to

LEMMA RolledBackIsSound ==
  ASSUME NEW f, NEW cfg \in Sound(f), NEW r \in Targets(cfg)
  PROVE  RolledBack(cfg, r) \in Sound(f)
  <1> DEFINE to == RolledBack(cfg, r)
             back == Set(cfg, cfg.active, "rolled_back")
             status == IF r = cfg.active THEN back ELSE [back EXCEPT ![r] = "active"]
  <1>1. cfg \in Config /\ r \in Release /\ cfg.status[r] # "none"
    BY DEF Sound, Targets
  <1>2. /\ back \in [Release -> Statuses]
        /\ \A x \in Release :
              back[x] = IF x = cfg.active /\ cfg.status[x] # "none" THEN "rolled_back"
                        ELSE cfg.status[x]
    BY <1>1 DEF Set, Config, Statuses
  <1>3. to = [cfg EXCEPT !.active = r, !.last = r, !.status = status]
    BY DEF RolledBack
  <1> HIDE DEF back
  <1>4. /\ status \in [Release -> Statuses] /\ status[r] # "none"
        /\ \A x \in Release :
              status[x] = "active" => x = r \/ (cfg.status[x] = "active" /\ x # cfg.active)
    <2>1. CASE r = cfg.active
      BY <1>1, <1>2, <2>1 DEF Statuses
    <2>2. CASE r # cfg.active
      <3>1. "active" \in Statuses /\ status = [back EXCEPT ![r] = "active"]
        BY <2>2 DEF Statuses
      <3> HIDE DEF status
      <3>2. /\ status \in [Release -> Statuses] /\ status[r] # "none"
            /\ \A x \in Release : x # r => status[x] = back[x]
        BY <1>1, <1>2, <3>1
      <3>3. ASSUME NEW x \in Release, status[x] = "active", x # r
            PROVE  cfg.status[x] = "active" /\ x # cfg.active
        <4>1. back[x] = "active"
          BY <3>2, <3>3
        <4> QED
          BY <1>2, <3>3, <4>1
      <3> QED
        BY <3>2, <3>3
    <2> QED
      BY <2>1, <2>2
  <1> HIDE DEF status, to
  <1>5. to \in Config /\ to.active = r /\ to.last = r /\ to.status = status
    BY <1>1, <1>3, <1>4 DEF Config
  <1>6. Consistent(cfg) => Consistent(to)
    BY <1>4, <1>5 DEF Consistent, Targets
  <1> QED
    BY <1>5, <1>6 DEF Sound, to

LEMMA MarkedHealthyIsSound ==
  ASSUME NEW f, NEW cfg \in Sound(f)
  PROVE  /\ MarkedHealthy(cfg) \in Sound(f)
         /\ Runs(MarkedHealthy(cfg)) = Runs(cfg)
         /\ Claimed(MarkedHealthy(cfg)) = {cfg.active}
         /\ MarkedHealthy(cfg).gate = cfg.gate
  <1> DEFINE to == MarkedHealthy(cfg)
             status == Set(cfg, cfg.active, "active")
  <1>1. cfg \in Config /\ cfg.active # None
    BY ManagedRuntimeAssumption DEF Sound, Config
  <1>2. /\ status \in [Release -> Statuses]
        /\ \A x \in Release :
              status[x] = IF x = cfg.active /\ cfg.status[x] # "none" THEN "active"
                          ELSE cfg.status[x]
    BY <1>1 DEF Set, Config, Statuses
  <1>3. to = [cfg EXCEPT !.last = cfg.active, !.status = status]
    BY DEF MarkedHealthy
  <1> HIDE DEF status, to
  <1>4. /\ to \in Config /\ to.active = cfg.active /\ to.last = cfg.active
        /\ to.status = status /\ to.gate = cfg.gate
    BY <1>1, <1>2, <1>3 DEF Config, Statuses
  <1>5. Targets(to) = Targets(cfg)
    BY <1>2, <1>4 DEF Targets
  <1>6. Consistent(cfg) => Consistent(to)
    BY <1>2, <1>4, <1>5 DEF Consistent
  <1>7. Runs(to) = Runs(cfg) /\ Claimed(to) = {cfg.active}
    BY <1>1, <1>4, <1>5 DEF Runs, Claimed
  <1> QED
    BY <1>4, <1>6, <1>7 DEF Sound, to

LEMMA StartingIsLive ==
  ASSUME NEW f, NEW cfg \in Sound(f)
  PROVE  /\ Starting(cfg) \in Live(f) /\ Starting(cfg) # None
         /\ Starting(cfg).cfg = cfg /\ Starting(cfg).runs = Runs(cfg)
  <1>1. Runs(cfg) \in Release \union {None}
    BY DEF Runs, Sound, Config
  <1>2. Starting(cfg) \in Live(f) /\ Starting(cfg) \in Entry
    BY <1>1 DEF Starting, Live, Sound, Entry
  <1> QED
    BY <1>2, ManagedRuntimeAssumption DEF Starting

LEMMA NothingIsNone ==
  /\ \A f : None \notin Sound(f) /\ None \notin Live(f)
  BY ManagedRuntimeAssumption DEF Sound, Live, Entry

----------------------------------------------------------------------------
(* config.servers.                                                         *)

LEMMA TailTyped ==
  ASSUME NEW S, NEW s \in Seq(S), s # <<>>
  PROVE  Tail(s) \in Seq(S)
  OBVIOUS

LEMMA SplicedTyped ==
  ASSUME Typed
  PROVE  /\ Spliced \in Seq(Sound(file))
         /\ Settled => Spliced = <<>>
  <1>1. Spliced \in Seq(Sound(file))
    BY TailTyped DEF Spliced, Typed
  <1>2. ASSUME Settled PROVE Spliced = <<>>
    <2>1. CASE live = None
      BY <1>2, <2>1 DEF Settled, Spliced
    <2>2. CASE live # None
      <3>1. listed = <<live.cfg>>
        BY <1>2, <2>2 DEF Settled
      <3> QED
        BY <2>2, <3>1 DEF Spliced
    <2> QED
      BY <2>1, <2>2
  <1> QED
    BY <1>1, <1>2

----------------------------------------------------------------------------
(* Requests(file).                                                               *)

\* The requests once the registry's entry has gone, if there was one.
Left == IF live = None THEN request ELSE Orphaned

LEMMA LeftTyped ==
  ASSUME Typed, \A q \in Request : Holding(q)
  PROVE  /\ Left \in [Request -> Requests(file)]
         /\ \A p \in Request :
               /\ Left[p].at = request[p].at /\ ~Left[p].holds
               /\ Left[p].at = "body" => Left[p].prev # None
               /\ Left[p].at = "deploy" => Left[p].prev # None /\ Left[p].next # None
               /\ Left[p].at = "import" => Left[p].next # None
               /\ Left[p].at = "restore" => Left[p].prev # None
  <1> USE NothingIsNone
  <1>1. CASE live = None
    BY <1>1 DEF Left, Typed, Holding, Requests
  <1>2. CASE live # None
    <2>1. live.cfg \in Sound(file)
      BY <1>2 DEF Typed, Live
    <2>2. ASSUME NEW p \in Request
          PROVE  /\ Orphaned[p] \in Requests(file)
                 /\ Orphaned[p].at = request[p].at /\ ~Orphaned[p].holds
                 /\ Orphaned[p].next = request[p].next
                 /\ Orphaned[p].prev = IF request[p].holds /\ request[p].at = "body"
                                         THEN live.cfg ELSE request[p].prev
      <3>1. request[p] \in Requests(file)
        BY DEF Typed
      <3>2. CASE request[p].holds
        BY <2>1, <3>1, <3>2 DEF Orphaned, Requests
      <3>3. CASE ~request[p].holds
        BY <3>1, <3>3 DEF Orphaned, Requests
      <3> QED
        BY <3>2, <3>3
    <2>3. Left = Orphaned
      BY <1>2 DEF Left
    <2>4. Orphaned \in [Request -> Requests(file)]
      BY <2>2 DEF Orphaned
    <2> QED
      BY <2>1, <2>2, <2>3, <2>4 DEF Holding
  <1> QED
    BY <1>1, <1>2

\* The entry is replaced: whatever request q becomes, the others have lost it.
LEMMA ReplacedHolding ==
  ASSUME Typed, \A q \in Request : Holding(q),
         NEW q \in Request, NEW cfg \in Sound(file), NEW new \in Requests(file),
         new.at \in {"deploy", "import", "restore"},
         new.at # "import" => new.prev # None,
         new.at # "restore" => new.next # None,
         live' = Starting(cfg), request' = [Left EXCEPT ![q] = new]
  PROVE  /\ live' \in {None} \union Live(file)
         /\ request' \in [Request -> Requests(file)]
         /\ \A p \in Request : Holding(p)'
         /\ \A p \in Request \ {q} : request'[p].at = request[p].at
         /\ request'[q] = new
  <1>1. live' \in Live(file) /\ live' # None
    BY StartingIsLive
  <1>2. /\ Left \in [Request -> Requests(file)]
        /\ \A p \in Request :
               /\ Left[p].at = request[p].at /\ ~Left[p].holds
               /\ Left[p].at = "body" => Left[p].prev # None
               /\ Left[p].at = "deploy" => Left[p].prev # None /\ Left[p].next # None
               /\ Left[p].at = "import" => Left[p].next # None
               /\ Left[p].at = "restore" => Left[p].prev # None
    BY LeftTyped
  <1>3. request' \in [Request -> Requests(file)]
    BY <1>2
  <1>4. request'[q] = new /\ \A p \in Request \ {q} : request'[p] = Left[p]
    BY <1>2
  <1>5. ASSUME NEW p \in Request PROVE Holding(p)'
    BY <1>1, <1>2, <1>4 DEF Holding
  <1> QED
    BY <1>1, <1>2, <1>3, <1>4, <1>5

\* While nothing overlaps, the request that steps is the only one.
LEMMA OnlyOne ==
  ASSUME Typed, Alone, NEW q \in Request, Touched(q), ~overlapped'
  PROVE  ~overlapped /\ InProgress \subseteq {q}
  BY DEF Typed, Alone, Touched

LEMMA OnlyOneAfter ==
  ASSUME NEW q \in Request, InProgress \subseteq {q},
         \A p \in Request \ {q} : request'[p].at = request[p].at
  PROVE  InProgress' \subseteq {q}
  BY DEF InProgress

----------------------------------------------------------------------------
(* The steps.                                                              *)

LEMMA UpIsLive ==
  ASSUME file \in Config
  PROVE  /\ file \in Sound(file)
         /\ \A ok \in BOOLEAN :
               Up(ok) \in Live(file) /\ Up(ok).cfg = file /\ Up(ok).runs = Runs(file)
  <1>1. file \in Sound(file)
    BY DEF Sound
  <1> QED
    BY <1>1, StartingIsLive DEF Up, Starting, Live

\* Started, or started again: nobody waits, and the entry is the file's.
Fresh ==
    /\ file \in Config
    /\ live \in {Up(ok) : ok \in BOOLEAN} /\ listed = <<file>>
    /\ request = [q \in Request |-> Idle]
    /\ vouched = Claimed(file) /\ overlapped = FALSE

LEMMA FreshHolds == Fresh => IInv
  <1> SUFFICES ASSUME Fresh PROVE IInv
    OBVIOUS
  <1>1. file \in Sound(file) /\ live \in Live(file) /\ live.cfg = file
        /\ live.runs = Runs(file)
    BY UpIsLive DEF Fresh
  <1>2. Idle \in Requests(file) /\ Idle.at = "idle" /\ ~Idle.holds
    BY DEF Idle, Requests, Phases
  <1>3. \A q \in Request : request[q] = Idle
    BY DEF Fresh
  <1>4. Typed
    <2>1. request \in [Request -> Requests(file)]
      BY <1>2 DEF Fresh
    <2>2. listed \in Seq(Sound(file))
      BY <1>1 DEF Fresh
    <2>3. Claimed(file) \subseteq Release
      BY DEF Fresh, Claimed, Config
    <2> QED
      BY <1>1, <2>1, <2>2, <2>3 DEF Typed, Fresh
  <1>5. \A q \in Request : Holding(q)
    BY <1>2, <1>3 DEF Holding
  <1>6. InProgress = {}
    BY <1>2, <1>3 DEF InProgress
  <1>7. Settled
    BY NothingIsNone, <1>1 DEF Settled, Backed, Fresh
  <1> QED
    BY <1>4, <1>5, <1>6, <1>7 DEF IInv, Alone

LEMMA InitHolds == Init => IInv
  <1>1. Init => Fresh
    BY ManagedRuntimeAssumption DEF Init, Fresh
  <1> QED
    BY <1>1, FreshHolds

LEMMA RestartStep == IInv /\ Restart => IInv'
  <1>1. IInv /\ Restart => Fresh'
    BY DEF IInv, Typed, Restart, Fresh, Up
  <1> QED
    BY <1>1, FreshHolds, PTL

LEMMA BeginStep ==
  ASSUME IInv, NEW q \in Request, Begin(q)
  PROVE  IInv'
  <1> DEFINE new == [Idle EXCEPT !.at = "body", !.holds = TRUE]
  <1>1. new \in Requests(file) /\ new.at = "body" /\ new.holds
    BY DEF Idle, Requests, Phases
  <1>2. /\ request[q].at = "idle" /\ live # None
        /\ request' = [request EXCEPT ![q] = new]
        /\ Touched(q)
    BY DEF Begin
  <1>3. UNCHANGED <<file, live, listed, vouched>>
    BY DEF Begin
  <1> HIDE DEF new
  <1>4. Typed /\ Alone /\ \A p \in Request : Holding(p)
    BY DEF IInv
  <1>5. Typed'
    BY <1>1, <1>2, <1>3, <1>4 DEF Typed, Touched
  <1>6. request'[q] = new /\ \A p \in Request \ {q} : request'[p] = request[p]
    BY <1>2, <1>4 DEF Typed
  <1>7. \A p \in Request : Holding(p)'
    BY <1>1, <1>2, <1>3, <1>4, <1>6 DEF Holding
  <1>8. ASSUME ~overlapped'
        PROVE  InProgress' = {q} /\ Settled'
    <2>1. ~overlapped /\ InProgress \subseteq {q}
      BY <1>2, <1>4, <1>8, OnlyOne
    <2>2. InProgress = {}
      BY <1>2, <2>1 DEF InProgress
    <2>3. Settled
      BY <1>4, <2>1, <2>2 DEF Alone
    <2>4. Settled'
      BY <1>3, <2>3 DEF Settled, Backed
    <2> QED
      BY <1>1, <1>6, <2>2, <2>4 DEF InProgress
  <1>9. Alone'
    BY <1>1, <1>6, <1>8 DEF Alone
  <1> QED
    BY <1>5, <1>7, <1>9 DEF IInv

LEMMA BadRequestStep ==
  ASSUME IInv, NEW q \in Request, BadRequest(q)
  PROVE  IInv'
  <1>1. Idle \in Requests(file) /\ Idle.at = "idle" /\ ~Idle.holds
    BY DEF Idle, Requests, Phases
  <1>2. /\ request[q].at = "body" /\ request' = [request EXCEPT ![q] = Idle]
        /\ UNCHANGED <<file, live, listed, vouched, overlapped>>
    BY DEF BadRequest
  <1>3. Typed /\ Alone /\ \A p \in Request : Holding(p)
    BY DEF IInv
  <1>4. Typed'
    BY <1>1, <1>2, <1>3 DEF Typed
  <1>5. request'[q] = Idle /\ \A p \in Request \ {q} : request'[p] = request[p]
    BY <1>2, <1>3 DEF Typed
  <1>6. \A p \in Request : Holding(p)'
    BY <1>1, <1>2, <1>3, <1>5 DEF Holding
  <1>7. ASSUME ~overlapped'
        PROVE  InProgress' = {} /\ Settled'
    <2>1. q \in InProgress /\ ~overlapped
      BY <1>2, <1>7 DEF InProgress
    <2>2. InProgress = {q} /\ Settled
      BY <1>2, <1>3, <2>1 DEF Alone
    <2>3. Settled'
      BY <1>2, <2>2 DEF Settled, Backed
    <2> QED
      BY <1>1, <1>5, <2>2, <2>3 DEF InProgress
  <1>8. Alone'
    BY <1>7 DEF Alone
  <1> QED
    BY <1>4, <1>6, <1>8 DEF IInv

LEMMA DeleteStep == ASSUME IInv, Delete PROVE IInv'
  <1>1. /\ live # None /\ live' = None /\ listed' = Spliced /\ request' = Left
        /\ overlapped' = (overlapped \/ InProgress # {})
        /\ UNCHANGED <<file, vouched>>
    BY DEF Delete, Left
  <1>2. Typed /\ Alone /\ \A p \in Request : Holding(p)
    BY DEF IInv
  <1>3. /\ Left \in [Request -> Requests(file)]
        /\ \A p \in Request :
               /\ Left[p].at = request[p].at /\ ~Left[p].holds
               /\ Left[p].at = "body" => Left[p].prev # None
               /\ Left[p].at = "deploy" => Left[p].prev # None /\ Left[p].next # None
               /\ Left[p].at = "import" => Left[p].next # None
               /\ Left[p].at = "restore" => Left[p].prev # None
    BY <1>2, LeftTyped
  <1>4. Typed'
    BY <1>1, <1>2, <1>3, SplicedTyped DEF Typed
  <1>5. \A p \in Request : Holding(p)'
    BY <1>1, <1>3 DEF Holding
  <1>6. ASSUME ~overlapped'
        PROVE  InProgress' = {} /\ Settled'
    <2>1. InProgress = {} /\ ~overlapped
      BY <1>1, <1>2, <1>6 DEF Typed
    <2>2. Spliced = <<>>
      BY <1>1, <1>2, <2>1, SplicedTyped DEF Alone
    <2> QED
      BY <1>1, <1>3, <2>1, <2>2 DEF InProgress, Settled
  <1> QED
    BY <1>4, <1>5, <1>6 DEF IInv, Alone

LEMMA CheckHealthStep ==
  ASSUME IInv, NEW ok \in BOOLEAN, CheckHealth(ok)
  PROVE  IInv'
  <1>1. /\ live # None /\ live' = [live EXCEPT !.ok = ok]
        /\ UNCHANGED <<file, listed, request, vouched, overlapped>>
    BY DEF CheckHealth
  <1>2. Typed /\ Alone /\ \A p \in Request : Holding(p)
    BY DEF IInv
  <1>3. live' \in Live(file) /\ live'.cfg = live.cfg /\ live'.runs = live.runs /\ live' # None
    BY <1>1, <1>2, NothingIsNone DEF Typed, Live
  <1>4. Typed'
    BY <1>1, <1>2, <1>3 DEF Typed
  <1>5. \A p \in Request : Holding(p)'
    BY <1>1, <1>2, <1>3 DEF Holding
  <1>6. Settled => Settled'
    BY <1>1, <1>3 DEF Settled, Backed
  <1>7. Alone'
    BY <1>1, <1>2, <1>3, <1>6 DEF Alone, InProgress, Underway, Backed
  <1> QED
    BY <1>4, <1>5, <1>7 DEF IInv

\* Rollout and rollback, up to the await of tools/list.
LEMMA DeployStep ==
  ASSUME IInv, NEW q \in Request, request[q].at = "body",
         NEW next \in Sound(file), Deploy(q, next), vouched' \subseteq Release,
         Claimed(Found(q)) \intersect vouched \subseteq vouched'
  PROVE  IInv'
  <1> USE NothingIsNone
  <1>1. Typed /\ Alone /\ \A p \in Request : Holding(p)
    BY DEF IInv
  <1>2. PICK cfg \in Sound(file) : cfg = Found(q)
    BY <1>1 DEF Found, Typed, Holding, Live, Requests
  <1> DEFINE new == [at |-> "deploy", prev |-> cfg, next |-> next, holds |-> TRUE]
  <1>3. /\ new \in Requests(file) /\ new.at = "deploy" /\ new.holds
        /\ new.prev = cfg /\ new.next = next
    BY <1>2 DEF Requests, Phases
  <1>4. /\ live' = Starting(next) /\ listed' = Spliced
        /\ request' = [Left EXCEPT ![q] = new]
        /\ Touched(q) /\ file' = file
    BY <1>2 DEF Deploy, Replace, Left
  <1> HIDE DEF new
  <1>5. /\ live' \in {None} \union Live(file)
        /\ request' \in [Request -> Requests(file)]
        /\ \A p \in Request : Holding(p)'
        /\ \A p \in Request \ {q} : request'[p].at = request[p].at
        /\ request'[q] = new
    BY <1>1, <1>2, <1>3, <1>4, ReplacedHolding
  <1>6. Typed'
    BY <1>1, <1>4, <1>5, SplicedTyped DEF Typed, Touched
  <1>7. ASSUME ~overlapped'
        PROVE  /\ InProgress' \subseteq {q}
               /\ Underway(next)' /\ Backed(cfg)'
    <2>1. ~overlapped /\ InProgress \subseteq {q} /\ q \in InProgress
      BY <1>1, <1>4, <1>7, OnlyOne DEF InProgress
    <2>2. request[q].holds /\ Settled /\ live # None
      BY <1>1, <2>1 DEF Alone, Holding
    <2>3. listed' = <<>>
      BY <1>1, <1>4, <2>2, SplicedTyped
    <2>4. Underway(next)'
      BY <1>4, <2>3, StartingIsLive DEF Underway
    <2>5. Backed(cfg)
      BY <1>2, <2>2 DEF Settled, Found
    <2>6. Backed(cfg)'
      BY <1>2, <1>4, <2>5 DEF Backed
    <2>7. InProgress' \subseteq {q}
      BY <1>5, <2>1, OnlyOneAfter
    <2> QED
      BY <2>4, <2>6, <2>7
  <1>8. Alone'
    BY <1>3, <1>5, <1>7 DEF Alone, InProgress, Backed
  <1> QED
    BY <1>5, <1>6, <1>8 DEF IInv

LEMMA RolloutStep ==
  ASSUME IInv, NEW q \in Request, Rollout(q)
  PROVE  IInv'
  <1>1. PICK r \in Release \ Named :
          Deploy(q, RolledOut(Found(q), r)) /\ vouched' = vouched \ {r}
    BY DEF Rollout
  <1>2. request[q].at = "body"
    BY DEF Rollout
  <1>3. Found(q) \in Sound(file) /\ Known(Found(q)) \subseteq Named
    <2>1. CASE request[q].holds
      BY <2>1, NothingIsNone DEF IInv, Typed, Holding, Live, Found, Named, Known
    <2>2. CASE ~request[q].holds
      <3>1. Found(q) = request[q].prev /\ Found(q) \in Sound(file)
        BY <1>2, <2>2, NothingIsNone DEF IInv, Typed, Holding, Requests, Found
      <3>2. Known(request[q].prev) = Known(Found(q))
        BY <3>1
      <3>3. Known(request[q].prev) \subseteq Named
        <4> DEFINE held(p) == Known(request[p].prev) \union Known(request[p].next)
        <4>1. held(q) \in {held(p) : p \in Request}
          OBVIOUS
        <4>2. UNION {held(p) : p \in Request} \subseteq Named
          BY Zenon DEF Named
        <4> QED
          BY <4>1, <4>2
      <3> QED
        BY <3>1, <3>2, <3>3
    <2> QED
      BY <2>1, <2>2
  <1>4. RolledOut(Found(q), r) \in Sound(file)
    BY <1>3, RolledOutIsSound
  <1>5. Claimed(Found(q)) \intersect vouched \subseteq vouched'
    BY <1>1, <1>3, NothingIsNone DEF Known
  <1>6. vouched' \subseteq Release
    BY <1>1 DEF IInv, Typed
  <1> QED
    BY <1>1, <1>2, <1>4, <1>5, <1>6, DeployStep

LEMMA RollbackStep ==
  ASSUME IInv, NEW q \in Request, Rollback(q)
  PROVE  IInv'
  <1>1. PICK r \in Targets(Found(q)) : Deploy(q, RolledBack(Found(q), r))
    BY DEF Rollback
  <1>2. request[q].at = "body" /\ vouched' = vouched
    BY DEF Rollback
  <1>3. Found(q) \in Sound(file)
    BY <1>2, NothingIsNone DEF IInv, Typed, Holding, Live, Requests, Found
  <1>4. RolledBack(Found(q), r) \in Sound(file)
    BY <1>3, RolledBackIsSound
  <1> QED
    BY <1>1, <1>2, <1>4, DeployStep DEF IInv, Typed

LEMMA ImportStep ==
  ASSUME IInv, NEW q \in Request, Import(q)
  PROVE  IInv'
  <1> USE NothingIsNone
  <1>1. Typed /\ Alone /\ \A p \in Request : Holding(p)
    BY DEF IInv
  <1>2. PICK r \in Release :
          /\ Replace(q, Imported(r), [at |-> "import", prev |-> None,
                                     next |-> Imported(r), holds |-> TRUE])
          /\ vouched' = vouched \union {r}
    <2>1. PICK r \in Release \ Named :
          /\ Replace(q, Imported(r), [at |-> "import", prev |-> None,
                                     next |-> Imported(r), holds |-> TRUE])
          /\ vouched' = vouched \union {r}
      BY DEF Import
    <2> QED
      BY <2>1
  <1>3. request[q].at = "idle" /\ Touched(q) /\ file' = file
    BY DEF Import
  <1>4. PICK cfg \in Sound(file) : cfg = Imported(r) /\ Claimed(cfg) = {r}
    BY ImportedIsSound
  <1> DEFINE new == [at |-> "import", prev |-> None, next |-> cfg, holds |-> TRUE]
  <1>5. /\ new \in Requests(file) /\ new.at = "import" /\ new.holds
        /\ new.next = cfg
    BY DEF Requests, Phases
  <1>6. /\ live' = Starting(cfg) /\ listed' = Spliced
        /\ request' = [Left EXCEPT ![q] = new]
    BY <1>2, <1>4 DEF Replace, Left
  <1> HIDE DEF new
  <1>7. /\ live' \in {None} \union Live(file)
        /\ request' \in [Request -> Requests(file)]
        /\ \A p \in Request : Holding(p)'
        /\ \A p \in Request \ {q} : request'[p].at = request[p].at
        /\ request'[q] = new
    BY <1>1, <1>5, <1>6, ReplacedHolding
  <1>8. Typed'
    BY <1>1, <1>2, <1>3, <1>6, <1>7, SplicedTyped DEF Typed, Touched
  <1>9. ASSUME ~overlapped'
        PROVE  /\ InProgress' \subseteq {q}
               /\ Underway(cfg)' /\ Backed(cfg)'
    <2>1. ~overlapped /\ InProgress \subseteq {q}
      BY <1>1, <1>3, <1>9, OnlyOne
    <2>2. Settled
      BY <1>1, <1>3, <2>1 DEF Alone, InProgress
    <2>3. listed' = <<>>
      BY <1>1, <1>6, <2>2, SplicedTyped
    <2>4. Underway(cfg)'
      BY <1>6, <2>3, StartingIsLive DEF Underway
    <2>5. InProgress' \subseteq {q}
      BY <1>7, <2>1, OnlyOneAfter
    <2> QED
      BY <1>2, <1>4, <2>4, <2>5 DEF Backed
  <1>10. Alone'
    BY <1>5, <1>7, <1>9 DEF Alone, InProgress, Backed
  <1> QED
    BY <1>7, <1>8, <1>10 DEF IInv

\* What refreshServer leaves of the registry's entry.
LEMMA RefreshedTyped ==
  ASSUME IInv, NEW q \in Request, NEW ok \in BOOLEAN
  PROVE  /\ Refreshed(q, ok) \in {None} \union Live(file)
         /\ Refreshed(q, ok) = None <=> live = None
         /\ live # None => /\ Refreshed(q, ok).cfg = live.cfg
                           /\ Refreshed(q, ok).runs = live.runs
         /\ request[q].holds => live # None /\ Refreshed(q, ok).ok = ok
  <1>1. CASE request[q].holds
    BY <1>1, NothingIsNone DEF IInv, Typed, Holding, Live, Refreshed
  <1>2. CASE ~request[q].holds
    BY <1>2 DEF IInv, Typed, Refreshed
  <1> QED
    BY <1>1, <1>2

\* The request ends, and what it leaves is settled if it was alone.
LEMMA EndStep ==
  ASSUME IInv, NEW q \in Request, q \in InProgress, Touched(q), file' = file,
         request' = [request EXCEPT ![q] = Idle],
         live' \in {None} \union Live(file), live' = None => live = None,
         listed' \in Seq(Sound(file)), vouched' \subseteq Release,
         ~overlapped /\ InProgress = {q} => Settled'
  PROVE  IInv'
  <1>1. Idle \in Requests(file) /\ Idle.at = "idle" /\ ~Idle.holds
    BY DEF Idle, Requests, Phases
  <1>2. Typed /\ Alone /\ \A p \in Request : Holding(p)
    BY DEF IInv
  <1>3. request'[q] = Idle /\ \A p \in Request \ {q} : request'[p] = request[p]
    BY <1>2 DEF Typed
  <1>4. Typed'
    BY <1>1, <1>2 DEF Typed, Touched
  <1>5. \A p \in Request : Holding(p)'
    BY <1>1, <1>2, <1>3 DEF Holding
  <1>6. ASSUME ~overlapped'
        PROVE  InProgress' = {} /\ Settled'
    <2>1. ~overlapped /\ InProgress = {q}
      BY <1>2, <1>6, OnlyOne
    <2> QED
      BY <1>1, <1>3, <2>1 DEF InProgress
  <1> QED
    BY <1>4, <1>5, <1>6 DEF IInv, Alone

\* addServer has returned, and the gate decides.
LEMMA DeployedStep ==
  ASSUME IInv, NEW q \in Request, Deployed(q)
  PROVE  IInv'
  <1> USE NothingIsNone
  <1>1. Typed /\ Alone /\ \A p \in Request : Holding(p)
    BY DEF IInv
  <1>2. request[q].at = "deploy" /\ q \in InProgress /\ Touched(q) /\ file' = file
    BY DEF Deployed, InProgress
  <1>3. PICK next \in Sound(file) : next = request[q].next
    BY <1>1, <1>2 DEF Typed, Holding, Requests
  <1>4. PICK back \in Sound(file) : back = request[q].prev
    BY <1>1, <1>2 DEF Typed, Holding, Requests
  <1> DEFINE Opened(ok) ==
               /\ GateOpen(next, Refreshed(q, ok))
               /\ live' = Finalized(q, Refreshed(q, ok))
               /\ listed' = [Append(listed, next) EXCEPT ![1] = MarkedHealthy(next)]
               /\ request' = [request EXCEPT ![q] = Idle]
             Kept(ok) ==
               /\ next.gate = "keep"
               /\ live' = Refreshed(q, ok) /\ listed' = Append(listed, next)
               /\ request' = [request EXCEPT ![q] = Idle]
             new == [at |-> "restore", prev |-> back, next |-> None, holds |-> TRUE]
             Refused(ok) ==
               /\ live' = Starting(back)
               /\ listed' = IF Refreshed(q, ok) = None THEN Append(listed, next)
                            ELSE Tail(Append(listed, next))
               /\ request' = [Left EXCEPT ![q] = new]
  <1>5. PICK ok \in BOOLEAN :
            /\ vouched' = Vouched(next, ok)
            /\ Opened(ok) \/ Kept(ok) \/ Refused(ok)
    BY <1>3, <1>4, Zenon DEF Deployed, Left
  <1>6. vouched' \subseteq Release /\ vouched \subseteq vouched'
    BY <1>1, <1>5 DEF Vouched, Typed, Sound, Config
  <1>7. PICK entry \in {None} \union Live(file) : entry = Refreshed(q, ok)
    BY RefreshedTyped
  <1>8. /\ entry = None <=> live = None
        /\ live # None => entry.cfg = live.cfg /\ entry.runs = live.runs
        /\ request[q].holds => live # None /\ entry.ok = ok
    BY <1>7, RefreshedTyped
  <1>9. /\ Append(listed, next) \in Seq(Sound(file))
        /\ listed = <<>> => Append(listed, next) = <<next>>
    <2>1. listed \in Seq(Sound(file))
      BY <1>1 DEF Typed
    <2>2. Append(<<>>, next) = <<next>>
      OBVIOUS
    <2>3. Append(listed, next) \in Seq(Sound(file))
      BY <2>1
    <2> QED
      BY <2>2, <2>3, Zenon
  <1>10. ASSUME ~overlapped, InProgress = {q}
         PROVE  request[q].holds /\ Underway(next) /\ Backed(back)
    BY <1>1, <1>2, <1>3, <1>4, <1>10 DEF Alone
  <1>11. CASE Opened(ok)
    <2>1. PICK cfg \in Sound(file) : cfg = MarkedHealthy(next)
      BY MarkedHealthyIsSound
    <2>2. Runs(cfg) = Runs(next) /\ Claimed(cfg) = {next.active} /\ cfg.gate = next.gate
      BY <2>1, MarkedHealthyIsSound
    <2>3. live' = IF entry = None THEN None ELSE [entry EXCEPT !.cfg = cfg]
      BY <1>3, <1>7, <1>11, <2>1 DEF Finalized
    <2>4. /\ live' \in {None} \union Live(file)
          /\ live' = None => live = None
          /\ live # None => live'.cfg = cfg /\ live'.runs = live.runs
      BY <1>8, <2>3 DEF Live
    <2>5. listed' = [Append(listed, next) EXCEPT ![1] = cfg]
      BY <1>11, <2>1
    <2>6. listed' \in Seq(Sound(file))
      BY <1>9, <2>5
    <2>7. ASSUME ~overlapped, InProgress = {q}
          PROVE  Settled'
      <3>1. live # None /\ live' # None /\ live'.cfg = cfg /\ live'.runs = Runs(cfg)
        BY <1>8, <1>10, <2>2, <2>4, <2>7 DEF Underway
      <3>2. listed' = <<cfg>>
        BY <1>9, <1>10, <2>5, <2>7 DEF Underway
      <3>3. ASSUME cfg.gate = "rollback" PROVE Claimed(cfg) \subseteq vouched'
        BY <1>5, <1>7, <1>8, <1>10, <1>11, <2>2, <2>7, <3>3 DEF GateOpen, Vouched
      <3> QED
        BY <1>2, <3>1, <3>2, <3>3 DEF Settled, Backed
    <2>8. request' = [request EXCEPT ![q] = Idle]
      BY <1>11
    <2> QED
      BY <1>2, <1>6, <2>4, <2>6, <2>7, <2>8, EndStep
  <1>12. CASE Kept(ok)
    <2>1. /\ next.gate = "keep" /\ live' = entry /\ listed' = Append(listed, next)
          /\ request' = [request EXCEPT ![q] = Idle]
      BY <1>7, <1>12
    <2>2. ASSUME ~overlapped, InProgress = {q}
          PROVE  Settled'
      BY <1>2, <1>8, <1>9, <1>10, <2>1, <2>2 DEF Settled, Backed, Underway
    <2> QED
      BY <1>2, <1>6, <1>8, <1>9, <2>1, <2>2, EndStep
  <1>13. CASE Refused(ok)
    <2>1. /\ new \in Requests(file) /\ new.at = "restore" /\ new.holds
          /\ new.prev = back
      BY DEF Requests, Phases
    <2> HIDE DEF new
    <2>2. /\ live' = Starting(back)
          /\ listed' = IF entry = None THEN Append(listed, next)
                       ELSE Tail(Append(listed, next))
          /\ request' = [Left EXCEPT ![q] = new]
      BY <1>7, <1>13
    <2>3. /\ live' \in {None} \union Live(file)
          /\ request' \in [Request -> Requests(file)]
          /\ \A p \in Request : Holding(p)'
          /\ \A p \in Request \ {q} : request'[p].at = request[p].at
          /\ request'[q] = new
      BY <1>1, <2>1, <2>2, ReplacedHolding
    <2>4. listed' \in Seq(Sound(file))
      BY <1>9, <2>2
    <2>5. Typed'
      BY <1>1, <1>2, <1>6, <2>3, <2>4 DEF Typed, Touched
    <2>6. ASSUME ~overlapped'
          PROVE  /\ InProgress' \subseteq {q}
                 /\ Underway(back)' /\ Backed(back)'
      <3>1. ~overlapped /\ InProgress = {q}
        BY <1>1, <1>2, <2>6, OnlyOne
      <3>2. listed' = <<>>
        BY <1>8, <1>9, <1>10, <2>2, <3>1 DEF Underway
      <3>3. Underway(back)'
        BY <2>2, <3>2, StartingIsLive DEF Underway
      <3>4. Backed(back)'
        BY <1>2, <1>6, <1>10, <3>1 DEF Backed
      <3>5. InProgress' \subseteq {q}
        BY <2>3, <3>1, OnlyOneAfter
      <3> QED
        BY <3>3, <3>4, <3>5
    <2>7. Alone'
      BY <2>1, <2>3, <2>6 DEF Alone, InProgress
    <2> QED
      BY <2>3, <2>5, <2>7 DEF IInv
  <1> QED
    BY <1>5, <1>11, <1>12, <1>13

LEMMA RegisteredStep ==
  ASSUME IInv, NEW q \in Request, Registered(q)
  PROVE  IInv'
  <1> USE NothingIsNone
  <1>1. Typed /\ Alone /\ \A p \in Request : Holding(p)
    BY DEF IInv
  <1>2. /\ request[q].at \in {"import", "restore"} /\ q \in InProgress
        /\ Touched(q) /\ file' = file
    BY DEF Registered, InProgress
  <1>3. PICK cfg \in Sound(file) :
          cfg = IF request[q].at = "import" THEN request[q].next ELSE request[q].prev
    BY <1>1, <1>2 DEF Typed, Holding, Requests
  <1>4. PICK ok \in BOOLEAN : live' = Refreshed(q, ok) /\ vouched' = Vouched(cfg, ok)
    BY <1>3 DEF Registered
  <1>5. /\ listed' = Append(listed, cfg) /\ listed' \in Seq(Sound(file))
        /\ request' = [request EXCEPT ![q] = Idle]
    BY <1>1, <1>3 DEF Registered, Typed
  <1>6. vouched' \subseteq Release /\ vouched \subseteq vouched'
    BY <1>1, <1>4 DEF Vouched, Typed, Sound, Config
  <1>7. /\ live' \in {None} \union Live(file)
        /\ live' = None <=> live = None
        /\ live # None => live'.cfg = live.cfg /\ live'.runs = live.runs
        /\ request[q].holds => live # None
    BY <1>4, RefreshedTyped
  <1>8. ASSUME ~overlapped, InProgress = {q}
        PROVE  Settled'
    <2>1. request[q].holds /\ Underway(cfg) /\ Backed(cfg)
      BY <1>1, <1>2, <1>3, <1>8 DEF Alone
    <2>2. listed' = <<cfg>>
      BY <1>5, <2>1 DEF Underway
    <2> QED
      BY <1>6, <1>7, <2>1, <2>2 DEF Settled, Underway, Backed
  <1> QED
    BY <1>2, <1>5, <1>6, <1>7, <1>8, EndStep

----------------------------------------------------------------------------
LEMMA NextPreserves == IInv /\ [Next]_vars => IInv'
  <1> SUFFICES ASSUME IInv, [Next]_vars PROVE IInv'
    OBVIOUS
  <1>1. ASSUME NEW q \in Request,
               \/ Begin(q) \/ Rollout(q) \/ Rollback(q) \/ BadRequest(q)
               \/ Import(q) \/ Deployed(q) \/ Registered(q)
        PROVE  IInv'
    BY <1>1, BeginStep, RolloutStep, RollbackStep, BadRequestStep, ImportStep,
       DeployedStep, RegisteredStep
  <1>2. CASE Delete
    BY <1>2, DeleteStep
  <1>3. ASSUME NEW ok \in BOOLEAN, CheckHealth(ok) PROVE IInv'
    BY <1>3, CheckHealthStep
  <1>4. CASE Restart
    BY <1>4, RestartStep
  <1>5. CASE UNCHANGED vars
    BY <1>5 DEF vars, IInv, Typed, Holding, Alone, InProgress, Settled, Underway,
       Backed
  <1> QED
    BY <1>1, <1>2, <1>3, <1>4, <1>5 DEF Next

(***************************************************************************)
(* The inductive invariant: every configuration anybody keeps is sound,    *)
(* and a request that nothing disturbs finds what it has registered        *)
(* (managed.ts:183-316, admin/routes.ts:256-311).                          *)
(***************************************************************************)
THEOREM Invariance == Spec => []IInv
  <1> QED
    BY InitHolds, NextPreserves, PTL DEF Spec

(***************************************************************************)
(* However rollouts, rollbacks, imports, deletes and restarts overlap,     *)
(* every configuration kept stays as consistent as the file's              *)
(* (managed.ts:183-316).                                                   *)
(***************************************************************************)
THEOREM OneActiveAlways == Spec => []OneActive
  <1>1. IInv => OneActive
    <2> SUFFICES ASSUME IInv PROVE OneActive
      OBVIOUS
    <2>1. \A i \in 1 .. Len(listed) : listed[i] \in Sound(file)
      BY DEF IInv, Typed
    <2>2. live # None => live.cfg \in Sound(file)
      BY DEF IInv, Typed, Live
    <2> QED
      BY <2>1, <2>2 DEF OneActive, Sound
  <1> QED
    BY <1>1, Invariance, PTL

(***************************************************************************)
(* Until requests overlap, the registry, the process and config.servers    *)
(* name the same release (admin/routes.ts:1591, managed.ts:318).           *)
(***************************************************************************)
THEOREM RunsWhatItAlwaysSays == Spec => []RunsWhatItSays
  <1>1. IInv => RunsWhatItSays
    BY DEF IInv, Alone, Settled, RunsWhatItSays
  <1> QED
    BY <1>1, Invariance, PTL

(***************************************************************************)
(* Until requests overlap, automatic rollback leaves no release active, or *)
(* the one to fall back to, that neither answered nor was named by the     *)
(* file or an import, which no gate looks at (admin/routes.ts:286).        *)
(***************************************************************************)
THEOREM GateAlwaysHolds == Spec => []GateHolds
  <1>1. IInv => GateHolds
    BY DEF IInv, Alone, Settled, Backed, GateHolds
  <1> QED
    BY <1>1, Invariance, PTL
=============================================================================
