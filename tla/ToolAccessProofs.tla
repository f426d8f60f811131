--------------------------- MODULE ToolAccessProofs ---------------------------
(***************************************************************************)
(* Proofs about ToolAccess, for every set of clients, servers and tools    *)
(* and all scenes its assumptions allow: what is listed can be called,     *)
(* answers are the caller's own, the preflight is honest, and a replaced   *)
(* account is not used again.                                              *)
(***************************************************************************)
EXTENDS ToolAccess, TLAPS

\* The arguments that the key of a tool's answers leaves out.
IgnoredFor(server, tool) ==
    LET overrides == {o \in scene.overrides : o.server = server /\ o.tool = tool}
    IN  IF overrides = {} THEN {} ELSE (CHOOSE o \in overrides : TRUE).ignores

\* The key under which c shares the answer of one call.
KeyFor(c, server, tool, args) ==
    [server |-> server, tool |-> tool, tenant |-> CacheTenant(c),
     args |-> Kept(args, IgnoredFor(server, tool))]

Keys == {KeyFor(c, s, t, args) :
            c \in Known, s \in Server, t \in Tool \union {Unknown}, args \in Args}

Calls ==
    [phase : {"idle", "judged", "joined", "sent", "done"},
     server : Server \union {None}, tool : Tool \union {Unknown, None},
     args : Args \union {None}, key : Keys \union {None}, row : 0 .. MaxRows,
     got : Answers \union {None}]

\* What a client may have asked for and been answered with.
Asked(c, server, tool, args) ==
    /\ c \in Known /\ server \in Server /\ tool \in Tool \union {Unknown}
    /\ args \in scene.args

\* An answer that was made for a call with the same key.
MadeFor(got, key) ==
    /\ got \in Answers /\ Asked(got.client, got.server, got.tool, got.args)
    /\ KeyFor(got.client, got.server, got.tool, got.args) = key

\* A name map has one route per name, each well-formed.
Maps(map) ==
    /\ \A r \in map : \E s \in Server, t \in Tool :
          r = [name |-> Named(s, t, scene.strategy), server |-> s, tool |-> t]
    /\ \A q, r \in map : q.name = r.name => q = r

\* An account that belongs to one of the slots the administrator fills.
Row ==
    [workspace : {slot.workspace : slot \in scene.slots},
     client : {slot.client : slot \in scene.slots},
     tenant : {slot.tenant : slot \in scene.slots}, live : BOOLEAN, stamp : Nat]

\* A kept answer has the key of the call it was made for, and no other answer
\* has that key.
Filed ==
    /\ \A entry \in cache : /\ entry = [key |-> entry.key, got |-> entry.got]
                            /\ MadeFor(entry.got, entry.key)
    /\ \A d, e \in cache : d.key = e.key => d = e

\* A call under way passed the guardrails as they still are, waits under its
\* own key, and has an answer made under that key.
Justified(c) ==
    LET own == KeyFor(c, call[c].server, call[c].tool, call[c].args)
    IN  call[c].phase # "idle" =>
            /\ Asked(c, call[c].server, call[c].tool, call[c].args)
            /\ scene.rules = {rules} =>
                  Screened(c, call[c].server, call[c].tool, call[c].args) # "block"
            /\ call[c].phase = "joined" => call[c].key = own
            /\ call[c].phase = "sent" => call[c].key \in {None, own}
            /\ call[c].phase = "done" => MadeFor(call[c].got, own)

IInv ==
    /\ scene \in Scenes /\ rules \in scene.rules
    /\ tools \in [Server -> SUBSET Tool]
    /\ healthy \in SUBSET Server /\ routable \in SUBSET Server
    /\ Maps(routes)
    /\ accounts \in Seq(Row) /\ Len(accounts) <= MaxRows
    /\ Filed
    /\ call \in [Client -> Calls]
    /\ \A c \in Client : Justified(c)

----------------------------------------------------------------------------
(* The operators.                                                          *)

\* What an override says to ignore does not hang on the tool lists.
LEMMA IgnoredSame ==
    ASSUME NEW s, NEW t
    PROVE  PolicyOf(s, t).ignores = IgnoredFor(s, t)
BY DEF PolicyOf, CacheDecision, IgnoredFor

\* generateCacheKey, of the call a client has under way.
LEMMA KeyOfCall ==
    ASSUME NEW c
    PROVE  KeyOf(c) = KeyFor(c, call[c].server, call[c].tool, call[c].args)
BY IgnoredSame DEF KeyOf, KeyFor, Ignored

\* Keys, and who may ask what, depend on the configuration alone.
LEMMA SceneOnly ==
    ASSUME UNCHANGED scene
    PROVE  /\ Known' = Known /\ Keys' = Keys /\ Row' = Row
           /\ \A c, s, t, args : /\ KeyFor(c, s, t, args)' = KeyFor(c, s, t, args)
                                 /\ Asked(c, s, t, args)' <=> Asked(c, s, t, args)
           /\ \A got, key : MadeFor(got, key)' <=> MadeFor(got, key)
           /\ \A map : Maps(map)' <=> Maps(map)
<1>1. /\ Known' = Known
      /\ \A c : CacheTenant(c)' = CacheTenant(c)
  BY DEF Known, Caller, CacheTenant, Said, TenantId, Trusting
<1>2. \A s, t : IgnoredFor(s, t)' = IgnoredFor(s, t)
  BY DEF IgnoredFor
<1>3. \A c, s, t, args : KeyFor(c, s, t, args)' = KeyFor(c, s, t, args)
  BY <1>1, <1>2 DEF KeyFor
<1>4. \A c, s, t, args : Asked(c, s, t, args)' <=> Asked(c, s, t, args)
  BY <1>1 DEF Asked
<1>5. Keys' = Keys
  <2>1. \A k : k \in Keys <=>
            \E c \in Known, s \in Server, t \in Tool \union {Unknown}, args \in Args :
                k = KeyFor(c, s, t, args)
    BY DEF Keys
  <2>2. \A k : k \in Keys' <=>
            \E c \in Known', s \in Server, t \in Tool \union {Unknown}, args \in Args :
                k = KeyFor(c, s, t, args)'
    BY DEF Keys
  <2> QED BY <1>1, <1>3, <2>1, <2>2
<1>6. \A got, key : MadeFor(got, key)' <=> MadeFor(got, key)
  BY <1>3, <1>4 DEF MadeFor
<1>7. Row' = Row
  BY DEF Row
<1>8. \A map : Maps(map)' <=> Maps(map)
  BY DEF Maps
<1> QED BY <1>1, <1>3, <1>4, <1>5, <1>6, <1>7, <1>8

\* A map that can be built has one route per name.
LEMMA RoutesMap ==
    ASSUME scene \in Scenes, NEW well \in SUBSET Server,
           NEW table \in [well -> SUBSET Tool], CanMap(table, scene.strategy)
    PROVE  Maps(RoutesOf(table, scene.strategy))
<1> DEFINE map == RoutesOf(table, scene.strategy)
<1>1. \A r \in map : \E s \in well : \E t \in table[s] :
          r = [name |-> Named(s, t, scene.strategy), server |-> s, tool |-> t]
  BY DEF RoutesOf
<1>2. scene.strategy \in {"prefix", "none"}
  BY ToolAccessAssumption DEF Strategies
<1>3. ASSUME NEW q \in map, NEW r \in map, q.name = r.name
      PROVE  q = r
  <2>1. PICK s \in well : \E t \in table[s] :
            q = [name |-> Named(s, t, scene.strategy), server |-> s, tool |-> t]
    BY <1>1
  <2>2. PICK t \in table[s] :
            q = [name |-> Named(s, t, scene.strategy), server |-> s, tool |-> t]
    BY <2>1
  <2>3. PICK u \in well : \E v \in table[u] :
            r = [name |-> Named(u, v, scene.strategy), server |-> u, tool |-> v]
    BY <1>1
  <2>4. PICK v \in table[u] :
            r = [name |-> Named(u, v, scene.strategy), server |-> u, tool |-> v]
    BY <2>3
  <2>5. Named(s, t, scene.strategy) = Named(u, v, scene.strategy)
    BY <1>3, <2>2, <2>4
  <2>6. CASE scene.strategy = "prefix"
    <3>1. s = u /\ t = v
      BY <2>5, <2>6 DEF Named
    <3> QED BY <2>2, <2>4, <3>1
  <2>7. CASE scene.strategy = "none"
    <3>1. t = v
      BY <2>5, <2>7 DEF Named
    <3>2. Conflicts(table) = {}
      BY <2>7 DEF CanMap
    <3>3. s = u
      BY <3>1, <3>2 DEF Conflicts
    <3> QED BY <2>2, <2>4, <3>1, <3>3
  <2> QED BY <1>2, <2>6, <2>7
<1>4. \A r \in map : \E s \in Server, t \in Tool :
          r = [name |-> Named(s, t, scene.strategy), server |-> s, tool |-> t]
  BY <1>1
<1> QED BY <1>3, <1>4 DEF Maps

\* rebuildNamespaceMap keeps one route per name, whatever it was given.
LEMMA RebuiltMaps ==
    ASSUME scene \in Scenes, Maps(routes), NEW well \in SUBSET Server,
           NEW table \in [Server -> SUBSET Tool]
    PROVE  Maps(Rebuilt(table, well))
<1> DEFINE known == [s \in well |-> table[s]]
<1>1. known \in [well -> SUBSET Tool]
  OBVIOUS
<1>2. CASE CanMap(known, scene.strategy)
  BY <1>1, <1>2, RoutesMap DEF Rebuilt
<1>3. CASE ~CanMap(known, scene.strategy)
  BY <1>3 DEF Rebuilt
<1> QED BY <1>2, <1>3

\* Whatever name a client uses, a call is sent to a server there is.
LEMMA TargetTyped ==
    ASSUME IInv, NEW e \in Endpoint, NEW name \in Names, Target(e, name).routed
    PROVE  /\ Target(e, name).server \in Server
           /\ Target(e, name).tool \in Tool \union {Unknown}
<1> DEFINE found == Resolved(name, routes, scene.strategy)
           route == CHOOSE r \in found : TRUE
<1>1. \/ \E t \in Tool : name = <<t>>
      \/ \E s \in Server, t \in Tool : name = <<s, t>>
  BY DEF Names
<1>2. TryTool(name) \in Tool \union {Unknown}
  BY <1>1 DEF TryTool
<1>3. ASSUME NEW r \in found PROVE r.tool \in Tool
  <2>1. CASE r \in routes
    <3>1. PICK s \in Server, t \in Tool :
              r = [name |-> Named(s, t, scene.strategy), server |-> s, tool |-> t]
      BY <2>1 DEF IInv, Maps
    <3> QED BY <3>1
  <2>2. CASE r \notin routes
    <3>1. Len(name) = 2 /\ r = [name |-> name, server |-> name[1], tool |-> name[2]]
      BY <1>3, <2>2 DEF Resolved
    <3>2. PICK s \in Server, t \in Tool : name = <<s, t>>
      BY <1>1, <3>1
    <3> QED BY <3>1, <3>2
  <2> QED BY <2>1, <2>2
<1>4. found # {} => route.tool \in Tool
  BY <1>3
<1> HIDE DEF found
<1>5. CASE Routable(e)
  <2>1. Target(e, name) =
            [server |-> e, routed |-> TRUE,
             tool |-> IF found # {} /\ route.server = e THEN route.tool ELSE TryTool(name)]
    BY <1>5 DEF Target, found
  <2>2. e \in Server
    BY <1>5 DEF Routable, IInv
  <2> QED BY <1>2, <1>4, <2>1, <2>2
<1>6. CASE ~Routable(e) /\ found # {} /\ Routable(route.server)
  <2>1. Target(e, name) = [server |-> route.server, routed |-> TRUE, tool |-> route.tool]
    BY <1>6 DEF Target, found
  <2>2. route.server \in Server
    BY <1>6 DEF Routable, IInv
  <2> QED BY <1>4, <1>6, <2>1, <2>2
<1>7. CASE ~Routable(e) /\ ~(found # {} /\ Routable(route.server))
  <2>1. Target(e, name).routed = FALSE
    BY <1>7 DEF Target, found
  <2> QED BY <2>1
<1> QED BY <1>5, <1>6, <1>7

----------------------------------------------------------------------------
(* The steps.                                                              *)

\* A client with no call under way.
LEMMA NothingJustified ==
    /\ Nothing \in Calls
    /\ \A c \in Client : /\ call[c] = Nothing => Justified(c)
                         /\ call'[c] = Nothing => Justified(c)'
<1>1. Nothing \in Calls
  BY ToolAccessAssumption DEF Nothing, Calls
<1>2. Nothing.phase = "idle"
  BY DEF Nothing
<1> QED BY <1>1, <1>2 DEF Justified

\* The first state: no call, no account, no kept answer.
LEMMA InitIInv == Init => IInv
<1> SUFFICES ASSUME Init PROVE IInv
  OBVIOUS
<1>1. scene \in Scenes /\ rules \in scene.rules
  BY DEF Init
<1>2. tools \in [Server -> SUBSET Tool]
  BY <1>1, ToolAccessAssumption DEF Init
<1>3. Maps(routes)
  <2>1. Maps({})
    BY DEF Maps
  <2> QED BY <1>1, <1>2, <2>1, RoutesMap DEF Init
<1>4. accounts \in Seq(Row) /\ Len(accounts) <= MaxRows
  BY ToolAccessAssumption DEF Init
<1>5. Filed
  BY DEF Init, Filed
<1>6. call \in [Client -> Calls] /\ \A c \in Client : call[c] = Nothing
  BY NothingJustified DEF Init
<1> QED BY <1>1, <1>2, <1>3, <1>4, <1>5, <1>6, NothingJustified DEF Init, IInv

\* A step of the calls alone keeps the invariant if every call it touches is
\* justified again.
LEMMA CallsIInv ==
    ASSUME IInv, UNCHANGED <<scene, rules, accounts, topology>>,
           Filed', call' \in [Client -> Calls],
           \A c \in Client : call'[c] = call[c] \/ Justified(c)'
    PROVE  IInv'
<1> USE SceneOnly
<1>1. Maps(routes)'
  BY DEF IInv, topology
<1>2. Calls' = Calls
  BY DEF Calls
<1>3. ASSUME NEW c \in Client, call'[c] = call[c] PROVE Justified(c)'
  <2>1. Justified(c)
    BY DEF IInv
  <2>2. \A s, t, args : Screened(c, s, t, args)' = Screened(c, s, t, args)
    BY DEF Screened, ClientId, Caller
  <2> QED BY <1>3, <2>1, <2>2 DEF Justified
<1> QED BY <1>1, <1>2, <1>3 DEF IInv, topology

\* Kept answers that were kept before.
LEMMA FiledFewer ==
    ASSUME Filed, UNCHANGED scene, cache' \subseteq cache
    PROVE  Filed'
BY SceneOnly DEF Filed

\* A call that passes its checks is what the client asked.
LEMMA JudgeIInv ==
    ASSUME IInv, NEW c \in Client, NEW e \in Endpoint, NEW name \in Names,
           NEW args \in scene.args, Judge(c, e, name, args)
    PROVE  IInv'
<1>1. /\ UNCHANGED <<scene, rules, accounts, topology, cache>>
      /\ c \in Known /\ Target(e, name).routed
      /\ Screened(c, Target(e, name).server, Target(e, name).tool, args) # "block"
  BY DEF Judge, Passes
<1>2. PICK s \in Server, t \in Tool \union {Unknown} :
          s = Target(e, name).server /\ t = Target(e, name).tool
  BY <1>1, TargetTyped
<1>3. Asked(c, s, t, args)
  BY <1>1, <1>2 DEF Asked
<1> DEFINE next == [call[c] EXCEPT !.phase = "judged", !.args = args,
                                   !.server = s, !.tool = t]
<1>4. call' = [d \in Client |-> IF d = c THEN next ELSE call[d]]
  BY <1>2 DEF Judge, IInv
<1>5. call[c] \in Calls /\ args \in Args
  BY DEF IInv, Args
<1>6. /\ next \in Calls /\ next.phase = "judged" /\ next.args = args
      /\ next.server = s /\ next.tool = t
  BY <1>2, <1>5 DEF Calls
<1>7. call' \in [Client -> Calls] /\ \A d \in Client \ {c} : call'[d] = call[d]
  BY <1>4, <1>6 DEF IInv
<1>8. Justified(c)'
  <2>1. /\ call'[c].phase = "judged" /\ call'[c].args = args
        /\ call'[c].server = s /\ call'[c].tool = t
    BY <1>4, <1>6
  <2>2. Screened(c, s, t, args)' = Screened(c, s, t, args)
    BY <1>1 DEF Screened, ClientId, Caller
  <2> QED BY <1>1, <1>2, <1>3, <2>1, <2>2, SceneOnly DEF Justified
<1>9. Filed'
  BY <1>1, FiledFewer DEF IInv
<1> QED BY <1>1, <1>7, <1>8, <1>9, CallsIInv

\* A call that ends without an answer, or whose answer is taken.
LEMMA EndIInv ==
    ASSUME IInv, NEW c \in Client, TurnedAway(c) \/ Failed(c) \/ Take(c)
    PROVE  IInv'
<1>1. UNCHANGED <<scene, rules, accounts, topology, cache>>
  BY DEF TurnedAway, Failed, Take
<1>2. \A d \in Client : call'[d] = call[d] \/ call'[d] = Nothing
  BY DEF TurnedAway, Failed, Take, IInv
<1>3. call' \in [Client -> Calls]
  BY NothingJustified DEF TurnedAway, Failed, Take, IInv
<1>4. Filed'
  BY <1>1, FiledFewer DEF IInv
<1> QED BY <1>1, <1>2, <1>3, <1>4, NothingJustified, CallsIInv

\* resolveAccountRow finds live accounts of the caller's workspace, and none of
\* another client or tenant.
LEMMA UsableFacts ==
    ASSUME NEW table, NEW identity, NEW needs \in Needs \union {None},
           NEW client, NEW tenant
    PROVE  \A i \in Usable(table, identity, needs, client, tenant) :
              /\ i \in Live(table)
              /\ table[i].workspace = WorkspaceOf(identity, tenant)
              /\ table[i].client \in {client, None}
              /\ table[i].tenant \in {tenant, None}
<1> DEFINE space == WorkspaceOf(identity, tenant)
<1> SUFFICES ASSUME NEW i \in Usable(table, identity, needs, client, tenant)
             PROVE  /\ i \in Live(table) /\ table[i].workspace = space
                    /\ table[i].client \in {client, None}
                    /\ table[i].tenant \in {tenant, None}
  OBVIOUS
<1>1. needs # None /\ needs.binding \in Bindings
  BY DEF Usable, Needs
<1>2. \A who, whose : \A j \in FindOne(table, space, who, whose) :
          /\ j \in Live(table) /\ table[j].workspace = space
          /\ table[j].client = who /\ table[j].tenant = whose
  BY DEF FindOne, InSlot
<1> HIDE DEF space
<1>3. i \in Resolutions(table, space, client, tenant, needs.binding)
  BY <1>1 DEF Usable, space
<1>4. \/ i \in FindOne(table, space, client, None)
      \/ i \in FindOne(table, space, None, tenant)
      \/ i \in FindOne(table, space, None, None)
  BY <1>1, <1>3 DEF Resolutions, Bindings
<1> QED BY <1>2, <1>4

\* A call is sent with an account there is, or refused.
LEMMA SendIInv ==
    ASSUME IInv, NEW c \in Client, call[c].phase = "judged",
           NEW key \in {None, KeyFor(c, call[c].server, call[c].tool, call[c].args)},
           Send(c, key), UNCHANGED <<scene, rules, accounts, topology>>, Filed'
    PROVE  IInv'
<1>1. Justified(c) /\ call[c] \in Calls
  BY DEF IInv
<1>2. Asked(c, call[c].server, call[c].tool, call[c].args)
  BY <1>1 DEF Justified
<1> DEFINE needs == scene.needs[call[c].server]
           rows == Usable(accounts, scene.identity, needs, ClientId(c), TenantId(c))
<1>3. key \in Keys \union {None}
  BY <1>2 DEF Asked, Keys, IInv, Args
<1>4. rows \subseteq 0 .. MaxRows
  <2>1. needs \in Needs \union {None}
    BY <1>2, ToolAccessAssumption DEF Asked, IInv
  <2>2. rows \subseteq DOMAIN accounts
    BY <2>1, UsableFacts DEF Live
  <2>3. DOMAIN accounts \subseteq 0 .. MaxRows
    BY ToolAccessAssumption DEF IInv
  <2> QED BY <2>2, <2>3
<1>5. CASE call' = [call EXCEPT ![c] = Nothing]
  <2>1. call' \in [Client -> Calls]
    BY <1>5, NothingJustified DEF IInv
  <2>2. \A d \in Client : call'[d] = call[d] \/ call'[d] = Nothing
    BY <1>5 DEF IInv
  <2> QED BY <2>1, <2>2, NothingJustified, CallsIInv
<1>6. ASSUME NEW row \in rows \union {0},
             call' = [call EXCEPT ![c].phase = "sent", ![c].key = key, ![c].row = row]
      PROVE  IInv'
  <2> DEFINE next == [call[c] EXCEPT !.phase = "sent", !.key = key, !.row = row]
  <2>1. call' = [d \in Client |-> IF d = c THEN next ELSE call[d]]
    BY <1>6 DEF IInv
  <2>2. row \in 0 .. MaxRows
    BY <1>4, ToolAccessAssumption
  <2>3. /\ next \in Calls /\ next.phase = "sent" /\ next.key = key
        /\ next.server = call[c].server /\ next.tool = call[c].tool
        /\ next.args = call[c].args
    BY <1>1, <1>3, <2>2 DEF Calls
  <2>4. call' \in [Client -> Calls] /\ \A d \in Client \ {c} : call'[d] = call[d]
    BY <2>1, <2>3 DEF IInv
  <2>5. Justified(c)'
    <3>1. /\ call'[c].phase = "sent" /\ call'[c].key = key
          /\ call'[c].server = call[c].server /\ call'[c].tool = call[c].tool
          /\ call'[c].args = call[c].args
      BY <2>1, <2>3
    <3>2. \A s, t, args : Screened(c, s, t, args)' = Screened(c, s, t, args)
      BY DEF Screened, ClientId, Caller
    <3> QED BY <1>1, <3>1, <3>2, SceneOnly DEF Justified
  <2> QED BY <2>4, <2>5, CallsIInv
<1> QED BY <1>5, <1>6 DEF Send

\* The two ways past the awaits.
LEMMA LookupIInv ==
    ASSUME IInv, NEW c \in Client, Bypass(c) \/ Lookup(c)
    PROVE  IInv'
<1>1. CASE Bypass(c)
  <2>1. Filed'
    BY <1>1, FiledFewer DEF Bypass, Dropped, IInv
  <2> QED BY <1>1, <2>1, SendIInv DEF Bypass
<1>2. CASE Lookup(c)
  <2>1. PICK key : key = KeyOf(c)
    OBVIOUS
  <2>2. key = KeyFor(c, call[c].server, call[c].tool, call[c].args)
    BY <2>1, KeyOfCall
  <2>3. call[c].phase = "judged" /\ UNCHANGED <<scene, rules, accounts, topology, cache>>
    BY <1>2 DEF Lookup
  <2>4. Filed'
    BY <2>3, FiledFewer DEF IInv
  <2>5. Justified(c) /\ call[c] \in Calls
    BY DEF IInv
  <2>6. Asked(c, call[c].server, call[c].tool, call[c].args)
    BY <2>3, <2>5 DEF Justified
  <2>7. key \in Keys
    <3>1. /\ c \in Known /\ call[c].server \in Server
          /\ call[c].tool \in Tool \union {Unknown} /\ call[c].args \in Args
      BY <2>6 DEF Asked, IInv, Args
    <3> QED BY <2>2, <3>1 DEF Keys
  <2>8. \A s, t, args : Screened(c, s, t, args)' = Screened(c, s, t, args)
    BY <2>3 DEF Screened, ClientId, Caller
  <2>9. ASSUME NEW entry \in At(key),
               call' = [call EXCEPT ![c].phase = "done", ![c].got = entry.got]
        PROVE  IInv'
    <3> DEFINE next == [call[c] EXCEPT !.phase = "done", !.got = entry.got]
    <3>1. MadeFor(entry.got, key)
      BY DEF At, IInv, Filed
    <3>2. entry.got \in Answers
      BY <3>1 DEF MadeFor
    <3>3. call' = [d \in Client |-> IF d = c THEN next ELSE call[d]]
      BY <2>9 DEF IInv
    <3>4. /\ next \in Calls /\ next.phase = "done" /\ next.got = entry.got
          /\ next.server = call[c].server /\ next.tool = call[c].tool
          /\ next.args = call[c].args
      BY <2>5, <3>2 DEF Calls
    <3>5. call' \in [Client -> Calls] /\ \A d \in Client \ {c} : call'[d] = call[d]
      BY <3>3, <3>4 DEF IInv
    <3>6. Justified(c)'
      <4>1. /\ call'[c].phase = "done" /\ call'[c].got = entry.got
            /\ call'[c].server = call[c].server /\ call'[c].tool = call[c].tool
            /\ call'[c].args = call[c].args
        BY <3>3, <3>4
      <4> QED BY <2>2, <2>3, <2>5, <2>8, <3>1, <4>1, SceneOnly DEF Justified
    <3> QED BY <2>3, <2>4, <3>5, <3>6, CallsIInv
  <2>10. CASE call' = [call EXCEPT ![c].phase = "joined", ![c].key = key]
    <3> DEFINE next == [call[c] EXCEPT !.phase = "joined", !.key = key]
    <3>1. call' = [d \in Client |-> IF d = c THEN next ELSE call[d]]
      BY <2>10 DEF IInv
    <3>2. /\ next \in Calls /\ next.phase = "joined" /\ next.key = key
          /\ next.server = call[c].server /\ next.tool = call[c].tool
          /\ next.args = call[c].args
      BY <2>5, <2>7 DEF Calls
    <3>3. call' \in [Client -> Calls] /\ \A d \in Client \ {c} : call'[d] = call[d]
      BY <3>1, <3>2 DEF IInv
    <3>4. Justified(c)'
      <4>1. /\ call'[c].phase = "joined" /\ call'[c].key = key
            /\ call'[c].server = call[c].server /\ call'[c].tool = call[c].tool
            /\ call'[c].args = call[c].args
        BY <3>1, <3>2
      <4> QED BY <2>2, <2>3, <2>5, <2>8, <4>1, SceneOnly DEF Justified
    <3> QED BY <2>3, <2>4, <3>3, <3>4, CallsIInv
  <2>11. CASE Send(c, key)
    BY <2>2, <2>3, <2>4, <2>11, SendIInv
  <2> QED BY <1>2, <2>1, <2>9, <2>10, <2>11 DEF Lookup
<1> QED BY <1>1, <1>2

\* The upstream's answer reaches whoever asked for it under the same key, and
\* is kept under that key.
LEMMA AnsweredIInv ==
    ASSUME IInv, NEW c \in Client, Answered(c)
    PROVE  IInv'
<1> DEFINE got == [server |-> call[c].server, tool |-> call[c].tool,
                   client |-> c, args |-> call[c].args]
           own(d) == KeyFor(d, call[d].server, call[d].tool, call[d].args)
<1>1. /\ call[c].phase = "sent"
      /\ call' = [d \in Client |-> IF d \in Sharers(c)
                     THEN [call[d] EXCEPT !.phase = "done", !.got = got] ELSE call[d]]
      /\ UNCHANGED <<scene, rules, accounts, topology>>
  BY DEF Answered
<1>2. \/ cache' = cache
      \/ /\ call[c].key # None
         /\ cache' = (cache \ At(call[c].key)) \union {[key |-> call[c].key, got |-> got]}
  BY DEF Answered
<1>3. Asked(c, call[c].server, call[c].tool, call[c].args) /\ call[c].key \in {None, own(c)}
  BY <1>1 DEF IInv, Justified
<1>4. got \in Answers
  BY <1>3 DEF Asked, Answers, IInv, Args, Known
<1>5. MadeFor(got, own(c))
  BY <1>3, <1>4 DEF MadeFor
<1>6. ASSUME NEW d \in Sharers(c)
      PROVE  /\ d \in Client /\ Asked(d, call[d].server, call[d].tool, call[d].args)
             /\ own(d) = own(c)
  <2>1. CASE d = c
    BY <1>3, <2>1
  <2>2. CASE d # c
    <3>1. /\ d \in Client /\ call[d].phase = "joined" /\ call[c].key # None
          /\ call[d].key = call[c].key
      BY <2>2 DEF Sharers
    <3>2. Justified(d)
      BY <3>1 DEF IInv
    <3>3. Asked(d, call[d].server, call[d].tool, call[d].args) /\ call[d].key = own(d)
      BY <3>1, <3>2 DEF Justified
    <3> QED BY <1>3, <3>1, <3>3
  <2> QED BY <2>1, <2>2
<1> HIDE DEF got
<1>7. ASSUME NEW d \in Client
      PROVE  /\ call'[d] \in Calls
             /\ d \in Sharers(c) =>
                   /\ call'[d].phase = "done" /\ call'[d].got = got
                   /\ call'[d].server = call[d].server /\ call'[d].tool = call[d].tool
                   /\ call'[d].args = call[d].args
             /\ d \notin Sharers(c) => call'[d] = call[d]
  <2>1. call[d] \in Calls
    BY DEF IInv
  <2> QED BY <1>1, <1>4, <2>1 DEF Calls
<1>8. call' \in [Client -> Calls]
  BY <1>1, <1>7
<1>9. Filed'
  <2>1. CASE cache' = cache
    BY <1>1, <2>1, FiledFewer DEF IInv
  <2>2. CASE /\ call[c].key # None
             /\ cache' = (cache \ At(call[c].key))
                            \union {[key |-> call[c].key, got |-> got]}
    <3>1. call[c].key = own(c)
      BY <1>3, <2>2
    <3>2. ASSUME NEW entry \in cache'
          PROVE  /\ entry = [key |-> entry.key, got |-> entry.got]
                 /\ MadeFor(entry.got, entry.key)
      BY <1>5, <2>2, <3>1 DEF IInv, Filed
    <3>3. ASSUME NEW x \in cache', NEW y \in cache', x.key = y.key
          PROVE  x = y
      BY <2>2, <3>3 DEF IInv, Filed, At
    <3> QED BY <1>1, <3>2, <3>3, SceneOnly DEF Filed
  <2> QED BY <1>2, <2>1, <2>2
<1>10. ASSUME NEW d \in Sharers(c) PROVE Justified(d)'
  <2>1. d \in Client /\ Justified(d) /\ call[d].phase # "idle"
    BY <1>1, <1>6 DEF IInv, Sharers
  <2>2. /\ call'[d].phase = "done" /\ call'[d].got = got
        /\ call'[d].server = call[d].server /\ call'[d].tool = call[d].tool
        /\ call'[d].args = call[d].args
    BY <1>7, <2>1
  <2>3. \A s, t, args : Screened(d, s, t, args)' = Screened(d, s, t, args)
    BY <1>1 DEF Screened, ClientId, Caller
  <2>4. MadeFor(got, own(d))
    BY <1>5, <1>6
  <2>5. PICK g, key : g = got /\ key = own(d)
    OBVIOUS
  <2>6. MadeFor(g, key)'
    BY <1>1, <2>4, <2>5, SceneOnly
  <2>7. PICK s, t, args : s = call[d].server /\ t = call[d].tool /\ args = call[d].args
    OBVIOUS
  <2>8. /\ Asked(d, s, t, args)' /\ KeyFor(d, s, t, args)' = key
        /\ (scene.rules = {rules})' => Screened(d, s, t, args)' # "block"
    <3>1. Asked(d, s, t, args)' /\ KeyFor(d, s, t, args)' = KeyFor(d, s, t, args)
      BY <1>1, <2>1, <2>7, SceneOnly DEF Justified
    <3>2. KeyFor(d, s, t, args) = key
      BY <2>5, <2>7
    <3>3. scene.rules = {rules} => Screened(d, s, t, args) # "block"
      BY <2>1, <2>7 DEF Justified
    <3>4. scene' = scene /\ rules' = rules
      BY <1>1
    <3>5. Screened(d, s, t, args)' = Screened(d, s, t, args)
      BY <2>3
    <3> QED BY <3>1, <3>2, <3>3, <3>4, <3>5
  <2>9. /\ call'[d].phase = "done" /\ call'[d].got = g
        /\ call'[d].server = s /\ call'[d].tool = t /\ call'[d].args = args
    BY <2>2, <2>5, <2>7
  <2> HIDE DEF own
  <2> QED BY <2>6, <2>8, <2>9 DEF Justified
<1> QED BY <1>1, <1>7, <1>8, <1>9, <1>10, CallsIInv

\* Reloads, tool lists, outages and accounts change no call and no kept answer.
LEMMA AroundIInv ==
    ASSUME IInv,
           \/ \E entry \in cache : Evict(entry)
           \/ \E new \in scene.rules : Reload(new)
           \/ \E s \in Server, offered \in SUBSET Tool :
                 Relist(s, offered) \/ Refresh(s, offered)
           \/ \E s \in Server : RefreshFails(s) \/ Turn(s)
           \/ CheckHealth
    PROVE  IInv'
<1>1. CASE \E entry \in cache : Evict(entry)
  <2>1. UNCHANGED <<scene, rules, accounts, topology, call>> /\ cache' \subseteq cache
    BY <1>1 DEF Evict
  <2> QED BY <2>1, FiledFewer, CallsIInv DEF IInv
<1>2. ASSUME NEW new \in scene.rules, Reload(new) PROVE IInv'
  <2>1. rules' = new /\ UNCHANGED <<scene, accounts, topology, cache, call>>
    BY <1>2 DEF Reload
  <2>2. ASSUME NEW c \in Client PROVE Justified(c)'
    <3>1. Justified(c)
      BY DEF IInv
    <3>2. scene.rules = {new} => rules = new
      BY DEF IInv
    <3>3. \A s, t, args : rules = new => Screened(c, s, t, args)' = Screened(c, s, t, args)
      BY <2>1 DEF Screened, ClientId, Caller
    <3> QED BY <2>1, <3>1, <3>2, <3>3, SceneOnly DEF Justified
  <2>3. Calls' = Calls
    BY <2>1, SceneOnly DEF Calls
  <2>4. Filed'
    BY <2>1, FiledFewer DEF IInv
  <2> QED BY <2>1, <2>2, <2>3, <2>4, SceneOnly DEF IInv, topology
<1>3. ASSUME UNCHANGED <<scene, rules, accounts, cache, call>>,
             tools' \in [Server -> SUBSET Tool],
             healthy' \in SUBSET Server, routable' \in SUBSET Server, Maps(routes')
      PROVE  IInv'
  <2>1. ASSUME NEW c \in Client PROVE Justified(c)'
    <3>1. Justified(c)
      BY DEF IInv
    <3>2. \A s, t, args : Screened(c, s, t, args)' = Screened(c, s, t, args)
      BY <1>3 DEF Screened, ClientId, Caller
    <3> QED BY <1>3, <3>1, <3>2, SceneOnly DEF Justified
  <2>2. Calls' = Calls
    BY <1>3, SceneOnly DEF Calls
  <2>3. Filed'
    BY <1>3, FiledFewer DEF IInv
  <2>4. Maps(routes)'
    BY <1>3 DEF Maps
  <2> QED BY <1>3, <2>1, <2>2, <2>3, <2>4, SceneOnly DEF IInv
<1>4. ASSUME NEW s \in Server, NEW offered \in SUBSET Tool, Relist(s, offered)
      PROVE  IInv'
  <2>1. /\ tools' \in [Server -> SUBSET Tool] /\ routes' = Rebuilt(tools', healthy)
        /\ UNCHANGED <<scene, rules, accounts, healthy, routable, cache, call>>
    BY <1>4 DEF Relist, IInv
  <2>2. Maps(routes')
    BY <2>1, RebuiltMaps DEF IInv
  <2> QED BY <1>3, <2>1, <2>2 DEF IInv
<1>5. ASSUME NEW s \in Server, NEW offered \in SUBSET Tool, Refresh(s, offered)
      PROVE  IInv'
  BY <1>3, <1>5 DEF Refresh, IInv
<1>6. ASSUME NEW s \in Server, RefreshFails(s) \/ Turn(s)
      PROVE  IInv'
  BY <1>3, <1>6 DEF RefreshFails, Turn, IInv
<1>7. CASE CheckHealth
  <2>1. Maps(routes')
    BY <1>7, RebuiltMaps DEF CheckHealth, IInv
  <2> QED BY <1>3, <1>7, <2>1 DEF CheckHealth, IInv
<1> QED BY <1>1, <1>2, <1>4, <1>5, <1>6, <1>7

\* Of the rows that were there, replace_existing only ends some; those of the
\* slot end.
LEMMA ReplacedFacts ==
    ASSUME accounts \in Seq(Row), NEW w, NEW c, NEW t
    PROVE  LET kept == Replaced(accounts, w, c, t) IN
           /\ kept \in Seq(Row) /\ Len(kept) = Len(accounts)
           /\ InSlot(kept, w, c, t) = {}
<1> DEFINE old == InSlot(accounts, w, c, t)
           kept == Replaced(accounts, w, c, t)
           row(i) == [accounts[i] EXCEPT !.live = @ /\ i \notin old]
<1>1. kept = [i \in 1 .. Len(accounts) |-> row(i)]
  BY DEF Replaced
<1>2. ASSUME NEW i \in 1 .. Len(accounts)
      PROVE  /\ row(i) \in Row
             /\ row(i).workspace = accounts[i].workspace
             /\ row(i).client = accounts[i].client /\ row(i).tenant = accounts[i].tenant
             /\ row(i).live <=> accounts[i].live /\ i \notin old
  <2> DEFINE lives == accounts[i].live /\ i \notin old
  <2>1. accounts[i] \in Row
    OBVIOUS
  <2>2. lives \in BOOLEAN /\ (lives <=> accounts[i].live /\ i \notin old)
    BY <2>1 DEF Row
  <2>3. row(i) = [accounts[i] EXCEPT !.live = lives]
    OBVIOUS
  <2> HIDE DEF lives, row
  <2> QED BY <2>1, <2>2, <2>3 DEF Row
<1> HIDE DEF row
<1>3. kept \in Seq(Row) /\ Len(kept) = Len(accounts)
  BY <1>1, <1>2
<1>4. ASSUME NEW i \in InSlot(kept, w, c, t) PROVE FALSE
  <2>1. /\ i \in 1 .. Len(accounts) /\ kept[i].live
        /\ kept[i].workspace = w /\ kept[i].client = c /\ kept[i].tenant = t
    BY <1>1 DEF InSlot, Live
  <2>2. /\ accounts[i].live /\ i \notin old
        /\ accounts[i].workspace = w /\ accounts[i].client = c /\ accounts[i].tenant = t
    BY <1>1, <1>2, <2>1
  <2> QED BY <2>1, <2>2 DEF InSlot, Live
<1> QED BY <1>3, <1>4

\* The administrator's changes of accounts.
LEMMA AccountsIInv ==
    ASSUME IInv,
           \/ \E slot \in scene.slots, replace \in BOOLEAN, later \in {0, 1} :
                 Connect(slot, replace, later)
           \/ \E i \in DOMAIN accounts : Revoke(i)
    PROVE  IInv'
<1>1. ASSUME UNCHANGED <<scene, rules, topology, cache, call>>,
             accounts' \in Seq(Row), Len(accounts') <= MaxRows
      PROVE  IInv'
  <2>1. ASSUME NEW c \in Client PROVE Justified(c)'
    <3>1. Justified(c)
      BY DEF IInv
    <3>2. \A s, t, args : Screened(c, s, t, args)' = Screened(c, s, t, args)
      BY <1>1 DEF Screened, ClientId, Caller
    <3> QED BY <1>1, <3>1, <3>2, SceneOnly DEF Justified
  <2>2. Calls' = Calls
    BY <1>1, SceneOnly DEF Calls
  <2>3. Filed'
    BY <1>1, FiledFewer DEF IInv
  <2> QED BY <1>1, <2>1, <2>2, <2>3, SceneOnly DEF IInv, topology
<1>2. ASSUME NEW slot \in scene.slots, NEW replace \in BOOLEAN, NEW later \in {0, 1},
             Connect(slot, replace, later)
      PROVE  IInv'
  <2> DEFINE kept == IF replace
                     THEN Replaced(accounts, slot.workspace, slot.client, slot.tenant)
                     ELSE accounts
             new == [workspace |-> slot.workspace, client |-> slot.client,
                     tenant |-> slot.tenant, live |-> TRUE, stamp |-> LastStamp + later]
  <2>1. /\ accounts' = Append(kept, new) /\ Len(accounts) < MaxRows
        /\ UNCHANGED <<scene, rules, topology, cache, call>>
    BY <1>2 DEF Connect, Created
  <2>2. kept \in Seq(Row) /\ Len(kept) = Len(accounts)
    BY ReplacedFacts DEF IInv
  <2>3. LastStamp \in Nat
    <3>1. accounts \in Seq(Row)
      BY DEF IInv
    <3>2. accounts # <<>> => accounts[Len(accounts)] \in Row
      BY <3>1
    <3> QED BY <3>2 DEF LastStamp, Row
  <2>4. new \in Row
    BY <2>3 DEF Row
  <2> HIDE DEF kept, new
  <2>5. accounts' \in Seq(Row) /\ Len(accounts') <= MaxRows
    BY <2>1, <2>2, <2>4, ToolAccessAssumption
  <2> QED BY <1>1, <2>1, <2>5
<1>3. ASSUME NEW i \in DOMAIN accounts, Revoke(i) PROVE IInv'
  <2> DEFINE new == [accounts[i] EXCEPT !.live = FALSE]
  <2>1. /\ accounts' = [accounts EXCEPT ![i] = new]
        /\ UNCHANGED <<scene, rules, topology, cache, call>>
    BY <1>3 DEF Revoke
  <2>2. accounts[i] \in Row
    BY DEF IInv
  <2>3. new \in Row
    BY <2>2 DEF Row
  <2>4. accounts' \in Seq(Row) /\ Len(accounts') <= MaxRows
    BY <2>1, <2>3 DEF IInv
  <2> QED BY <1>1, <2>1, <2>4
<1> QED BY <1>2, <1>3

\* Every step keeps the invariant.
LEMMA NextIInv == IInv /\ [Next]_vars => IInv'
<1> SUFFICES ASSUME IInv, [Next]_vars PROVE IInv'
  OBVIOUS
<1>1. ASSUME NEW c \in Client,
             \/ \E e \in Endpoint, n \in Names, args \in scene.args : Judge(c, e, n, args)
             \/ TurnedAway(c) \/ Step(c)
      PROVE  IInv'
  BY <1>1, JudgeIInv, EndIInv, LookupIInv, AnsweredIInv DEF Step
<1>2. ASSUME NEW s \in Server,
             \/ \E offered \in scene.offers[s] : Relist(s, offered)
             \/ \E offered \in scene.offers[s] : Refresh(s, offered)
             \/ RefreshFails(s) \/ Turn(s)
      PROVE  IInv'
  <2>1. scene.offers[s] \subseteq SUBSET Tool
    BY ToolAccessAssumption DEF IInv
  <2> QED BY <1>2, <2>1, AroundIInv
<1>3. CASE (\E entry \in cache : Evict(entry)) \/ (\E new \in scene.rules : Reload(new))
           \/ CheckHealth
  BY <1>3, AroundIInv
<1>4. CASE \/ \E slot \in scene.slots, replace \in BOOLEAN, later \in {0, 1} :
                 Connect(slot, replace, later)
           \/ \E i \in DOMAIN accounts : Revoke(i)
  BY <1>4, AccountsIInv
<1>5. CASE UNCHANGED vars
  <2>1. Filed'
    BY <1>5, FiledFewer DEF IInv, vars
  <2> QED BY <1>5, <2>1, CallsIInv DEF vars, topology, IInv
<1> QED BY <1>1, <1>2, <1>3, <1>4, <1>5 DEF Next

\* The inductive invariant holds in every behaviour.
THEOREM Invariance == Spec => []IInv
BY InitIInv, NextIInv, PTL DEF Spec

----------------------------------------------------------------------------
(* The theorems.                                                           *)

\* Arguments that agree on every field a guardrail looks at get one verdict.
LEMMA VerdictSame ==
    ASSUME NEW guardrails, NEW client, NEW server, NEW tool, NEW a, NEW b,
           \A f \in Looked(guardrails) : a[f] = b[f]
    PROVE  GuardrailAction(guardrails, client, server, tool, a)
               = GuardrailAction(guardrails, client, server, tool, b)
<1> DEFINE fits(args) ==
        {i \in DOMAIN guardrails.rules :
            /\ client \in guardrails.rules[i].clients
            /\ server \in guardrails.rules[i].servers
            /\ \/ guardrails.rules[i].bypass
               \/ /\ tool \in guardrails.rules[i].tools
                  /\ \A k \in guardrails.rules[i].conditions : ConditionMet(k, args)}
           first(args) ==
        IF fits(args) = {} THEN 0
        ELSE CHOOSE i \in fits(args) : \A j \in fits(args) : i <= j
<1>1. ASSUME NEW i \in DOMAIN guardrails.rules,
             NEW k \in guardrails.rules[i].conditions
      PROVE  ConditionMet(k, a) <=> ConditionMet(k, b)
  <2>1. a[k.field] = b[k.field]
    BY DEF Looked
  <2> QED BY <2>1 DEF ConditionMet
<1>2. fits(a) = fits(b)
  BY <1>1
<1>3. \A args : GuardrailAction(guardrails, client, server, tool, args) =
          IF first(args) = 0
          THEN (IF guardrails.default = "allow" THEN "allow" ELSE "block")
          ELSE IF guardrails.rules[first(args)].bypass THEN "allow"
               ELSE guardrails.rules[first(args)].action
  BY DEF GuardrailAction, First
<1> HIDE DEF fits
<1>4. first(a) = first(b)
  BY <1>2
<1> HIDE DEF first
<1> QED BY <1>3, <1>4

\* Without authentication everybody is anonymous; with it, a known client is
\* who it was given its credentials as.
LEMMA KnownHolder ==
    ASSUME scene \in Scenes, NEW c \in Known
    PROVE  ClientId(c) = Holder(c).client /\ TenantId(c) = Holder(c).tenant
<1>1. c \in Client /\ Caller(c) # None
  BY DEF Known
<1>2. CASE Trusting
  <2>1. Caller(c) = Principal("anonymous", "default")
    BY <1>2 DEF Caller, Authenticated, Trusting
  <2> QED BY <1>2, <2>1 DEF ClientId, TenantId, Holder
<1>3. CASE ~Trusting
  <2>1. Caller(c) = Principal(c, TenantOf[c])
    BY <1>1, <1>3, CredentialsAssumption DEF Caller, Trusting
  <2> QED BY <1>3, <2>1 DEF ClientId, TenantId, Holder
<1> QED BY <1>2, <1>3

\* One key, one tenant.
LEMMA SameTenant ==
    ASSUME scene \in Scenes, NEW c \in Known, NEW d \in Known,
           CacheTenant(d) = CacheTenant(c), scene.isolation
    PROVE  IF Trusting THEN Claimed(d) = Claimed(c) ELSE TenantOf[d] = TenantOf[c]
<1>1. CASE Trusting
  <2>1. TenantId(c) = "default" /\ TenantId(d) = "default"
    BY <1>1, KnownHolder DEF Holder, Principal
  <2> QED BY <1>1, <2>1 DEF CacheTenant, Claimed
<1>2. CASE ~Trusting
  <2>1. TenantId(c) = TenantOf[c] /\ TenantId(d) = TenantOf[d]
    BY <1>2, KnownHolder DEF Holder, Principal
  <2> QED BY <1>2, <2>1 DEF CacheTenant
<1> QED BY <1>1, <1>2

\* An answer is that of the tool and the arguments the call was judged for, made
\* for a client of the caller's tenant, and one the guardrails let the caller
\* ask for (pipeline.ts:674, cache-key.ts:43, inflight.ts).
THEOREM AnswersAlwaysOwn == Spec => []AnswersAreOwn
<1>1. ASSUME IInv PROVE TypeOK
  <2>1. ASSUME NEW entry \in cache
        PROVE  entry.got \in Answers /\ At(entry.key) = {entry}
    BY <1>1 DEF IInv, Filed, MadeFor, At
  <2>2. ASSUME NEW c \in Client PROVE [call[c] EXCEPT !.key = None] \in CallType
    <3>1. call[c] \in Calls
      BY <1>1 DEF IInv
    <3> QED BY <3>1 DEF Calls, CallType
  <2> QED BY <1>1, <2>1, <2>2 DEF IInv, TypeOK
<1>2. ASSUME IInv, NEW c \in Client, call[c].phase = "done"
      PROVE  LET got == call[c].got
             IN  /\ got.server = call[c].server /\ got.tool = call[c].tool
                 /\ Kept(got.args, Ignored(c)) = Kept(call[c].args, Ignored(c))
                 /\ scene.rules = {rules} /\ Looked(rules.guardrails) \cap Ignored(c) = {} =>
                       Screened(c, got.server, got.tool, got.args) # "block"
                 /\ scene.isolation =>
                       IF Trusting THEN Claimed(got.client) = Claimed(c)
                       ELSE TenantOf[got.client] = TenantOf[c]
  <2> DEFINE got == call[c].got
             args == call[c].args
             s == call[c].server
             t == call[c].tool
  <2>1. /\ Asked(c, s, t, args)
        /\ scene.rules = {rules} => Screened(c, s, t, args) # "block"
        /\ MadeFor(got, KeyFor(c, s, t, args))
    BY <1>2 DEF IInv, Justified
  <2>2. /\ Asked(got.client, got.server, got.tool, got.args)
        /\ KeyFor(got.client, got.server, got.tool, got.args) = KeyFor(c, s, t, args)
    BY <2>1 DEF MadeFor
  <2>3. /\ got.server = s /\ got.tool = t /\ CacheTenant(got.client) = CacheTenant(c)
        /\ Kept(got.args, IgnoredFor(got.server, got.tool)) = Kept(args, IgnoredFor(s, t))
    BY <2>2 DEF KeyFor
  <2>4. IgnoredFor(s, t) = Ignored(c)
    BY IgnoredSame DEF Ignored
  <2>5. Kept(got.args, Ignored(c)) = Kept(args, Ignored(c))
    BY <2>3, <2>4
  <2>6. ASSUME scene.rules = {rules}, Looked(rules.guardrails) \cap Ignored(c) = {}
        PROVE  Screened(c, got.server, got.tool, got.args) # "block"
    <3>1. /\ Looked(rules.guardrails) \subseteq DOMAIN args
          /\ Looked(rules.guardrails) \subseteq DOMAIN got.args
      BY <1>2, <2>1, <2>2, ArgumentsAssumption DEF Asked, IInv
    <3>2. ASSUME NEW f \in Looked(rules.guardrails) PROVE got.args[f] = args[f]
      <4>1. /\ Kept(args, Ignored(c))[f] = args[f]
            /\ Kept(got.args, Ignored(c))[f] = got.args[f]
        BY <2>6, <3>1 DEF Kept
      <4> QED BY <2>5, <4>1
    <3>3. GuardrailAction(rules.guardrails, ClientId(c), s, t, got.args)
              = GuardrailAction(rules.guardrails, ClientId(c), s, t, args)
      BY <3>2, VerdictSame
    <3> QED BY <2>1, <2>3, <2>6, <3>3 DEF Screened
  <2>7. ASSUME scene.isolation
        PROVE  IF Trusting THEN Claimed(got.client) = Claimed(c)
               ELSE TenantOf[got.client] = TenantOf[c]
    <3>1. c \in Known /\ got.client \in Known /\ scene \in Scenes
      BY <1>2, <2>1, <2>2 DEF Asked, IInv
    <3> QED BY <2>3, <2>7, <3>1, SameTenant
  <2> QED BY <2>3, <2>5, <2>6, <2>7
<1>3. IInv => AnswersAreOwn
  BY <1>1, <1>2 DEF AnswersAreOwn
<1> QED BY <1>3, Invariance, PTL

\* A name of the map leads to the route it is the name of.
LEMMA ListedResolves ==
    ASSUME IInv, NEW r \in routes
    PROVE  Resolved(r.name, routes, scene.strategy) = {r}
<1>1. {q \in routes : q.name = r.name} = {r}
  BY DEF IInv, Maps
<1> QED BY <1>1 DEF Resolved

\* What tools/list offers a client, tools/call lets it do (pipeline.ts:919
\* against 233), however stale the name map is.
THEOREM ListedAlwaysCallable == Spec => []ListedIsCallable
<1>1. ASSUME IInv, NEW c \in Known, NEW e \in Endpoint, NEW l \in Listing(c, e),
             Routable(l.server)
      PROVE  /\ Target(e, l.name).server = l.server /\ Target(e, l.name).tool = l.tool
             /\ Passes(c, e, l.name)
  <2> DEFINE found == Resolved(l.name, routes, scene.strategy)
             route == CHOOSE r \in found : TRUE
  <2>1. CASE Routable(e)
    <3>1. PICK t \in tools[e] : /\ l = [name |-> <<t>>, server |-> e, tool |-> t]
                                /\ Permitted(rules, ClientId(c), e, t)
      BY <2>1 DEF Listing
    <3>2. e \in Server
      BY <1>1, <2>1 DEF Routable, IInv
    <3>3. e \in Members(e)
      BY <3>2, ToolAccessAssumption DEF Members
    <3>4. TryTool(l.name) = t
      BY <3>1 DEF TryTool
    <3>5. ASSUME found # {}, route.server = e PROVE route.tool = t
      <4>1. PICK r \in found : r = route
        BY <3>5
      <4>2. r \in routes /\ r.name = <<t>>
        BY <3>1, <4>1 DEF Resolved
      <4>3. PICK s \in Server, u \in Tool :
                r = [name |-> Named(s, u, scene.strategy), server |-> s, tool |-> u]
        BY <1>1, <4>2 DEF IInv, Maps
      <4>4. Named(s, u, scene.strategy) = <<t>>
        BY <4>2, <4>3
      <4>5. u = t
        BY <4>4 DEF Named
      <4> HIDE DEF found, route
      <4> QED BY <4>1, <4>3, <4>5
    <3> HIDE DEF found, route
    <3>6. Target(e, l.name) = [server |-> e, routed |-> TRUE, tool |-> t]
      <4>1. Target(e, l.name) =
                [server |-> e, routed |-> TRUE,
                 tool |-> IF found # {} /\ route.server = e THEN route.tool
                          ELSE TryTool(l.name)]
        BY <2>1 DEF Target, found, route
      <4> QED BY <3>4, <3>5, <4>1
    <3> QED BY <3>1, <3>3, <3>6 DEF Passes
  <2>2. CASE ~Routable(e)
    <3>1. /\ l \in routes /\ l.server \in Members(e)
          /\ Permitted(rules, ClientId(c), l.server, l.tool)
      BY <2>2 DEF Listing, Aggregated, Advertised
    <3>2. found = {l} /\ route = l
      BY <1>1, <3>1, ListedResolves
    <3> HIDE DEF found, route
    <3>3. Target(e, l.name) = [server |-> l.server, routed |-> TRUE, tool |-> l.tool]
      <4>1. found # {} /\ Routable(route.server)
        BY <1>1, <3>2
      <4>2. Target(e, l.name) =
                [server |-> route.server, routed |-> TRUE, tool |-> route.tool]
        BY <2>2, <4>1 DEF Target, found, route
      <4> QED BY <3>2, <4>2
    <3> QED BY <3>1, <3>3 DEF Passes
  <2> QED BY <2>1, <2>2
<1>2. IInv => ListedIsCallable
  BY <1>1 DEF ListedIsCallable
<1> QED BY <1>2, Invariance, PTL

\* The preflight tells what a call would meet, and a call never goes out with
\* the account of another workspace, client or tenant (identity/runtime.ts:119
\* and 255).
THEOREM PreflightAlwaysHonest == Spec => []PreflightHonest
<1>1. ASSUME IInv, NEW c \in Known, NEW s \in Server,
             scene.needs[s] # None, scene.needs[s].required
      PROVE  LET needs == scene.needs[s]
                 rows == Usable(accounts, scene.identity, needs, ClientId(c), TenantId(c))
             IN  /\ Throws(accounts, scene.identity, needs, ClientId(c), TenantId(c))
                       <=> Blocking(accounts, scene.identity, needs, ClientId(c), TenantId(c))
                 /\ \A i \in rows :
                       /\ accounts[i].live
                       /\ accounts[i].workspace
                             = WorkspaceOf(scene.identity, Holder(c).tenant)
                       /\ accounts[i].client \in {Holder(c).client, None}
                       /\ accounts[i].tenant \in {Holder(c).tenant, None}
  <2>1. scene \in Scenes /\ scene.needs[s] \in Needs \union {None}
    BY <1>1, ToolAccessAssumption DEF IInv
  <2>2. ClientId(c) = Holder(c).client /\ TenantId(c) = Holder(c).tenant
    BY <2>1, KnownHolder
  <2>3. Throws(accounts, scene.identity, scene.needs[s], ClientId(c), TenantId(c))
            <=> Blocking(accounts, scene.identity, scene.needs[s], ClientId(c), TenantId(c))
    BY <1>1 DEF Throws, Blocking
  <2> QED BY <2>1, <2>2, <2>3, UsableFacts DEF Live
<1>2. IInv => PreflightHonest
  BY <1>1 DEF PreflightHonest
<1> QED BY <1>2, Invariance, PTL

\* Once an account is replaced, no other account of its slot is found, even one
\* made in the same millisecond (store.ts:127).
THEOREM ReplacementAlwaysWins == Spec => ReplacementWins
<1>1. ASSUME IInv, NEW slot \in scene.slots, NEW later \in {0, 1},
             Connect(slot, TRUE, later)
      PROVE  FindOne(accounts', slot.workspace, slot.client, slot.tenant)
                 = {Len(accounts')}
  <2> DEFINE kept == Replaced(accounts, slot.workspace, slot.client, slot.tenant)
             new == [workspace |-> slot.workspace, client |-> slot.client,
                     tenant |-> slot.tenant, live |-> TRUE, stamp |-> LastStamp + later]
             n == Len(accounts) + 1
  <2>1. accounts' = Append(kept, new)
    BY <1>1 DEF Connect, Created
  <2>2. /\ kept \in Seq(Row) /\ Len(kept) = Len(accounts)
        /\ InSlot(kept, slot.workspace, slot.client, slot.tenant) = {}
    BY <1>1, ReplacedFacts DEF IInv
  <2>3. LastStamp \in Nat
    <3>1. accounts \in Seq(Row)
      BY <1>1 DEF IInv
    <3>2. accounts # <<>> => accounts[Len(accounts)] \in Row
      BY <3>1
    <3> QED BY <3>2 DEF LastStamp, Row
  <2>4. /\ new.live = TRUE /\ new.workspace = slot.workspace
        /\ new.client = slot.client /\ new.tenant = slot.tenant /\ new.stamp \in Nat
    BY <2>3
  <2> HIDE DEF kept, new
  <2>5. /\ DOMAIN accounts' = 1 .. n /\ Len(accounts') = n /\ accounts'[n] = new
        /\ \A i \in 1 .. Len(accounts) : accounts'[i] = kept[i]
        /\ DOMAIN kept = 1 .. Len(accounts) /\ Len(accounts) \in Nat
    BY <1>1, <2>1, <2>2 DEF IInv
  <2>6. InSlot(accounts', slot.workspace, slot.client, slot.tenant) = {n}
    <3>1. n \in InSlot(accounts', slot.workspace, slot.client, slot.tenant)
      BY <2>4, <2>5 DEF InSlot, Live
    <3>2. ASSUME NEW i \in InSlot(accounts', slot.workspace, slot.client, slot.tenant),
                 i # n
          PROVE  FALSE
      <4>1. i \in 1 .. Len(accounts)
        BY <2>5, <3>2 DEF InSlot, Live
      <4>2. i \in InSlot(kept, slot.workspace, slot.client, slot.tenant)
        BY <2>5, <3>2, <4>1 DEF InSlot, Live
      <4> QED BY <2>2, <4>2
    <3> QED BY <3>1, <3>2
  <2> QED BY <2>4, <2>5, <2>6 DEF FindOne
<1>2. IInv /\ [Next]_vars =>
          [\A slot \in scene.slots : (\E later \in {0, 1} : Connect(slot, TRUE, later)) =>
              FindOne(accounts', slot.workspace, slot.client, slot.tenant)
                 = {Len(accounts')}]_vars
  BY <1>1
<1> QED BY <1>2, Invariance, PTL DEF Spec, ReplacementWins
=============================================================================
