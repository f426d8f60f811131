-------------------------- MODULE GovernanceProofs --------------------------
(***************************************************************************)
(* Every safety property of Governance, for all clients, workspaces,       *)
(* configurations and lifetimes.                                           *)
(*                                                                         *)
(* ApprovedProperly speaks of calls; what a step may do to the row of a    *)
(* request is independent of them.  RowStep states it once; the inductive  *)
(* invariant adds that every decided row was decided properly, which is    *)
(* what a call finds when it presents the id.                              *)
(***************************************************************************)
EXTENDS Governance, TLAPS

Decided(i) == request[i].status \in {"approved", "rejected"}

VerdictsProper == \A i \in Ids : Decided(i) => ProperVerdict(i)

IInv == TypeOK /\ VerdictsProper /\ ApprovedProperly /\ OnePending

\* What a step may do to the row of request i.
RowStep(i) ==
    \* a closed row stays as it is,
    /\ request[i].status \in {"approved", "rejected", "expired"} =>
          /\ request'[i].status = request[i].status
          /\ request'[i].client = request[i].client
          /\ request'[i].args = request[i].args
          /\ request'[i].by = request[i].by
          /\ verdict'[i] = verdict[i]
    \* one that has expired is not decided,
    /\ request[i].status = "pending" /\ Expired(request[i]) =>
          request'[i].status \in {"pending", "expired"}
    \* one that becomes decided is decided properly,
    /\ Decided(i)' /\ ~Decided(i) => ProperVerdict(i)'
    \* and one that is live was so before, or is new and the only one.
    /\ Live(i)' =>
          \/ /\ Live(i)
             /\ request'[i].client = request[i].client
             /\ request'[i].args = request[i].args
          \/ /\ Reusable(request'[i].client, request'[i].args) = {}
             /\ \A j \in Ids \ {i} : Live(j)' => Live(j)
                   /\ request'[j].client = request[j].client
                   /\ request'[j].args = request[j].args

----------------------------------------------------------------------------
(* The store.                                                              *)

\* Pruning keeps a row in its type and changes only a pending row that has
\* expired (store.ts 350-360).
LEMMA PrunedRow ==
    ASSUME NEW r \in RequestType
    PROVE  /\ Pruned(r) \in RequestType
           /\ Pruned(r).client = r.client /\ Pruned(r).args = r.args
           /\ Pruned(r).by = r.by /\ Pruned(r).left = r.left
           /\ ~(r.status = "pending" /\ Expired(r)) => Pruned(r) = r
           /\ r.status = "pending" /\ Expired(r) => Pruned(r).status = "expired"
  BY DEF Pruned, RequestType, Expired

\* What a look at the store does to a row.
LEMMA LookRow ==
    ASSUME TypeOK, VerdictsProper,
           request' = PrunedRequests, UNCHANGED verdict
    PROVE  /\ request' \in [Ids -> RequestType]
           /\ \A i \in Ids : RowOK(request'[i]) /\ RowStep(i)
  <1>1. request' = [i \in Ids |-> Pruned(request[i])]
    BY DEF PrunedRequests
  <1>2. request' \in [Ids -> RequestType]
    BY <1>1, PrunedRow DEF TypeOK
  <1>3. ASSUME NEW i \in Ids
        PROVE  RowOK(request'[i]) /\ RowStep(i)
    <2>1. request[i] \in RequestType /\ request'[i] = Pruned(request[i])
      BY <1>1 DEF TypeOK
    <2>2. CASE request[i].status = "pending" /\ Expired(request[i])
      BY <2>1, <2>2, PrunedRow DEF TypeOK, RowOK, RowStep, Decided, Live
    <2>3. CASE ~(request[i].status = "pending" /\ Expired(request[i]))
      <3>1. request'[i] = request[i]
        BY <2>1, <2>3, PrunedRow
      <3> QED BY <3>1, <2>1 DEF TypeOK, RowOK, RowStep, Decided, Live
    <2> QED BY <2>2, <2>3
  <1> QED BY <1>2, <1>3

\* What a call without an approval id does to a row.
LEMMA CreateRow ==
    ASSUME TypeOK, VerdictsProper, NEW c \in Clients, NEW a \in Args,
           CreateOrReuse(c, a)
    PROVE  /\ request' \in [Ids -> RequestType]
           /\ UNCHANGED verdict
           /\ \A i \in Ids : RowOK(request'[i]) /\ RowStep(i)
  <1>1. UNCHANGED verdict
    BY DEF CreateOrReuse
  <1>2. CASE request' = PrunedRequests
    BY <1>1, <1>2, LookRow
  <1>3. CASE /\ Reusable(c, a) = {}
             /\ \E n \in Ids :
                   /\ request[n].status = "none"
                   /\ request' = [PrunedRequests EXCEPT ![n] =
                         [status |-> "pending", client |-> c, args |-> a,
                          by |-> NoClient, left |-> Ttl]]
    <2> DEFINE new == [status |-> "pending", client |-> c, args |-> a,
                       by |-> NoClient, left |-> Ttl]
    <2>1. PICK n \in Ids : /\ request[n].status = "none"
                           /\ request' = [PrunedRequests EXCEPT ![n] = new]
      BY <1>3
    <2>2. PrunedRequests = [i \in Ids |-> Pruned(request[i])]
      BY DEF PrunedRequests
    <2>3. new \in RequestType
      BY GovernanceAssumption DEF RequestType
    <2>4. request' = [i \in Ids |-> IF i = n THEN new ELSE Pruned(request[i])]
      BY <2>1, <2>2
    <2>5. \A i \in Ids : request[i] \in RequestType
      BY DEF TypeOK
    <2>6. request' \in [Ids -> RequestType]
      BY <2>3, <2>4, <2>5, PrunedRow
    <2>7. request'[n] = new
      BY <2>4
    <2>8. ASSUME NEW j \in Ids, j # n
          PROVE  /\ RowOK(request'[j])
                 /\ RowStep(j)
                 /\ Live(j)' => /\ Live(j)
                               /\ request'[j].client = request[j].client
                               /\ request'[j].args = request[j].args
      <3>1. request'[j] = Pruned(request[j]) /\ request[j] \in RequestType
        BY <2>4, <2>5, <2>8
      <3>2. CASE request[j].status = "pending" /\ Expired(request[j])
        BY <3>1, <3>2, <1>1, PrunedRow DEF TypeOK, RowOK, RowStep, Decided, Live
      <3>3. CASE ~(request[j].status = "pending" /\ Expired(request[j]))
        <4>1. request'[j] = request[j]
          BY <3>1, <3>3, PrunedRow
        <4> QED BY <4>1, <3>1, <1>1 DEF TypeOK, RowOK, RowStep, Decided, Live
      <3> QED BY <3>2, <3>3
    <2>9. RowOK(request'[n])
      BY <2>7, GovernanceAssumption DEF RowOK
    <2>10. RowStep(n)
      <3>1. ~Decided(n)'
        BY <2>7 DEF Decided
      <3>2. Reusable(request'[n].client, request'[n].args) = {}
        BY <1>3, <2>7
      <3>3. \A j \in Ids \ {n} : Live(j)' => Live(j)
               /\ request'[j].client = request[j].client
               /\ request'[j].args = request[j].args
        BY <2>8
      <3> QED BY <2>1, <3>1, <3>2, <3>3 DEF RowStep
    <2> QED BY <1>1, <2>6, <2>8, <2>9, <2>10
  <1> QED BY <1>2, <1>3 DEF CreateOrReuse

\* What a step of the pipeline that demands an approval does to a row.
LEMMA EnforceRow ==
    ASSUME TypeOK, VerdictsProper, NEW q, NEW k \in CallType, NEW next,
           k.client \in Clients, k.args \in Args, Enforce(q, k, next)
    PROVE  /\ request' \in [Ids -> RequestType]
           /\ UNCHANGED verdict
           /\ \A i \in Ids : RowOK(request'[i]) /\ RowStep(i)
  <1>1. CASE request' = PrunedRequests /\ UNCHANGED verdict
    BY <1>1, LookRow
  <1>2. CASE CreateOrReuse(k.client, k.args)
    BY <1>2, CreateRow
  <1> QED BY <1>1, <1>2 DEF Enforce

\* A decision closes one live row, in the name of somebody entitled to it.
LEMMA DecideRow ==
    ASSUME TypeOK, VerdictsProper, NEW n \in Ids,
           NEW actor \in Clients, NEW by \in Clients,
           NEW status \in {"approved", "rejected"}, Decide(n, actor, by, status)
    PROVE  /\ request' \in [Ids -> RequestType]
           /\ verdict' \in [Ids -> VerdictType]
           /\ \A i \in Ids : RowOK(request'[i]) /\ RowStep(i)
  <1> DEFINE row == [request[n] EXCEPT !.status = status, !.by = by]
             v == [actor |-> actor, by |-> by, self |-> config.self,
                   deciders |-> config.deciders[WorkspaceOf[request[n].client]]]
  <1>1. \A i \in Ids : request[i] \in RequestType
    BY DEF TypeOK
  <1>2. request[n].status = "pending" /\ ~Expired(request[n])
    BY DEF Decide, Decidable, Live
  <1>3. Pruned(request[n]) = request[n]
    BY <1>1, <1>2, PrunedRow
  <1>4. PrunedRequests = [i \in Ids |-> Pruned(request[i])]
    BY DEF PrunedRequests
  <1>5. request' = [i \in Ids |-> IF i = n THEN row ELSE Pruned(request[i])]
    BY <1>3, <1>4 DEF Decide
  <1>6. /\ row \in RequestType
        /\ row.status = status /\ row.by = by
        /\ row.client = request[n].client /\ row.args = request[n].args
    BY <1>1 DEF RequestType
  <1>7. request' \in [Ids -> RequestType]
    BY <1>1, <1>5, <1>6, PrunedRow
  <1>8. by \in config.deciders[WorkspaceOf[request[n].client]]
    BY DEF Decide, Entitled
  <1>9. config \in ConfigType
    BY GovernanceAssumption DEF TypeOK
  <1>10. request[n].client \in Clients
    BY <1>1, <1>2 DEF TypeOK, RowOK, RequestType
  <1>11. v \in VerdictType
    BY <1>9, <1>10, GovernanceAssumption DEF VerdictType, ConfigType
  <1>12. verdict' = [verdict EXCEPT ![n] = v]
    BY DEF Decide
  <1>13. verdict' \in [Ids -> VerdictType]
    BY <1>11, <1>12 DEF TypeOK
  <1>14. ASSUME NEW j \in Ids, j # n
         PROVE  RowOK(request'[j]) /\ RowStep(j)
    <2>1. /\ request'[j] = Pruned(request[j]) /\ request[j] \in RequestType
          /\ verdict'[j] = verdict[j]
      BY <1>1, <1>5, <1>12, <1>14 DEF TypeOK
    <2>2. CASE request[j].status = "pending" /\ Expired(request[j])
      BY <2>1, <2>2, PrunedRow DEF TypeOK, RowOK, RowStep, Decided, Live
    <2>3. CASE ~(request[j].status = "pending" /\ Expired(request[j]))
      <3>1. request'[j] = request[j]
        BY <2>1, <2>3, PrunedRow
      <3> QED BY <3>1, <2>1 DEF TypeOK, RowOK, RowStep, Decided, Live
    <2> QED BY <2>2, <2>3
  <1>15. request'[n] = row /\ verdict'[n] = v
    BY <1>5, <1>12 DEF TypeOK
  <1>16. RowOK(request'[n])
    BY <1>6, <1>2, <1>15, GovernanceAssumption DEF TypeOK, RowOK
  <1>17. ProperVerdict(n)'
    <2>1. /\ request'[n].by = by /\ request'[n].client = request[n].client
          /\ verdict'[n].actor = actor /\ verdict'[n].by = by
          /\ verdict'[n].self = config.self
          /\ verdict'[n].deciders
                = config.deciders[WorkspaceOf[request[n].client]]
      BY <1>6, <1>15
    <2>2. /\ AuthOn => actor = by
          /\ config.self \/ by # request[n].client
      BY DEF Decide, Entitled
    <2> QED BY <1>8, <2>1, <2>2, Zenon DEF ProperVerdict
  <1>18. ~Live(n)'
    BY <1>6, <1>15 DEF Live
  <1>19. RowStep(n)
    BY <1>2, <1>17, <1>18 DEF RowStep
  <1> QED BY <1>7, <1>13, <1>14, <1>16, <1>19

\* Time makes no row live, and closes none.
LEMMA TickRow ==
    ASSUME TypeOK, VerdictsProper, Tick
    PROVE  /\ request' \in [Ids -> RequestType]
           /\ UNCHANGED verdict
           /\ \A i \in Ids : RowOK(request'[i]) /\ RowStep(i)
  <1>1. UNCHANGED verdict
    BY DEF Tick
  <1>2. ASSUME NEW r \in RequestType, r.left > 0
        PROVE  /\ [r EXCEPT !.left = @ - 1] \in RequestType
               /\ [r EXCEPT !.left = @ - 1].status = r.status
               /\ [r EXCEPT !.left = @ - 1].client = r.client
               /\ [r EXCEPT !.left = @ - 1].args = r.args
               /\ [r EXCEPT !.left = @ - 1].by = r.by
    BY <1>2, GovernanceAssumption DEF RequestType
  <1>3. request' \in [Ids -> RequestType]
    BY <1>2 DEF Tick, TypeOK
  <1>4. ASSUME NEW i \in Ids
        PROVE  RowOK(request'[i]) /\ RowStep(i)
    <2>1. request[i] \in RequestType
      BY DEF TypeOK
    <2>2. CASE request[i].left > 0
      <3>1. /\ request'[i].status = request[i].status
            /\ request'[i].client = request[i].client
            /\ request'[i].args = request[i].args
            /\ request'[i].by = request[i].by
        BY <1>2, <2>1, <2>2 DEF Tick
      <3>2. ~Expired(request[i])
        BY <2>2 DEF Expired
      <3> QED BY <1>1, <3>1, <3>2 DEF TypeOK, RowOK, RowStep, Decided, Live
    <2>3. CASE ~(request[i].left > 0)
      <3>1. request'[i] = request[i]
        BY <2>3 DEF Tick
      <3> QED BY <1>1, <3>1 DEF TypeOK, RowOK, RowStep, Decided, Live
    <2> QED BY <2>2, <2>3
  <1> QED BY <1>1, <1>3, <1>4

----------------------------------------------------------------------------
(* The calls.                                                              *)

\* A grant stays what it is (store.ts 350-360: a prune leaves it alone).
LEMMA GrantStays ==
    ASSUME TypeOK, NEW i \in Ids, RowStep(i),
           request[i].status = "approved", ProperVerdict(i)
    PROVE  /\ request'[i].status = "approved"
           /\ request'[i].client = request[i].client
           /\ request'[i].args = request[i].args
           /\ ProperVerdict(i)'
  <1>1. /\ request'[i].status = "approved"
        /\ request'[i].client = request[i].client
        /\ request'[i].args = request[i].args
        /\ request'[i].by = request[i].by
        /\ verdict'[i] = verdict[i]
    BY DEF RowStep
  <1>2. ProperVerdict(i)'
    BY <1>1, Zenon DEF ProperVerdict
  <1> QED BY <1>1, <1>2

\* A grant that verifyApprovalGrant() finds was decided properly.
LEMMA GrantHolds ==
    ASSUME TypeOK, VerdictsProper, NEW k \in CallType,
           Grants(k.id, k.client, k.args)
    PROVE  /\ k.id \in Ids
           /\ request[k.id].status = "approved"
           /\ request[k.id].client = k.client /\ request[k.id].args = k.args
           /\ ProperVerdict(k.id)
  BY DEF Grants, VerdictsProper, Decided

\* A call is answered, a new one with nothing to show, further on its way or
\* as it was, or let through on a grant.
CallStep(q) ==
    \/ call'[q] = Idle
    \/ /\ call'[q].at # "idle"
       /\ call'[q].client \in Clients /\ call'[q].args \in Args
       /\ ~call'[q].held
    \/ /\ call[q].at # "idle" => call'[q].at # "idle"
       /\ call[q].at = "idle" => call'[q] = call[q]
       /\ call'[q].client = call[q].client /\ call'[q].args = call[q].args
       /\ call'[q].id = call[q].id /\ call'[q].held = call[q].held
    \/ /\ call'[q].at # "idle"
       /\ call'[q].client \in Clients /\ call'[q].args \in Args
       /\ Grants(call'[q].id, call'[q].client, call'[q].args)

\* Every step changes rows and calls in these ways only.
Changes ==
    /\ config' \in Configs
    /\ request' \in [Ids -> RequestType]
    /\ verdict' \in [Ids -> VerdictType]
    /\ \A i \in Ids : RowOK(request'[i]) /\ RowStep(i)
    /\ call' \in [Calls -> CallType]
    /\ \A q \in Calls : CallStep(q)

\* Steps that touch no row.
LEMMA SameRows ==
    ASSUME TypeOK, UNCHANGED <<request, verdict>>
    PROVE  /\ request' \in [Ids -> RequestType]
           /\ verdict' \in [Ids -> VerdictType]
           /\ \A i \in Ids : RowOK(request'[i]) /\ RowStep(i)
  BY DEF TypeOK, RowStep, Decided, Live

\* Steps that touch no call.
LEMMA SameCalls ==
    ASSUME TypeOK, UNCHANGED call
    PROVE  call' \in [Calls -> CallType] /\ \A q \in Calls : CallStep(q)
  BY DEF TypeOK, CallStep

\* Steps that move one call.
LEMMA OneCall ==
    ASSUME TypeOK, NEW q \in Calls, NEW k \in CallType,
           call' = [call EXCEPT ![q] = k], CallStep(q)
    PROVE  call' \in [Calls -> CallType] /\ \A p \in Calls : CallStep(p)
  <1>1. call \in [Calls -> CallType]
    BY DEF TypeOK
  <1>2. call'[q] = k /\ \A p \in Calls \ {q} : call'[p] = call[p]
    BY <1>1
  <1>3. \A p \in Calls \ {q} : CallStep(p)
    BY <1>2 DEF CallStep
  <1> QED BY <1>1, <1>2, <1>3

LEMMA IdleTyped == Idle \in CallType
  BY DEF Idle, CallType

\* A call is held back, or let through, by the policy or by a guardrail.
LEMMA EnforceChanges ==
    ASSUME TypeOK, VerdictsProper, NEW q \in Calls, NEW k \in CallType,
           NEW next \in {"quota", "cleared"},
           k.client \in Clients, k.args \in Args, Enforce(q, k, next),
           UNCHANGED config
    PROVE  Changes
  <1> DEFINE h == [k EXCEPT !.at = next, !.held = TRUE]
  <1>1. config' \in Configs
    BY DEF TypeOK
  <1>2. /\ request' \in [Ids -> RequestType]
        /\ UNCHANGED verdict
        /\ \A i \in Ids : RowOK(request'[i]) /\ RowStep(i)
    BY EnforceRow
  <1>3. verdict' \in [Ids -> VerdictType]
    BY <1>2 DEF TypeOK
  <1>4. call' \in [Calls -> CallType] /\ \A p \in Calls : CallStep(p)
    <2>0. \/ call' = [call EXCEPT ![q] = Idle]
          \/ Grants(k.id, k.client, k.args) /\ call' = [call EXCEPT ![q] = h]
      <3>1. CASE Grants(k.id, k.client, k.args)
        BY <3>1 DEF Enforce, Becomes
      <3>2. CASE ~Grants(k.id, k.client, k.args)
        BY <3>2 DEF Enforce, Becomes
      <3> QED BY <3>1, <3>2
    <2>1. CASE call' = [call EXCEPT ![q] = Idle]
      <3>1. call'[q] = Idle
        BY <2>1 DEF TypeOK
      <3>2. CallStep(q)
        BY <3>1 DEF CallStep
      <3> QED BY <2>1, <3>2, IdleTyped, OneCall
    <2>2. CASE Grants(k.id, k.client, k.args) /\ call' = [call EXCEPT ![q] = h]
      <3>1. /\ h \in CallType /\ h.at # "idle"
            /\ h.client = k.client /\ h.args = k.args /\ h.id = k.id
        BY DEF CallType
      <3>2. call'[q] = h
        BY <2>2 DEF TypeOK
      <3>3. CallStep(q)
        BY <2>2, <3>1, <3>2 DEF CallStep
      <3> HIDE DEF h
      <3> QED BY <2>2, <3>1, <3>3, OneCall
    <2> HIDE DEF h
    <2> QED BY <2>0, <2>1, <2>2
  <1> QED BY <1>1, <1>2, <1>3, <1>4 DEF Changes

\* One step per action of Next.
LEMMA NextChanges ==
    ASSUME TypeOK, VerdictsProper, [Next]_vars
    PROVE  Changes
  <1>0. config \in Configs /\ config \in ConfigType /\ NoClient \notin Clients
        /\ NoClient \notin Args
    BY GovernanceAssumption DEF TypeOK
  <1>1. ASSUME NEW q \in Calls, NEW c \in Clients, NEW a \in Args,
               NEW i \in Ids \union {NoId}, Arrive(q, c, a, i)
        PROVE  Changes
    <2> DEFINE k == [at |-> "quota", client |-> c, args |-> a, id |-> i,
                     held |-> FALSE]
    <2>1. /\ k \in CallType /\ k.client = c /\ k.args = a
          /\ k.at # "idle" /\ ~k.held
      BY DEF CallType
    <2>2. UNCHANGED config
      BY <1>1 DEF Arrive
    <2>3. CASE call' = [call EXCEPT ![q] = k] /\ UNCHANGED <<request, verdict>>
      <3>1. call'[q] = k
        BY <2>3 DEF TypeOK
      <3> HIDE DEF k
      <3>2. CallStep(q)
        BY <2>1, <3>1 DEF CallStep
      <3> QED BY <1>0, <2>1, <2>2, <2>3, <3>2, OneCall, SameRows DEF Changes
    <2>4. CASE Enforce(q, k, "quota")
      <3> HIDE DEF k
      <3> QED BY <2>1, <2>2, <2>4, EnforceChanges
    <2> QED BY <1>1, <2>3, <2>4 DEF Arrive, Becomes
  <1>2. ASSUME NEW q \in Calls, Guard(q)
        PROVE  Changes
    <2> DEFINE k == call[q]
               h == [call[q] EXCEPT !.at = "cleared"]
    <2>1. /\ k \in CallType /\ k.at = "quota"
          /\ k.client \in Clients /\ k.args \in Args
      BY <1>2 DEF Guard, TypeOK, CallType
    <2>2. UNCHANGED config
      BY <1>2 DEF Guard
    <2>3. CASE call' = [call EXCEPT ![q] = h] /\ UNCHANGED <<request, verdict>>
      <3>1. call'[q] = h /\ h \in CallType
        BY <2>1, <2>3 DEF TypeOK, CallType
      <3>2. CallStep(q)
        BY <2>1, <3>1 DEF CallStep, CallType
      <3> HIDE DEF h
      <3> QED BY <1>0, <2>2, <2>3, <3>1, <3>2, OneCall, SameRows DEF Changes
    <2>4. CASE Enforce(q, k, "cleared")
      BY <2>1, <2>2, <2>4, EnforceChanges
    <2> QED BY <1>2, <2>3, <2>4 DEF Guard, Becomes
  <1>3. ASSUME NEW q \in Calls, AnswerEarly(q) \/ Return(q)
        PROVE  Changes
    <2>1. call' = [call EXCEPT ![q] = Idle] /\ UNCHANGED <<config, request, verdict>>
      BY <1>3 DEF AnswerEarly, Return, Becomes
    <2>2. call'[q] = Idle
      BY <2>1 DEF TypeOK
    <2>3. CallStep(q)
      BY <2>2 DEF CallStep
    <2> QED BY <1>0, <2>1, <2>3, IdleTyped, OneCall, SameRows DEF Changes
  <1>4. ASSUME NEW q \in Calls, Execute(q)
        PROVE  Changes
    <2> DEFINE h == [call[q] EXCEPT !.at = "executed"]
    <2>1. /\ call[q] \in CallType /\ call[q].at = "cleared"
          /\ call' = [call EXCEPT ![q] = h]
          /\ UNCHANGED <<config, request, verdict>>
      BY <1>4 DEF Execute, Becomes, TypeOK
    <2>2. call'[q] = h /\ h \in CallType
      BY <2>1 DEF TypeOK, CallType
    <2>3. CallStep(q)
      BY <2>1, <2>2 DEF CallStep, CallType
    <2> HIDE DEF h
    <2> QED BY <1>0, <2>1, <2>2, <2>3, OneCall, SameRows DEF Changes
  <1>5. ASSUME NEW i \in Ids, NEW actor \in Clients, NEW by \in Clients,
               NEW status \in {"approved", "rejected"},
               Decide(i, actor, by, status)
        PROVE  Changes
    <2>1. UNCHANGED <<config, call>>
      BY <1>5 DEF Decide
    <2> QED BY <1>0, <1>5, <2>1, DecideRow, SameCalls DEF Changes
  <1>6. CASE Look
    <2>1. request' = PrunedRequests /\ UNCHANGED <<config, call, verdict>>
      BY <1>6 DEF Look
    <2>2. verdict' \in [Ids -> VerdictType]
      BY <2>1 DEF TypeOK
    <2> QED BY <1>0, <2>1, <2>2, LookRow, SameCalls DEF Changes
  <1>7. ASSUME NEW c \in Configs, Reload(c)
        PROVE  Changes
    BY <1>7, SameRows, SameCalls DEF Reload, Changes
  <1>8. CASE Restart
    <2>1. call' = [q \in Calls |-> Idle] /\ UNCHANGED <<config, request, verdict>>
      BY <1>8 DEF Restart
    <2>2. call' \in [Calls -> CallType] /\ \A q \in Calls : CallStep(q)
      BY <2>1, IdleTyped DEF CallStep
    <2> QED BY <1>0, <2>1, <2>2, SameRows DEF Changes
  <1>9. CASE Tick
    <2>1. UNCHANGED <<config, call>>
      BY <1>9 DEF Tick
    <2>2. /\ request' \in [Ids -> RequestType]
          /\ UNCHANGED verdict
          /\ \A i \in Ids : RowOK(request'[i]) /\ RowStep(i)
      BY <1>9, TickRow
    <2>3. verdict' \in [Ids -> VerdictType]
      BY <2>2 DEF TypeOK
    <2> QED BY <1>0, <2>1, <2>2, <2>3, SameCalls DEF Changes
  <1>10. CASE UNCHANGED vars
    BY <1>0, <1>10, SameRows, SameCalls DEF vars, Changes
  <1> QED
    BY <1>1, <1>2, <1>3, <1>4, <1>5, <1>6, <1>7, <1>8, <1>9, <1>10 DEF Next

----------------------------------------------------------------------------
(* The invariant.                                                          *)

LEMMA InitIInv == Init => IInv
  <1> SUFFICES ASSUME Init PROVE IInv
    OBVIOUS
  <1>1. TypeOK
    <2>1. NoRequest \in RequestType /\ RowOK(NoRequest)
      BY GovernanceAssumption DEF NoRequest, RequestType, RowOK
    <2>2. NoVerdict \in VerdictType
      BY DEF NoVerdict, VerdictType
    <2>3. Idle.at = "idle"
      BY DEF Idle
    <2> QED BY <2>1, <2>2, <2>3, IdleTyped DEF Init, TypeOK
  <1>2. VerdictsProper
    BY DEF Init, VerdictsProper, Decided, NoRequest
  <1>3. ApprovedProperly
    BY DEF Init, ApprovedProperly, Idle
  <1>4. OnePending
    BY DEF Init, OnePending, Live, NoRequest
  <1> QED BY <1>1, <1>2, <1>3, <1>4 DEF IInv

LEMMA StepIInv == IInv /\ [Next]_vars => IInv'
  <1> SUFFICES ASSUME IInv, [Next]_vars PROVE IInv'
    OBVIOUS
  <1>1. TypeOK /\ VerdictsProper /\ ApprovedProperly /\ OnePending
    BY DEF IInv
  <1>2. Changes
    BY <1>1, NextChanges
  <1>3. TypeOK'
    <2>1. ASSUME NEW q \in Calls, call'[q].at # "idle"
          PROVE  call'[q].client # NoClient /\ call'[q].args # NoClient
      <3>1. CallStep(q)
        BY <1>2 DEF Changes
      <3>2. Idle.at = "idle"
        BY DEF Idle
      <3> QED BY <1>1, <2>1, <3>1, <3>2, GovernanceAssumption DEF CallStep, TypeOK
    <2> QED BY <1>2, <2>1 DEF TypeOK, Changes
  <1>4. VerdictsProper'
    <2>1. ASSUME NEW i \in Ids, Decided(i)'
          PROVE  ProperVerdict(i)'
      <3>1. RowStep(i)
        BY <1>2 DEF Changes
      <3>2. CASE ~Decided(i)
        BY <2>1, <3>1, <3>2 DEF RowStep
      <3>3. CASE Decided(i)
        <4>1. /\ request'[i].client = request[i].client
              /\ request'[i].by = request[i].by
              /\ verdict'[i] = verdict[i]
          BY <3>1, <3>3 DEF RowStep, Decided
        <4>2. ProperVerdict(i)
          BY <1>1, <3>3 DEF VerdictsProper
        <4> QED BY <4>1, <4>2, Zenon DEF ProperVerdict
      <3> QED BY <3>2, <3>3
    <2> QED BY <2>1 DEF VerdictsProper
  <1>5. ApprovedProperly'
    <2>1. ASSUME NEW q \in Calls, call'[q].held
          PROVE  \E i \in Ids :
                    /\ call'[q].id = i
                    /\ request'[i].status = "approved"
                    /\ request'[i].client = call'[q].client
                    /\ request'[i].args = call'[q].args
                    /\ ProperVerdict(i)'
      <3>1. CallStep(q) /\ call'[q] \in CallType
        BY <1>2, <2>1 DEF Changes
      <3>2. call'[q] # Idle
        BY <2>1 DEF Idle
      <3>3. \E i \in Ids :
               /\ call'[q].id = i
               /\ request[i].status = "approved"
               /\ request[i].client = call'[q].client
               /\ request[i].args = call'[q].args
               /\ ProperVerdict(i)
        <4>1. CASE /\ call'[q].client = call[q].client
                   /\ call'[q].args = call[q].args
                   /\ call'[q].id = call[q].id
                   /\ call'[q].held = call[q].held
          BY <1>1, <2>1, <4>1 DEF ApprovedProperly
        <4>2. CASE Grants(call'[q].id, call'[q].client, call'[q].args)
          BY <1>1, <3>1, <4>2, GrantHolds
        <4> QED BY <2>1, <3>1, <3>2, <4>1, <4>2 DEF CallStep
      <3>4. PICK i \in Ids :
               /\ call'[q].id = i
               /\ request[i].status = "approved"
               /\ request[i].client = call'[q].client
               /\ request[i].args = call'[q].args
               /\ ProperVerdict(i)
        BY <3>3
      <3>5. RowStep(i)
        BY <1>2 DEF Changes
      <3>6. /\ request'[i].status = "approved"
            /\ request'[i].client = request[i].client
            /\ request'[i].args = request[i].args
            /\ ProperVerdict(i)'
        BY <1>1, <3>4, <3>5, GrantStays
      <3> QED BY <3>4, <3>6
    <2> QED BY <2>1 DEF ApprovedProperly
  <1>6. OnePending'
    <2>1. ASSUME NEW i \in Ids, NEW j \in Ids, Live(i)', Live(j)',
                 request'[i].client = request'[j].client,
                 request'[i].args = request'[j].args
          PROVE  i = j
      <3>1. RowStep(i) /\ RowStep(j)
        BY <1>2 DEF Changes
      <3>2. CASE /\ Live(i) /\ request'[i].client = request[i].client
                 /\ request'[i].args = request[i].args
                 /\ Live(j) /\ request'[j].client = request[j].client
                 /\ request'[j].args = request[j].args
        BY <1>1, <2>1, <3>2 DEF OnePending
      <3>3. CASE /\ Reusable(request'[i].client, request'[i].args) = {}
                 /\ \A l \in Ids \ {i} : Live(l)' => Live(l)
                       /\ request'[l].client = request[l].client
                       /\ request'[l].args = request[l].args
        BY <2>1, <3>3 DEF Reusable
      <3>4. CASE /\ Reusable(request'[j].client, request'[j].args) = {}
                 /\ \A l \in Ids \ {j} : Live(l)' => Live(l)
                       /\ request'[l].client = request[l].client
                       /\ request'[l].args = request[l].args
        BY <2>1, <3>4 DEF Reusable
      <3> QED BY <2>1, <3>1, <3>2, <3>3, <3>4 DEF RowStep
    <2> QED BY <2>1 DEF OnePending
  <1> QED BY <1>3, <1>4, <1>5, <1>6 DEF IInv

\* The inductive invariant.
THEOREM Invariance == Spec => []IInv
  BY InitIInv, StepIInv, PTL DEF Spec

\* Rows, calls and verdicts keep their types, and a row names its approver
\* exactly when it was decided.
THEOREM TypeCorrect == Spec => []TypeOK
  BY Invariance, PTL DEF IInv

\* No call goes through on an approval that somebody without the role, or the
\* requester, gave, or that was given for another client or other arguments
\* (pipeline.ts 1074-1086, runtime.ts 311-332, store.ts 256-274).
THEOREM CallsAreApproved == Spec => []ApprovedProperly
  BY Invariance, PTL DEF IInv

\* createOrReuseApprovalRequest() never leaves two live requests for one call.
THEOREM RequestsAreUnique == Spec => []OnePending
  BY Invariance, PTL DEF IInv

\* A closed row never changes, and an expired one is never decided.
THEOREM DecisionsAreFinal == Spec => DecisionsFinal
  <1> DEFINE Final ==
        \A i \in Ids :
          /\ request[i].status \in {"approved", "rejected", "expired"}
                => /\ request'[i].status = request[i].status
                   /\ request'[i].by = request[i].by
          /\ request[i].status = "pending" /\ Expired(request[i])
                => request'[i].status \in {"pending", "expired"}
  <1>1. ASSUME IInv, [Next]_vars PROVE Final
    <2>1. Changes
      BY <1>1, NextChanges DEF IInv
    <2> QED BY <2>1 DEF Changes, RowStep
  <1>2. IInv /\ [Next]_vars => [Final]_vars
    BY <1>1
  <1> QED BY <1>2, Invariance, PTL DEF Spec, DecisionsFinal
=============================================================================
