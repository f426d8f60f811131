----------------------------- MODULE Governance -----------------------------
(***************************************************************************)
(* Approvals: tool calls that a tool policy or a guardrail holds back      *)
(* until somebody else has approved them (src/governance/store.ts and      *)
(* runtime.ts, the governance and guardrail steps of handleToolCall in     *)
(* src/gateway/pipeline.ts, the decision routes of src/admin/routes.ts).   *)
(*                                                                         *)
(* The store is an SQLite database used synchronously: each of its methods *)
(* is one step.  A call awaits its workspace's quota between the policy    *)
(* and the guardrail, and limits, hooks and caches after it; decisions,    *)
(* other calls, reloads and restarts come in between.                      *)
(*                                                                         *)
(* There is one tool, a client has one workspace, and a guardrail looks at *)
(* the arguments.  Quotas are left out but for their verdict.              *)
(***************************************************************************)
EXTENDS Naturals

CONSTANTS
    Clients, Workspaces, Args,
    WorkspaceOf,    \* WorkspaceOf[c]: the workspace of c's tenant
    Calls,          \* tool calls in progress at one time
    Ids,            \* approval ids: bounds the requests ever made
    NoId, NoClient,
    Ttl,            \* approvals.ttl_seconds, in ticks
    Configs,        \* the configurations a reload may load, see ConfigType
    AuthOn          \* config.auth.method is not "none"; needs a restart

\* What a configuration says: the effect of the tool policies on a client, the
\* action of the guardrails on arguments, who has a required role in each
\* workspace, and allow_self_approval.
ConfigType ==
    [effect : [Clients -> {"allow", "deny", "require_approval"}],
     action : [Args -> {"allow", "block", "require_approval"}],
     deciders : [Workspaces -> SUBSET Clients],
     self : BOOLEAN]

ASSUME GovernanceAssumption ==
    /\ WorkspaceOf \in [Clients -> Workspaces]
    /\ NoId \notin Ids /\ NoClient \notin Clients \union Args
    /\ Ttl \in Nat \ {0}
    /\ Configs \subseteq ConfigType
    /\ AuthOn \in BOOLEAN

VARIABLES
    config,     \* the configuration in force
    request,    \* request[i]: the row of the approval request with id i
    call,       \* call[q]: where a call is, what it asks, and its approval id
    verdict     \* history: who decided request i, and under which configuration

vars == <<config, request, call, verdict>>

RequestType ==
    [status : {"none", "pending", "approved", "rejected", "expired"},
     client : Clients \union {NoClient},     \* requester_client_id
     args : Args \union {NoClient},          \* with the tool: the fingerprint
     by : Clients \union {NoClient},         \* approver_client_id
     left : 0..Ttl]                          \* ticks to expires_at

NoRequest == [status |-> "none", client |-> NoClient, args |-> NoClient,
              by |-> NoClient, left |-> 0]

\* held is history: the call was let through on its approval id.
Idle == [at |-> "idle", client |-> NoClient, args |-> NoClient, id |-> NoId,
         held |-> FALSE]

NoVerdict == [actor |-> NoClient, by |-> NoClient, deciders |-> {}, self |-> FALSE]

Init ==
    /\ config \in Configs
    /\ request = [i \in Ids |-> NoRequest]
    /\ call = [q \in Calls |-> Idle]
    /\ verdict = [i \in Ids |-> NoVerdict]

----------------------------------------------------------------------------
(* The store.                                                              *)

Expired(r) == r.left = 0

\* Seeded fault: expiry does not look at the status.
PrunedAll(r) ==
    IF r.status # "none" /\ Expired(r) THEN [r EXCEPT !.status = "expired"] ELSE r

\* pruneExpiredApprovalRequests(), the first thing every method does: a grant
\* that has expired stays approved.
Pruned(r) ==
    IF r.status = "pending" /\ Expired(r)
    THEN [r EXCEPT !.status = "expired"] ELSE r

PrunedRequests == [i \in Ids |-> Pruned(request[i])]

\* A request somebody may still decide.
Live(i) == request[i].status = "pending" /\ ~Expired(request[i])

\* Seeded fault: the arguments are not compared.
GrantsAnyArgs(i, c, a) ==
    /\ i \in Ids
    /\ request[i].status = "approved" /\ ~Expired(request[i])
    /\ request[i].client = c

\* verifyApprovalGrant(); the workspace follows from the client.
Grants(i, c, a) ==
    /\ i \in Ids
    /\ request[i].status = "approved" /\ ~Expired(request[i])
    /\ request[i].client = c /\ request[i].args = a

\* Seeded fault: no pending request is ever found.
ReusableNever(c, a) == {}

\* The pending request of the same client for the same call.
Reusable(c, a) ==
    {i \in Ids : Live(i) /\ request[i].client = c /\ request[i].args = a}

\* createOrReuseApprovalRequest()
CreateOrReuse(c, a) ==
    \/ /\ Reusable(c, a) # {}
       /\ request' = PrunedRequests
       /\ UNCHANGED verdict
    \/ /\ Reusable(c, a) = {}
       /\ \E i \in Ids :
             /\ request[i].status = "none"
             /\ request' = [PrunedRequests EXCEPT ![i] =
                   [status |-> "pending", client |-> c, args |-> a,
                    by |-> NoClient, left |-> Ttl]]
       /\ UNCHANGED verdict

----------------------------------------------------------------------------
(* A call.                                                                 *)

Becomes(q, k) == call' = [call EXCEPT ![q] = k]

\* enforceApprovalRequirement() at a step of the pipeline: a call with a valid
\* id goes on, one with another id is refused, one without an id leaves a
\* request behind and is refused.
Enforce(q, k, next) ==
    \/ /\ k.id # NoId
       /\ request' = PrunedRequests
       /\ Becomes(q, IF Grants(k.id, k.client, k.args)
                     THEN [k EXCEPT !.at = next, !.held = TRUE] ELSE Idle)
       /\ UNCHANGED verdict
    \/ /\ k.id = NoId
       /\ CreateOrReuse(k.client, k.args)
       /\ Becomes(q, Idle)

\* A call arrives: the tool policy is evaluated.  A denied call is answered and
\* changes nothing.
Arrive(q, c, a, i) ==
    LET k == [at |-> "quota", client |-> c, args |-> a, id |-> i, held |-> FALSE]
    IN
    /\ call[q].at = "idle"
    /\ \/ /\ config.effect[c] = "allow"
          /\ Becomes(q, k)
          /\ UNCHANGED <<request, verdict>>
       \/ /\ config.effect[c] = "require_approval"
          /\ Enforce(q, k, "quota")
    /\ UNCHANGED config

\* The workspace has quota left: the guardrails are evaluated.
Guard(q) ==
    LET k == call[q] IN
    /\ k.at = "quota"
    /\ \/ /\ config.action[k.args] = "allow"
          /\ Becomes(q, [k EXCEPT !.at = "cleared"])
          /\ UNCHANGED <<request, verdict>>
       \/ /\ config.action[k.args] = "require_approval"
          /\ Enforce(q, k, "cleared")
    /\ UNCHANGED config

\* A quota, a guardrail, a limit, a hook or a cached answer ends the call.
AnswerEarly(q) ==
    /\ call[q].at \in {"quota", "cleared"}
    /\ Becomes(q, Idle)
    /\ UNCHANGED <<config, request, verdict>>

\* The upstream executes the call.
Execute(q) ==
    /\ call[q].at = "cleared"
    /\ Becomes(q, [call[q] EXCEPT !.at = "executed"])
    /\ UNCHANGED <<config, request, verdict>>

Return(q) ==
    /\ call[q].at = "executed"
    /\ Becomes(q, Idle)
    /\ UNCHANGED <<config, request, verdict>>

----------------------------------------------------------------------------
(* Decisions.                                                              *)

\* Seeded fault: the approver named in the body is believed.
EntitledByName(actor, by, i) ==
    /\ by \in config.deciders[WorkspaceOf[request[i].client]]
    /\ config.self \/ by # request[i].client

\* decideApproval()'s guards: with authentication nobody decides in another's
\* name, a required role in the request's workspace, no approval of one's own.
Entitled(actor, by, i) ==
    /\ AuthOn => actor = by
    /\ by \in config.deciders[WorkspaceOf[request[i].client]]
    /\ config.self \/ by # request[i].client

\* Seeded fault: a decision may be revised.
DecidableAgain(i) == request[i].status \in {"pending", "approved", "rejected"}

Decidable(i) == Live(i)

\* POST /governance/approvals/:id/approve or reject: "actor" sends it and
\* names "by" as the approver.
Decide(i, actor, by, status) ==
    /\ Decidable(i)
    /\ Entitled(actor, by, i)
    /\ request' = [PrunedRequests EXCEPT ![i].status = status, ![i].by = by]
    /\ verdict' = [verdict EXCEPT ![i] =
          [actor |-> actor, by |-> by, self |-> config.self,
           deciders |-> config.deciders[WorkspaceOf[request[i].client]]]]
    /\ UNCHANGED <<config, call>>

\* A list or a look, or a decision that is refused.
Look ==
    /\ request' = PrunedRequests
    /\ UNCHANGED <<config, call, verdict>>

\* POST /reload: the new configuration holds from the next step of each call.
Reload(c) ==
    /\ config' = c
    /\ UNCHANGED <<request, call, verdict>>

\* The gateway stops, or crashes, and starts again: the calls in progress are
\* gone and the requests are still in the database.
Restart ==
    /\ call' = [q \in Calls |-> Idle]
    /\ UNCHANGED <<config, request, verdict>>

Tick ==
    /\ request' = [i \in Ids |-> IF request[i].left > 0
                                 THEN [request[i] EXCEPT !.left = @ - 1]
                                 ELSE request[i]]
    /\ UNCHANGED <<config, call, verdict>>

Next ==
    \/ \E q \in Calls :
          \/ \E c \in Clients, a \in Args, i \in Ids \union {NoId} :
                Arrive(q, c, a, i)
          \/ Guard(q) \/ AnswerEarly(q) \/ Execute(q) \/ Return(q)
    \/ \E i \in Ids, actor \in Clients, by \in Clients,
          status \in {"approved", "rejected"} : Decide(i, actor, by, status)
    \/ \E c \in Configs : Reload(c)
    \/ Look \/ Restart \/ Tick

Spec == Init /\ [][Next]_vars

----------------------------------------------------------------------------
CallType ==
    [at : {"idle", "quota", "cleared", "executed"},
     client : Clients \union {NoClient}, args : Args \union {NoClient},
     id : Ids \union {NoId}, held : BOOLEAN]

VerdictType ==
    [actor : Clients \union {NoClient}, by : Clients \union {NoClient},
     deciders : SUBSET Clients, self : BOOLEAN]

\* A row names its requester, and its approver once it was decided.
RowOK(r) ==
    /\ r.status # "none" <=> r.client # NoClient
    /\ r.by # NoClient <=> r.status \in {"approved", "rejected"}

TypeOK ==
    /\ config \in Configs
    /\ request \in [Ids -> RequestType]
    /\ \A i \in Ids : RowOK(request[i])
    /\ call \in [Calls -> CallType]
    /\ \A q \in Calls : call[q].at # "idle" =>
          call[q].client # NoClient /\ call[q].args # NoClient
    /\ verdict \in [Ids -> VerdictType]

\* A decision of request i was made by somebody entitled to it.
ProperVerdict(i) ==
    LET v == verdict[i] IN
    /\ request[i].by = v.by
    /\ AuthOn => v.actor = v.by
    /\ v.by \in v.deciders
    /\ v.self \/ v.by # request[i].client

\* A call that was let through on an approval id was approved, for that client
\* and these arguments, by somebody who at the time of the decision had the
\* role and was not the requester (pipeline.ts 1076-1086, runtime.ts 311-332),
\* whatever decisions, reloads, expiries and restarts came since.
ApprovedProperly ==
    \A q \in Calls : call[q].held =>
        \E i \in Ids :
            /\ call[q].id = i
            /\ request[i].status = "approved"
            /\ request[i].client = call[q].client
            /\ request[i].args = call[q].args
            /\ ProperVerdict(i)

\* A decision is final, and so is the expiry of a request nobody decided in
\* time: no prune, second decision or repeated call changes its row
\* (store.ts 234, 355; governance-store.test.ts 106-160).
DecisionsFinal ==
    [][\A i \in Ids :
          /\ request[i].status \in {"approved", "rejected", "expired"}
                => /\ request'[i].status = request[i].status
                   /\ request'[i].by = request[i].by
          /\ request[i].status = "pending" /\ Expired(request[i])
                => request'[i].status \in {"pending", "expired"}]_vars

\* A call that is repeated while it waits asks for one approval, not for many
\* (store.ts 116-138): no two live requests ask the same.
OnePending ==
    \A i, j \in Ids :
        /\ Live(i) /\ Live(j)
        /\ request[i].client = request[j].client
        /\ request[i].args = request[j].args
        => i = j
=============================================================================
