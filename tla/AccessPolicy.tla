---------------------------- MODULE AccessPolicy ----------------------------
(***************************************************************************)
(* What a client may do with a tool, and whether its answer is kept: the   *)
(* ACL (src/auth/acl.ts), the governance tool policies                     *)
(* (src/governance/runtime.ts), the guardrails                             *)
(* (src/guardrails/evaluator.ts) and the cache policy                      *)
(* (src/cache/cache-policy.ts).  A pattern is the set of what it matches;  *)
(* a rule of the ACL or of governance, a set of pairs <<server, tool>>.    *)
(***************************************************************************)
EXTENDS Naturals, Sequences, FiniteSets

\* The position of the first policy that satisfies Fits, 0 if there is none.
First(policies, Fits(_)) ==
    LET fitting == {i \in DOMAIN policies : Fits(policies[i])}
    IN  IF fitting = {} THEN 0 ELSE CHOOSE i \in fitting : \A j \in fitting : i <= j

\* evaluateAcl: the first policy that names the client decides, its denials
\* before its permissions; what it does not mention it refuses.
AclAllows(acl, client, server, tool) ==
    LET first == First(acl.policies, LAMBDA p : client \in p.clients)
    IN  IF first = 0 THEN acl.default = "allow"
        ELSE /\ <<server, tool>> \notin acl.policies[first].deny
             /\ <<server, tool>> \in acl.policies[first].allow

\* evaluateToolPolicy: the first policy that matches, or "allow".
ToolEffect(policies, client, server, tool) ==
    LET first == First(policies, LAMBDA p : client \in p.clients
                                            /\ <<server, tool>> \in p.on)
    IN  IF first = 0 THEN "allow" ELSE policies[first].effect

Permitted(rules, client, server, tool) ==
    /\ rules.acl.enabled => AclAllows(rules.acl, client, server, tool)
    /\ ToolEffect(rules.policies, client, server, tool) # "deny"

----------------------------------------------------------------------------
(* An argument is known by its kind, by what it is, by what it holds (the  *)
(* parts of a text, the members of a list) and by the patterns it matches. *)

Absent == [kind |-> "absent", is |-> 0, holds |-> {}, matches |-> {}]
Number(n) == [kind |-> "number", is |-> n, holds |-> {}, matches |-> {}]

\* evaluateCondition, resolveField, compareValue: of a field that is absent
\* only not_exists holds, and a list equals nothing.
ConditionMet(condition, args) ==
    LET op == condition.operator
        actual == args[condition.field]
        expected == condition.value
        Is(kind) == actual.kind = kind /\ expected.kind = kind
        numbers == Is("number")
        equal == Is(actual.kind) /\ actual.kind # "list" /\ actual.is = expected.is
        contained == (Is("text") \/ actual.kind = "list") /\ expected.is \in actual.holds
    IN  IF actual.kind = "absent" THEN op = "not_exists"
        ELSE \/ op = "exists"
             \/ op = "eq" /\ equal
             \/ op = "neq" /\ ~equal
             \/ op = "gt" /\ numbers /\ actual.is > expected.is
             \/ op = "gte" /\ numbers /\ actual.is >= expected.is
             \/ op = "lt" /\ numbers /\ actual.is < expected.is
             \/ op = "lte" /\ numbers /\ actual.is <= expected.is
             \/ op = "contains" /\ contained
             \/ op = "not_contains" /\ ~contained
             \/ op = "matches" /\ Is("text") /\ expected.is \in actual.matches

\* evaluateGuardrails: the first rule of the client and the server that is a
\* bypass, or whose tools and conditions fit as well; else the default.
GuardrailAction(guardrails, client, server, tool, args) ==
    LET first == First(guardrails.rules,
                       LAMBDA r : /\ client \in r.clients /\ server \in r.servers
                                  /\ \/ r.bypass
                                     \/ /\ tool \in r.tools
                                        /\ \A k \in r.conditions : ConditionMet(k, args))
        rule == guardrails.rules[first]
    IN  IF first = 0 THEN (IF guardrails.default = "allow" THEN "allow" ELSE "block")
        ELSE IF rule.bypass THEN "allow" ELSE rule.action

----------------------------------------------------------------------------
Annotations == {"destructive", "readOnly", "idempotent", "openWorld", "none"}

\* DEFAULT_TTL_BY_ANNOTATION, in units of 30 seconds.
DefaultTtl == [readOnly |-> 10, idempotent |-> 4, openWorld |-> 1]

Lesser(a, b) == IF a <= b THEN a ELSE b

\* decideCachePolicy without an override: the strongest annotation first.
AnnotatedTtl(annotation, serverTtl) ==
    CASE annotation = "readOnly" ->
            IF serverTtl > 0 THEN serverTtl ELSE DefaultTtl.readOnly
      [] annotation = "idempotent" ->
            IF serverTtl > 0 THEN Lesser(serverTtl, DefaultTtl.idempotent)
            ELSE DefaultTtl.idempotent
      [] annotation = "openWorld" -> DefaultTtl.openWorld
      [] OTHER -> 0

\* decideCachePolicy, applyConfigOverride: for how long an answer is kept, 0
\* if it is not, the tools whose entries the call drops, and the arguments its
\* key leaves out.  A tool that is kept drops nothing, whatever its override
\* lists.
CacheDecision(override, annotation, serverTtl) ==
    IF override # {}
    THEN LET o == CHOOSE o \in override : TRUE
             ttl == IF o.ownTtl THEN o.ttl ELSE serverTtl
         IN  [ttl |-> ttl, drops |-> IF ttl > 0 THEN {} ELSE o.invalidates,
             ignores |-> o.ignores]
    ELSE [ttl |-> AnnotatedTtl(annotation, serverTtl), drops |-> {}, ignores |-> {}]
=============================================================================
