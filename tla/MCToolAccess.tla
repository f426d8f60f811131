---------------------------- MODULE MCToolAccess ----------------------------
(***************************************************************************)
(* Three clients of two tenants, two servers with two tools.  One kind of  *)
(* scene changes names, tool lists and policies, another who shares which  *)
(* answers, the third accounts.                                            *)
(***************************************************************************)
EXTENDS ToolAccess, TLC

CONSTANTS c1, c2, c3, a, b, x, y

TwoTenants == c1 :> "t1" @@ c2 :> "t2" @@ c3 :> "t1"

Bearer(says, jwt) == [form |-> "bearer", says |-> says, jwt |-> jwt]
Token(client, tenant, claimed, valid) ==
    [client |-> client, tenant |-> tenant, claimed |-> claimed, valid |-> valid]
Sends(authorization, apiKey, custom) ==
    [authorization |-> authorization, apiKey |-> apiKey, custom |-> custom]
NoHeader == [form |-> "none", says |-> "", jwt |-> None]

\* c2 claims the tenant of c1 by a header.  The key of c3 was replaced in place.
Keys == << [key |-> "k1", client |-> c1, tenant |-> "t1"],
           [key |-> "k2", client |-> c2, tenant |-> "t2"],
           [key |-> "k3", client |-> c3, tenant |-> "t2"],
           [key |-> "k3", client |-> c3, tenant |-> "t1"] >>
ByKeys ==
    c1 :> Sends(Bearer("k1", None), None, None) @@
    c2 :> Sends(Bearer("k2", None), "k1", "t1") @@
    c3 :> Sends(NoHeader, "k3", "t3")

\* c2 claims it by a claim that the issuer does not vouch for as its tenant's;
\* the token of c3 has expired.
ByTokens ==
    c1 :> Sends(Bearer("j1", Token(c1, "t1", "t1", TRUE)), None, None) @@
    c2 :> Sends(Bearer("j2", Token(c2, "t2", "t1", TRUE)), None, None) @@
    c3 :> Sends(Bearer("j3", Token(c3, "t1", "t1", FALSE)), None, None)

\* Without authentication: the token of c1 names the tenant that c3 sends.
ByClaims ==
    c1 :> Sends(Bearer("j1", Token(c1, "t1", "t1", TRUE)), None, None) @@
    c2 :> Sends(Bearer("k2", None), None, "t1") @@
    c3 :> Sends([form |-> "plain", says |-> "t1", jwt |-> None], None, "t3")

NoGuardrails == [enabled |-> FALSE, default |-> "allow", rules |-> <<>>]

All == {a, b} \X {x, y}
Only(clients, deny, allow) == [clients |-> clients, deny |-> deny, allow |-> allow]

\* c1 is refused y of a by a denial inside its first policy; c2 falls to the
\* default.
Narrow ==
    [acl |-> [enabled |-> TRUE, default |-> "deny",
              policies |-> << Only({c1}, {<<a, y>>}, All), Only({c1, c2}, {}, {<<b, x>>}) >>],
     guardrails |-> NoGuardrails,
     policies |-> << [clients |-> {c2}, on |-> {<<b, y>>}, effect |-> "deny"] >>]
Open ==
    [acl |-> [enabled |-> FALSE, default |-> "allow", policies |-> <<>>],
     guardrails |-> NoGuardrails,
     policies |-> << [clients |-> {c2}, on |-> {<<b, x>>}, effect |-> "require_approval"],
                     [clients |-> {c1, c2}, on |-> {<<b, x>>}, effect |-> "deny"] >>]

Just(tools_) ==
    [acl |-> [enabled |-> TRUE, default |-> "deny",
              policies |-> << Only(Client \union {"anonymous"}, {}, {a} \X tools_) >>],
     guardrails |-> NoGuardrails,
     policies |-> <<>>]

\* c2 may not pass more than 1 as n; c3 is excused.
Limits ==
    [enabled |-> TRUE, default |-> "allow",
     rules |-> << [clients |-> {c3}, servers |-> Server, bypass |-> TRUE, tools |-> {},
                   conditions |-> {}, action |-> "block"],
                  [clients |-> {c2, c3}, servers |-> {a}, bypass |-> FALSE, tools |-> {x},
                   conditions |-> {[field |-> "n", operator |-> "gt", value |-> Number(1)]},
                   action |-> "block"] >>]

NoIdentity == [enabled |-> FALSE, workspaces |-> <<>>, default |-> None]
OneWorkspace == [enabled |-> TRUE, default |-> None,
                 workspaces |-> << [id |-> "w", tenants |-> {"t1", "t2"}] >>]
Shared == [enabled |-> TRUE, default |-> "w",
           workspaces |-> << [id |-> "w1", tenants |-> {"t1"}] >>]

Slot(w, c, t) == [workspace |-> w, client |-> c, tenant |-> t]
Needing(binding, required) == [binding |-> binding, required |-> required, http |-> TRUE]

NoArgs == [f \in {"n", "trace"} |-> Absent]
N(n, trace) == [NoArgs EXCEPT !.n = Number(n), !.trace = Number(trace)]

Base ==
    [strategy |-> "prefix", isolation |-> TRUE, profile |-> {a}, rules |-> {Open},
     offers |-> (a :> {{x}} @@ b :> {{x}}), outages |-> FALSE, ttl |-> 0,
     annotation |-> (x :> "readOnly" @@ y :> "none"), overrides |-> {},
     needs |-> (a :> None @@ b :> None), identity |-> NoIdentity, slots |-> {},
     callers |-> {c1, c2}, header |-> "custom",
     auth |-> [method |-> "api-key", keys |-> Keys], headers |-> ByKeys, args |-> {NoArgs}]

Names1(strategy) ==
    [Base EXCEPT !.strategy = strategy, !.rules = {Narrow, Open}, !.outages = TRUE,
                 !.offers = (a :> {{y}, {x, y}} @@ b :> {{x}}),
                 !.annotation = (x :> "none" @@ y :> "none")]
Shares(isolation) ==
    [Base EXCEPT !.isolation = isolation, !.rules = {Just({x, y})},
                 !.callers = Client, !.offers = (a :> {{x, y}, {y}} @@ b :> {{}}),
                 !.overrides = {[server |-> a, tool |-> y, ownTtl |-> TRUE, ttl |-> 0,
                                 invalidates |-> {x}, ignores |-> {}]}]

\* One tool of one server: who shares its answers?
Keyed == [Base EXCEPT !.rules = {Just({x})}, !.callers = Client,
                      !.offers = (a :> {{x}} @@ b :> {{}})]
Verified == [Keyed EXCEPT !.auth.method = "jwt", !.headers = ByTokens,
                          !.header = "authorization"]
Trustful(header) == [Keyed EXCEPT !.auth.method = "none", !.headers = ByClaims,
                                  !.header = header]
Guarded ==
    [Keyed EXCEPT !.isolation = FALSE, !.callers = {c2, c3},
                  !.args = {N(1, 1), N(1, 2), N(2, 1)},
                  !.rules = {[Just({x}) EXCEPT !.guardrails = Limits]},
                  !.overrides = {[server |-> a, tool |-> x, ownTtl |-> TRUE, ttl |-> 1,
                                  invalidates |-> {}, ignores |-> {"trace"}]}]
Accounts(identity, needs, slots) ==
    [Base EXCEPT !.identity = identity, !.slots = slots, !.profile = {a},
                 !.rules = {Just({x})},
                 !.needs = (a :> needs @@ b :> None)]

MCScenes ==
    { Names1("prefix"), Names1("none"), Shares(TRUE), Shares(FALSE),
      Trustful("custom"), Trustful("authorization"), Verified, Guarded,
      Accounts(OneWorkspace, Needing("client", TRUE), {Slot("w", c1, None), Slot("w", c2, None)}),
      Accounts(OneWorkspace, Needing("client-or-workspace", TRUE),
               {Slot("w", c1, None), Slot("w", None, None)}),
      Accounts(Shared, Needing("tenant", TRUE), {Slot("w1", None, "t1"), Slot("w", None, "t2")}),
      Accounts(Shared, Needing("workspace", FALSE), {Slot("w1", None, None), Slot("w", None, "t2")}),
      Accounts(NoIdentity, Needing("client", TRUE), {}) }
=============================================================================
