------------------------------ MODULE Identity ------------------------------
(***************************************************************************)
(* Who a caller is (src/auth/authenticator.ts), by headers that say        *)
(* authorization: [form, says, jwt] and apiKey; what a token says is known *)
(* if it is a JWT (jwt # None): whether it verifies, and its claims.       *)
(*                                                                         *)
(* Then connected accounts and how a server's requirement picks one        *)
(* (src/identity/store.ts, src/identity/runtime.ts), for one provider.     *)
(* accounts is the table, in the order of insertion; a row's stamp is its  *)
(* updated_at, which two rows made in the same millisecond share.          *)
(***************************************************************************)
EXTENDS Naturals, Sequences

CONSTANT None

Principal(client, tenant) == [client |-> client, tenant |-> tenant]

\* authenticateApiKey: a bearer is the key even if X-API-Key is there too, and
\* of two entries with one key the last counts.
ByKey(headers, keys) ==
    LET bearer == headers.authorization
        key == IF bearer.form = "bearer" THEN bearer.says ELSE headers.apiKey
        found == {i \in DOMAIN keys : keys[i].key = key}
        last == CHOOSE i \in found : \A j \in found : j <= i
    IN  IF found = {} THEN None ELSE Principal(keys[last].client, keys[last].tenant)

\* authenticateJwt: a token that verifies and names its client.
ByToken(bearer) ==
    IF bearer.form # "bearer" \/ bearer.jwt = None THEN None
    ELSE IF ~bearer.jwt.valid \/ bearer.jwt.client = None THEN None
    ELSE Principal(bearer.jwt.client,
                   IF bearer.jwt.tenant = None THEN "default" ELSE bearer.jwt.tenant)

\* authenticate: the principal, None if the request is refused.
Authenticated(headers, auth) ==
    CASE auth.method = "none" -> Principal("anonymous", "default")
      [] auth.method = "api-key" -> ByKey(headers, auth.keys)
      [] auth.method = "jwt" -> ByToken(headers.authorization)

\* extractTenantId of the cache's key: a token's claim, if it can be read, else
\* its digest.
ExtractTenantId(header) ==
    CASE header.form = "none" -> None
      [] header.form = "plain" -> header.says
      [] header.form = "bearer" ->
            IF header.jwt # None /\ header.jwt.claimed # None THEN header.jwt.claimed
            ELSE "bearer:" \o header.says

----------------------------------------------------------------------------
Bindings == {"client", "tenant", "workspace", "client-or-workspace"}

\* What a server asks for: NeedsNothing, or an account.
Needs == [binding : Bindings, required : BOOLEAN, http : BOOLEAN]

\* resolveWorkspace: the first mapping with the tenant, the default, the tenant.
WorkspaceOf(identity, tenant) ==
    LET mapped == {i \in DOMAIN identity.workspaces :
                      tenant \in identity.workspaces[i].tenants}
        first == CHOOSE i \in mapped : \A j \in mapped : i <= j
    IN  IF mapped # {} THEN identity.workspaces[first].id
        ELSE IF identity.default # None THEN identity.default ELSE tenant

----------------------------------------------------------------------------
Live(accounts) == {i \in DOMAIN accounts : accounts[i].live}

InSlot(accounts, workspace, client, tenant) ==
    {i \in Live(accounts) : /\ accounts[i].workspace = workspace
                            /\ accounts[i].client = client
                            /\ accounts[i].tenant = tenant}

\* findOne: a live row of the slot with the latest stamp.  Which of two with
\* the same stamp, SQLite does not say.
FindOne(accounts, workspace, client, tenant) ==
    LET rows == InSlot(accounts, workspace, client, tenant)
    IN  {i \in rows : \A j \in rows : accounts[j].stamp <= accounts[i].stamp}

\* resolveAccountRow: the rows that may be returned; none means null.
Resolutions(accounts, workspace, client, tenant, binding) ==
    LET shared == FindOne(accounts, workspace, None, None)
        own == FindOne(accounts, workspace, client, None)
    IN  CASE binding = "client" -> own
          [] binding = "tenant" -> FindOne(accounts, workspace, None, tenant)
          [] binding = "workspace" -> shared
          [] binding = "client-or-workspace" -> IF own # {} THEN own ELSE shared

\* Seeded fault: a replacement leaves the row it replaces alive.
ReplacesNothing(accounts, workspace, client, tenant) == accounts

\* createConnectedAccount: what replace_existing does to the older rows.
Replaced(accounts, workspace, client, tenant) ==
    LET old == InSlot(accounts, workspace, client, tenant)
    IN  [i \in DOMAIN accounts |-> [accounts[i] EXCEPT !.live = @ /\ i \notin old]]

Created(accounts, workspace, client, tenant, stamp) ==
    Append(accounts, [workspace |-> workspace, client |-> client, tenant |-> tenant,
                      live |-> TRUE, stamp |-> stamp])

----------------------------------------------------------------------------
\* resolveConnectedAccount of the runtime: it throws, or the rows that may be
\* used (none: the call goes out without an account).
Throws(accounts, identity, needs, client, tenant) ==
    /\ needs # None
    /\ \/ ~needs.http
       \/ ~identity.enabled
       \/ /\ needs.required
          /\ Resolutions(accounts, WorkspaceOf(identity, tenant), client, tenant,
                         needs.binding) = {}

Usable(accounts, identity, needs, client, tenant) ==
    IF needs = None THEN {}
    ELSE Resolutions(accounts, WorkspaceOf(identity, tenant), client, tenant,
                     needs.binding)

\* Seeded fault: the preflight looks for the account of the workspace whatever
\* the binding.
BlockingByWorkspace(accounts, identity, needs, client, tenant) ==
    /\ needs # None /\ needs.required
    /\ \/ ~needs.http \/ ~identity.enabled
       \/ FindOne(accounts, WorkspaceOf(identity, tenant), None, None) = {}

\* getServerPreflight of a known principal: does it report a blocking status?
Blocking(accounts, identity, needs, client, tenant) ==
    /\ needs # None /\ needs.required
    /\ \/ ~needs.http
       \/ ~identity.enabled
       \/ Resolutions(accounts, WorkspaceOf(identity, tenant), client, tenant,
                      needs.binding) = {}
=============================================================================
