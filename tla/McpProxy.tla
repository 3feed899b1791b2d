------------------------------ MODULE McpProxy ------------------------------
(***************************************************************************)
(* Upstream MCP servers: their rows, access bindings, discovered           *)
(* capabilities and token scopes in PostgreSQL (mcpproxy.Store), the       *)
(* clients a server process keeps (mcpproxy.Manager), and the admin        *)
(* requests and proxied calls that read and write them, one statement or   *)
(* upstream round trip at a time.                                          *)
(***************************************************************************)
EXTENDS Naturals, Sequences, FiniteSets

CONSTANTS Upstreams,   \* server ids
          Managers,    \* people with bindings
          Operators,   \* the platform admins among them
          Workers,     \* requests in progress
          Urls, Secrets,
          CapKinds,    \* <<"tool", "resource", "prompt">>, in statement order
          MaxWork      \* bound: requests ever started

ASSUME ProxyAssumption == Operators \subseteq Managers /\ MaxWork \in Nat

VARIABLES servers,    \* the mcp_servers rows: url and secret
          serverACL,  \* <<server, person, role>>
          caps,       \* per server and kind, one capability: absent, off or on
          mcpScopes,  \* servers the access token is scoped to
          sessions,   \* the client a process keeps for a server
          work,       \* the request each worker is in
          begun,      \* how many requests have been started
          approved    \* <<server, kind>> somebody asked to enable (history)

proxyVars == <<servers, serverACL, caps, mcpScopes, sessions, work, begun,
               approved>>

NoServer == [url |-> "none", secret |-> "none"]
NoClient == NoServer
NoWork == [op |-> "none", id |-> "none", at |-> "none", row |-> NoServer,
           in |-> NoServer, on |-> {}, k |-> 0]

CapKindSet == {CapKinds[i] : i \in 1 .. Len(CapKinds)}

ProxyInit == /\ servers = [s \in Upstreams |-> NoServer]
             /\ serverACL = {}
             /\ caps = [s \in Upstreams |-> [k \in CapKindSet |-> "absent"]]
             /\ mcpScopes = {}
             /\ sessions = [s \in Upstreams |-> NoClient]
             /\ work = [w \in Workers |-> NoWork]
             /\ begun = 0
             /\ approved = {}

-----------------------------------------------------------------------------
MCPServerRolePermissions(role) ==
  IF role \in {"owner", "admin"} THEN {"use", "manage", "delete"} ELSE {"use"}

\* The permissions of the caller's bindings, or everything for a platform
\* admin who has none; a token also needs the server among its scopes.
evaluateMCPServerAccess(p, token, s, permission) ==
  LET perms == UNION {MCPServerRolePermissions(b[3]) :
                        b \in {a \in serverACL : a[1] = s /\ a[2] = p}}
  IN  /\ token => s \in mcpScopes
      /\ permission \in perms \/ (perms = {} /\ p \in Operators)

AvailableMCPServers(p, token) ==
  {s \in Upstreams : servers[s] # NoServer
                     /\ evaluateMCPServerAccess(p, token, s, "use")}

\* What tools/list shows of a server.
ExposedForAccess(s) == {k \in CapKindSet : caps[s][k] = "on"}

Free(w) == work[w].op = "none"
In(w, op, at) == work[w].op = op /\ work[w].at = at
To(w, at) == work' = [work EXCEPT ![w].at = at]
Answer(w) == work' = [work EXCEPT ![w] = NoWork]
Take(w, job) ==
  /\ Free(w) /\ begun < MaxWork
  /\ work' = [work EXCEPT ![w] = job]
  /\ begun' = begun + 1
Job(op, s, at) == [NoWork EXCEPT !.op = op, !.id = s, !.at = at]

\* A statement or an upstream round trip fails and its error is answered.
\* (The status and error text that SetServerStatus writes for display are
\* left out.)
WorkFails(w) ==
  /\ ~Free(w)
  /\ Answer(w)
  /\ UNCHANGED <<servers, serverACL, caps, mcpScopes, sessions, approved, begun>>

-----------------------------------------------------------------------------
\* CreateServer inserts the row and then, in a second statement, the binding
\* of its owner.
CreateServer(w) == \E s \in Upstreams, u \in Urls, x \in Secrets \cup {"none"} :
  /\ servers[s] = NoServer
  /\ Take(w, Job("create", s, "owner"))
  /\ servers' = [servers EXCEPT ![s] = [url |-> u, secret |-> x]]
  /\ UNCHANGED <<serverACL, caps, mcpScopes, sessions, approved>>

BindOwner(w) == \E p \in Managers :
  /\ In(w, "create", "owner")
  /\ serverACL' = serverACL \cup {<<work[w].id, p, "owner">>}
  /\ Answer(w)
  /\ UNCHANGED <<servers, caps, mcpScopes, sessions, approved, begun>>

\* patchMCPServer: GetServer, then the secret's row, then one UPDATE of every
\* column from what was read.
UpdateServerGet(w) == \E p \in Managers, s \in Upstreams :
  /\ evaluateMCPServerAccess(p, FALSE, s, "manage")
  /\ servers[s] # NoServer
  /\ \E u \in Urls \cup {"keep"}, x \in Secrets \cup {"keep", "none"} :
       Take(w, [Job("update", s, "secret") EXCEPT
                  !.row = servers[s], !.in = [url |-> u, secret |-> x]])
  /\ UNCHANGED <<servers, serverACL, caps, mcpScopes, sessions, approved>>

secretForUpdate(w) ==
  /\ In(w, "update", "secret")
  /\ servers[work[w].id] # NoServer
  /\ work' = [work EXCEPT ![w].at = "write",
                          ![w].row.secret = servers[work[w].id].secret]
  /\ UNCHANGED <<servers, serverACL, caps, mcpScopes, sessions, approved, begun>>

Given(new, old) == IF new = "keep" THEN old ELSE new

UpdateServer(w) ==
  /\ In(w, "update", "write")
  /\ servers' = IF servers[work[w].id] = NoServer THEN servers
                ELSE [servers EXCEPT ![work[w].id] =
                        [@ EXCEPT !.url = Given(work[w].in.url, work[w].row.url),
                                  !.secret = Given(work[w].in.secret,
                                                   work[w].row.secret)]]
  /\ Answer(w)
  /\ UNCHANGED <<serverACL, caps, mcpScopes, sessions, approved, begun>>

ClearAuthSecret == \E p \in Managers, s \in Upstreams :
  /\ evaluateMCPServerAccess(p, FALSE, s, "manage")
  /\ servers[s] # NoServer
  /\ servers' = [servers EXCEPT ![s].secret = "none"]
  /\ UNCHANGED <<serverACL, caps, mcpScopes, sessions, work, approved, begun>>

\* DeleteServer sends its six statements as one, with a parameter, which the
\* server refuses: nothing is ever deleted.

\* A role that is not one of these grants nothing.
ServerRoles == {"owner", "admin", "user"}

UpsertServerACL == \E p, q \in Managers, s \in Upstreams, role \in ServerRoles :
  /\ evaluateMCPServerAccess(p, FALSE, s, "manage")
  /\ serverACL' = serverACL \cup {<<s, q, role>>}
  /\ UNCHANGED <<servers, caps, mcpScopes, sessions, work, approved, begun>>

\* One transaction; scopes may name servers that are gone.
ReplaceTokenMCPServers ==
  /\ mcpScopes' \in SUBSET Upstreams
  /\ UNCHANGED <<servers, serverACL, caps, sessions, work, approved, begun>>

-----------------------------------------------------------------------------
\* SetEnabledCapabilities: for each kind, disable every capability and then
\* enable the named ones, each in a statement of its own.
EnableStart(w) == \E p \in Managers, s \in Upstreams, on \in SUBSET CapKindSet :
  /\ evaluateMCPServerAccess(p, FALSE, s, "manage")
  /\ Take(w, [Job("enable", s, "off") EXCEPT !.on = on, !.k = 1])
  /\ approved' = approved \cup ({s} \X on)
  /\ UNCHANGED <<servers, serverACL, caps, mcpScopes, sessions>>

DisableAll(w) ==
  LET s == work[w].id  k == CapKinds[work[w].k] IN
  /\ In(w, "enable", "off")
  /\ caps' = [caps EXCEPT ![s][k] = IF @ = "on" THEN "off" ELSE @]
  /\ To(w, "on")
  /\ UNCHANGED <<servers, serverACL, mcpScopes, sessions, approved, begun>>

EnableNamed(w) ==
  LET s == work[w].id  k == CapKinds[work[w].k] IN
  /\ In(w, "enable", "on")
  /\ caps' = [caps EXCEPT ![s][k] =
                IF k \in work[w].on /\ @ # "absent" THEN "on" ELSE @]
  /\ IF work[w].k = Len(CapKinds) THEN Answer(w)
     ELSE work' = [work EXCEPT ![w].at = "off", ![w].k = @ + 1]
  /\ UNCHANGED <<servers, serverACL, mcpScopes, sessions, approved, begun>>

-----------------------------------------------------------------------------
\* The server's row, then (AuthHeaders) its secret in a read of its own.
newClient(w, at) ==
  /\ servers[work[w].id] # NoServer
  /\ work' = [work EXCEPT ![w].at = at,
                          ![w].row.secret = servers[work[w].id].secret]

ConnectTest(w) == \E p \in Managers, s \in Upstreams :
  /\ evaluateMCPServerAccess(p, FALSE, s, "manage")
  /\ servers[s] # NoServer
  /\ Take(w, [Job("test", s, "secret") EXCEPT !.row = servers[s]])
  /\ UNCHANGED <<servers, serverACL, caps, mcpScopes, sessions, approved>>

TestSecret(w) ==
  /\ In(w, "test", "secret")
  /\ newClient(w, "discover")
  /\ UNCHANGED <<servers, serverACL, caps, mcpScopes, sessions, approved, begun>>

\* Discovery enables what it finds.
EnabledFlags_All(s) == CapKindSet

\* The flags that survive a discovery: what is enabled when it reads them.
EnabledFlags(s) == {k \in CapKindSet : caps[s][k] = "on"}

\* UpsertDiscovery first reads which capabilities are enabled, each kind for
\* itself, and drops the errors of the reads ...
DiscoveryRead(w) ==
  /\ In(w, "test", "discover")
  /\ \E on \in SUBSET EnabledFlags(work[w].id) :
       work' = [work EXCEPT ![w].at = "replace", ![w].on = on]
  /\ UNCHANGED <<servers, serverACL, caps, mcpScopes, sessions, approved, begun>>

\* ... and then, in one transaction, puts what was found in their place.
UpsertDiscovery(w) == \E found \in SUBSET CapKindSet :
  /\ In(w, "test", "replace")
  /\ caps' = [caps EXCEPT ![work[w].id] =
                [k \in CapKindSet |-> IF k \notin found THEN "absent"
                                      ELSE IF k \in work[w].on THEN "on"
                                      ELSE "off"]]
  /\ To(w, "status")
  /\ UNCHANGED <<servers, serverACL, mcpScopes, sessions, approved, begun>>

\* The client that discovered them is kept.
TestDone(w) ==
  /\ In(w, "test", "status")
  /\ sessions' = [sessions EXCEPT ![work[w].id] = work[w].row]
  /\ Answer(w)
  /\ UNCHANGED <<servers, serverACL, caps, mcpScopes, approved, begun>>

-----------------------------------------------------------------------------
\* CallTool, ReadResource, GetPrompt: the server is one the caller may use.
\* A client within its idle time serves the call and nothing changes;
\* one that is older is dropped (time may always have passed), and the call
\* connects with what it reads.
getClient(w) == \E p \in Managers, token \in BOOLEAN :
  \E s \in AvailableMCPServers(p, token) :
    /\ sessions' = [sessions EXCEPT ![s] = NoClient]
    /\ Take(w, [Job("call", s, "secret") EXCEPT !.row = servers[s]])
    /\ UNCHANGED <<servers, serverACL, caps, mcpScopes, approved>>

ClientSecret(w) ==
  /\ In(w, "call", "secret")
  /\ newClient(w, "initialize")
  /\ UNCHANGED <<servers, serverACL, caps, mcpScopes, sessions, approved, begun>>

Initialized(w) ==
  /\ In(w, "call", "initialize")
  /\ sessions' = [sessions EXCEPT ![work[w].id] = work[w].row]
  /\ Answer(w)
  /\ UNCHANGED <<servers, serverACL, caps, mcpScopes, approved, begun>>

ProxyNext ==
  \/ ClearAuthSecret \/ UpsertServerACL
  \/ ReplaceTokenMCPServers
  \/ \E w \in Workers :
       \/ CreateServer(w) \/ BindOwner(w) \/ UpdateServerGet(w)
       \/ secretForUpdate(w) \/ UpdateServer(w) \/ EnableStart(w)
       \/ DisableAll(w) \/ EnableNamed(w) \/ ConnectTest(w) \/ TestSecret(w)
       \/ DiscoveryRead(w) \/ UpsertDiscovery(w) \/ TestDone(w) \/ getClient(w)
       \/ ClientSecret(w) \/ Initialized(w) \/ WorkFails(w)

ProxySpec == ProxyInit /\ [][ProxyNext]_proxyVars

-----------------------------------------------------------------------------
\* A capability an upstream offers is shown to callers only after a manager
\* has asked for that very capability of that server, whatever discoveries
\* and half-done SetEnabledCapabilities came in between (store.go:452):
\* discovery itself enables nothing.
EnabledWasApproved ==
  \A s \in Upstreams : {s} \X ExposedForAccess(s) \subseteq approved
=============================================================================
