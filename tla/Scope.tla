------------------------------- MODULE Scope -------------------------------
(***************************************************************************)
(* Data-plane calls and the pool of PostgreSQL connections.  A call over   *)
(* HTTP or MCP looks the object up, opens a scope (policy.Opener.Open: a   *)
(* transaction on one connection, and the caller's role looked up on       *)
(* another), and hands it to the service of the requested kind, which ends *)
(* the transaction, or forgets to; securebus looks agent keys up on another *)
(* connection before that.  The schedule and log workers take connections  *)
(* from the same pool.                                                     *)
(***************************************************************************)
EXTENDS Naturals, FiniteSets, FiniteSetsExt

CONSTANTS Calls,      \* the requests a server works on at once
          Tickers,    \* schedule.Worker and logstore.Worker
          MaxConns,   \* pool_max_conns
          Requests    \* [api, kind, method, obj: the object's kind, args]

VARIABLES free,   \* connections in the pool that nobody holds
          at,     \* where each call is
          req,    \* the request a call is working on
          tick    \* whether a worker holds the rows of its query

scopeVars == <<free, at, req, tick>>

NoRequest == [api |-> "none", kind |-> "none", method |-> "none",
              obj |-> "none", args |-> TRUE]

\* A scope holds its connection from Begin to Commit or Rollback.
Holders == {c \in Calls : at[c] \in {"role", "config", "keys", "serve"}}
             \cup {w \in Tickers : tick[w] # "wait"}

\* Of these, the ones that wait for a second connection.
WaitSecond == {c \in Calls : at[c] \in {"role", "keys"}}
             \cup {w \in Tickers : tick[w] = "some"}

ScopeInit == /\ free = MaxConns
             /\ at = [c \in Calls |-> "idle"]
             /\ req = [c \in Calls |-> NoRequest]
             /\ tick = [w \in Tickers |-> "wait"]

-----------------------------------------------------------------------------
\* The closed method set of each kind.
Methods(kind) ==
  CASE kind = "storage"   -> {"search", "get", "save", "delete"}
    [] kind = "variable"  -> {"set", "get"}
    [] kind = "counter"   -> {"set", "get", "increase", "decrease"}
    [] kind = "table"     -> {"query"}
    [] kind = "queue"     -> {"enqueue", "dequeue", "peek", "size"}
    [] kind = "bus"       -> {"produce", "consume", "subscribe"}
    [] kind = "securebus" -> {"policy", "publish", "attest", "verify",
                              "consume", "subscribe", "keys"}
    [] kind = "schedule"  -> {"set", "get", "list"}
    [] kind = "log"       -> {"add", "tail"}
    [] kind = "git"       -> {"init", "clone", "add", "commit", "status", "log",
                              "diff", "branch", "checkout", "fetch", "pull",
                              "push", "tag", "show", "remote"}
    [] OTHER              -> {}

HasMethod(kind, method) == method \in Methods(kind)

ObjectKinds == {"storage", "variable", "counter", "table", "queue", "bus",
                "securebus", "schedule", "log", "git"}

ASSUME ScopeAssumption ==
  /\ IsFiniteSet(Calls) /\ IsFiniteSet(Tickers) /\ Calls \cap Tickers = {}
  /\ MaxConns \in Nat \ {0}
  /\ Requests \subseteq [api : {"http", "mcp", "wait"}, kind : ObjectKinds,
                         method : UNION {Methods(k) : k \in ObjectKinds},
                         obj : ObjectKinds, args : BOOLEAN]

\* How a service leaves the transaction of a scope it was given: "kept" when
\* it returns an error before its first statement.
VariableEnds(r) == IF r.obj # "variable" \/ (r.method = "set" /\ ~r.args)
                   THEN {"kept"} ELSE {"commit", "rollback"}
TableEnds(r)    == IF r.obj # "table" THEN {"kept"} ELSE {"commit", "rollback"}
LogEnds(r)      == IF r.obj # "log" \/ (r.method = "add" /\ ~r.args)
                   THEN {"kept"} ELSE {"commit", "rollback"}
ScheduleEnds(r) == IF r.obj # "schedule" \/ (r.method = "set" /\ ~r.args)
                   THEN {"kept"} ELSE {"commit", "rollback"}
\* Without args the object's backend is a broker that is not configured.
BrokerEnds(r)   == IF r.obj # r.kind \/ ~r.args
                   THEN {"kept"} ELSE {"commit", "rollback"}
OtherEnds(r)    == IF r.obj # r.kind THEN {"kept"} ELSE {"commit", "rollback"}

ServiceEnds(r) == CASE r.kind = "variable" -> VariableEnds(r)
                    [] r.kind = "table"    -> TableEnds(r)
                    [] r.kind = "log"      -> LogEnds(r)
                    [] r.kind = "schedule" -> ScheduleEnds(r)
                    [] r.kind \in {"queue", "bus"} -> BrokerEnds(r)
                    [] OTHER               -> OtherEnds(r)

-----------------------------------------------------------------------------
\* invoke and handleDataObjectTool refuse a method the kind does not have;
\* scheduleWait has no kind to check.
Receive(c) == \E r \in Requests :
  /\ at[c] = "idle"
  /\ r.api = "wait" \/ HasMethod(r.kind, r.method)
  /\ at' = [at EXCEPT ![c] = "look"]
  /\ req' = [req EXCEPT ![c] = r]
  /\ UNCHANGED <<free, tick>>

Leave(c) == /\ at' = [at EXCEPT ![c] = "idle"]
            /\ req' = [req EXCEPT ![c] = NoRequest]

\* The object and the caller's grants are read, each on a connection that
\* goes straight back to the pool.
LookOK(c) ==
  /\ at[c] = "look" /\ free > 0
  /\ HasMethod(req[c].obj, req[c].method)
  /\ at' = [at EXCEPT ![c] = "begin"]
  /\ UNCHANGED <<free, req, tick>>

\* The object is of a kind that lacks the method.
LookRefused(c) ==
  /\ at[c] = "look" /\ free > 0
  /\ ~HasMethod(req[c].obj, req[c].method)
  /\ Leave(c)
  /\ UNCHANGED <<free, tick>>

\* No such object, no access, or an error.
LookFails(c) ==
  /\ at[c] = "look"
  /\ Leave(c)
  /\ UNCHANGED <<free, tick>>

Begin(c) ==
  /\ at[c] = "begin" /\ free > 0
  /\ free' = free - 1
  /\ at' = [at EXCEPT ![c] = "role"]
  /\ UNCHANGED <<req, tick>>

BeginFails(c) ==
  /\ at[c] = "begin"
  /\ Leave(c)
  /\ UNCHANGED <<free, tick>>

\* Both roles are looked up at once, on a connection each.
Role_Together(c) ==
  /\ at[c] = "role" /\ free > 1
  /\ at' = [at EXCEPT ![c] = "config"]
  /\ UNCHANGED <<free, req, tick>>

\* EnsureTokenRole and EnsureUserRole run on the pool while the scope holds
\* its transaction; DataPlaneRole drops their errors.
Role(c) ==
  /\ at[c] = "role" /\ free > 0
  /\ at' = [at EXCEPT ![c] = "config"]
  /\ UNCHANGED <<free, req, tick>>

\* The request is cancelled while it waits for the second connection.
RoleCancelled(c) ==
  /\ at[c] = "role"
  /\ at' = [at EXCEPT ![c] = "config"]
  /\ UNCHANGED <<free, req, tick>>

\* Publish and Attest begin with keys.Get, on the pool; Verify and Keys come to
\* it unless the message, or a policy, is missing.  PutPolicy, whose scope is
\* opened for "publish", looks up the key of each agent.
Opened(r) ==
  CASE r.api \notin {"http", "mcp"} \/ r.kind # "securebus" \/ r.obj # r.kind
                                          -> {"serve"}
    [] r.method \in {"publish", "attest"} -> {"keys"}
    [] r.method \in {"verify", "keys"}    -> {"keys", "serve"}
    [] OTHER                              -> {"serve"}

Config(c) ==
  /\ at[c] = "config"
  /\ \E step \in Opened(req[c]) : at' = [at EXCEPT ![c] = step]
  /\ UNCHANGED <<free, req, tick>>

\* Store.Get of the agent keys, each on a connection of its own.
LookKeys(c) ==
  /\ at[c] = "keys" /\ free > 0
  /\ at' = [at EXCEPT ![c] = "serve"]
  /\ UNCHANGED <<free, req, tick>>

\* The lookup fails, or is cancelled while it waits: Rollback.  Verify takes
\* it for a missing key.
LookKeysFails(c) ==
  /\ at[c] = "keys"
  /\ IF req[c].method = "verify"
       THEN at' = [at EXCEPT ![c] = "serve"] /\ UNCHANGED <<free, req>>
       ELSE Leave(c) /\ free' = free + 1
  /\ UNCHANGED tick

\* The role's name is not safe, or set_config fails: Rollback.
ConfigFails(c) ==
  /\ at[c] = "config"
  /\ Leave(c)
  /\ free' = free + 1
  /\ UNCHANGED tick

-----------------------------------------------------------------------------
\* The scope's connection is back in the pool, or nobody's.
EndScope(end) == /\ free' = IF end = "kept" THEN free ELSE free + 1
                 /\ UNCHANGED tick

\* The kinds differ and the scope is dropped without a Rollback.
DispatchMismatch_Kept(c) ==
  /\ at[c] = "serve" /\ req[c].api = "http" /\ req[c].obj # req[c].kind
  /\ EndScope("kept")
  /\ Leave(c)

\* dispatch compares the object's kind with the path's and rolls back.
DispatchMismatch(c) ==
  /\ at[c] = "serve" /\ req[c].api = "http" /\ req[c].obj # req[c].kind
  /\ EndScope("rollback")
  /\ Leave(c)

\* Before a long poll the scope is committed; the poll opens its own.
DispatchSubscribe(c) ==
  /\ at[c] = "serve" /\ req[c].api = "http" /\ req[c].obj = req[c].kind
  /\ req[c].method = "subscribe"
  /\ EndScope("commit")
  /\ at' = [at EXCEPT ![c] = "poll"]
  /\ req' = [req EXCEPT ![c].method = "consume", ![c].api = "poll"]

Dispatch(c) ==
  /\ at[c] = "serve" /\ req[c].api = "http" /\ req[c].obj = req[c].kind
  /\ req[c].method # "subscribe"
  /\ \E end \in IF req[c].kind = "storage" THEN {"commit"}
                                           ELSE ServiceEnds(req[c]) :
       EndScope(end)
  /\ Leave(c)

\* The MCP tool hands the scope to the service without comparing kinds.
DispatchTool(c) ==
  /\ at[c] = "serve" /\ req[c].api = "mcp"
  /\ \E end \in ServiceEnds(req[c]) : EndScope(end)
  /\ Leave(c)

\* scheduleWait authorises with "get" and commits before it polls.
WaitAuthorised(c) ==
  /\ at[c] = "serve" /\ req[c].api = "wait"
  /\ EndScope("commit")
  /\ at' = [at EXCEPT ![c] = "poll"]
  /\ req' = [req EXCEPT ![c].api = "poll"]

\* One round of the poll: it opens a scope and lets the service end it.  An
\* error, or a delivery that was waited for, ends the call.
PollServe(c) ==
  /\ at[c] = "serve" /\ req[c].api = "poll"
  /\ \E end \in ServiceEnds(req[c]) :
       /\ EndScope(end)
       /\ \/ end = "commit" /\ at' = [at EXCEPT ![c] = "poll"] /\ UNCHANGED req
          \/ Leave(c)

PollOpen(c) ==
  /\ at[c] = "poll"
  /\ at' = [at EXCEPT ![c] = "look"]
  /\ UNCHANGED <<free, req, tick>>

\* The client is gone or the wait timed out.
PollDone(c) ==
  /\ at[c] = "poll"
  /\ Leave(c)
  /\ UNCHANGED <<free, tick>>

-----------------------------------------------------------------------------
\* A worker's tick keeps the result of its query open ...
TickQuery(w) ==
  /\ tick[w] = "wait" /\ free > 0
  /\ \E rows \in {"some", "none"} : tick' = [tick EXCEPT ![w] = rows]
  /\ free' = free - 1
  /\ UNCHANGED <<at, req>>

\* ... while the statements for each row run on other connections.
TickRows(w) ==
  /\ tick[w] = "some" /\ free > 0
  /\ tick' = [tick EXCEPT ![w] = "none"]
  /\ UNCHANGED <<free, at, req>>

TickEnd(w) ==
  /\ tick[w] = "none"
  /\ tick' = [tick EXCEPT ![w] = "wait"]
  /\ free' = free + 1
  /\ UNCHANGED <<at, req>>

OpenStep(c) == \/ LookOK(c) \/ LookRefused(c) \/ Begin(c) \/ Role(c)
               \/ Config(c) \/ LookKeys(c)
OpenFails(c) == \/ LookFails(c) \/ BeginFails(c) \/ RoleCancelled(c)
                \/ ConfigFails(c) \/ LookKeysFails(c)
ServeStep(c) == \/ DispatchMismatch(c) \/ DispatchSubscribe(c) \/ Dispatch(c)
                \/ DispatchTool(c) \/ WaitAuthorised(c) \/ PollServe(c)

ScopeNext ==
  \/ \E c \in Calls : \/ Receive(c) \/ OpenStep(c) \/ OpenFails(c)
                      \/ ServeStep(c) \/ PollOpen(c) \/ PollDone(c)
  \/ \E w \in Tickers : TickQuery(w) \/ TickRows(w) \/ TickEnd(w)

\* A call and a worker that can go on do, and the pool serves those that wait
\* for a connection in their order.
ScopeFairness ==
  /\ \A c \in Calls : SF_scopeVars(OpenStep(c)) /\ WF_scopeVars(ServeStep(c))
  /\ \A w \in Tickers : SF_scopeVars(TickRows(w)) /\ WF_scopeVars(TickEnd(w))

ScopeSpec == ScopeInit /\ [][ScopeNext]_scopeVars

-----------------------------------------------------------------------------
\* Requests whose scope every service ends: nothing is missing from their
\* arguments, and the object is of the kind that was asked for, or a check
\* before the service finds that it is not.
Answerable(r) ==
  r.args /\ (r.obj = r.kind \/ r.api = "http" \/ ~HasMethod(r.obj, r.method))

\* A connection is in the pool or held by a call or worker that is going to
\* give it back: Open, dispatch and the services end every transaction they
\* begin (scope.go:107, data_objects_handler.go:389).
PoolConserved == free + Cardinality(Holders) = MaxConns

\* Every connection is with a call or worker that waits for a second one.
Gridlock == Cardinality(WaitSecond) = MaxConns

\* A call that has started a scope comes to its end, although it waits for
\* other connections while it holds one (scope.go:111, service.go:322) and the
\* pool is smaller than the number of calls and workers: only a gridlock that
\* nobody's cancellation ends keeps it.
ScopesEnd ==
  \/ <>[]Gridlock
  \/ \A c \in Calls : at[c] \in {"begin", "role", "config", "keys", "serve"}
                          ~> at[c] \in {"idle", "poll"}

=============================================================================
