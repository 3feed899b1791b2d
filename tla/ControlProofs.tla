---------------------------- MODULE ControlProofs ----------------------------
(***************************************************************************)
(* Upstream MCP servers and rate limits, for any number of servers,        *)
(* windows and requests.  Each part has its own inductive invariant.       *)
(***************************************************************************)
EXTENDS McpProxy, Usage, FiniteSetTheorems, WellFoundedInduction, TLAPS

\* The leaves are first-order unless they name the SMT solver.
USE Zenon

-----------------------------------------------------------------------------
\* McpProxy.
ServerRows == [url : Urls \cup {"none", "keep"},
               secret : Secrets \cup {"none", "keep"}]
Jobs == [op : {"none", "create", "update", "enable", "test", "call"},
         id : Upstreams \cup {"none"},
         at : {"none", "owner", "secret", "write", "off", "on", "discover",
               "replace", "status", "initialize"},
         row : ServerRows, in : ServerRows, on : SUBSET CapKindSet, k : Nat]

\* A request is about a server, and the kinds it is about to enable were
\* asked for.
JobOK(job, asked) == /\ job.op # "none" => job.id \in Upstreams
                     /\ \A k \in job.on : <<job.id, k>> \in asked

\* What is enabled, and what a discovery or a half-done enabling still has
\* to write, was asked for.
ProxyInv ==
  /\ servers \in [Upstreams -> ServerRows]
  /\ caps \in [Upstreams -> [CapKindSet -> {"absent", "off", "on"}]]
  /\ work \in [Workers -> Jobs]
  /\ \A w \in Workers : JobOK(work[w], approved)
  /\ \A s \in Upstreams, k \in CapKindSet : caps[s][k] = "on" => <<s, k>> \in approved

\* The records of requests.
LEMMA JobType ==
  /\ NoServer \in ServerRows /\ NoWork \in Jobs /\ NoWork.on = {} /\ NoWork.op = "none"
  /\ \A op \in {"create", "update", "enable", "test", "call"},
        s \in Upstreams, place \in {"owner", "secret", "off"} :
       /\ Job(op, s, place) \in Jobs /\ Job(op, s, place).on = {}
       /\ Job(op, s, place).id = s
<1>1. NoServer \in ServerRows
  BY DEF NoServer, ServerRows
<1>2. NoWork \in Jobs /\ NoWork.on = {} /\ NoWork.op = "none"
  BY <1>1 DEF NoWork, Jobs
<1>3. ASSUME NEW op \in {"create", "update", "enable", "test", "call"},
             NEW s \in Upstreams, NEW place \in {"owner", "secret", "off"}
      PROVE  /\ Job(op, s, place) \in Jobs /\ Job(op, s, place).on = {}
             /\ Job(op, s, place).id = s
  BY <1>2 DEF Jobs, Job
<1> QED
  BY <1>1, <1>2, <1>3

\* A request that enables nothing more than it did may start or go on.
LEMMA WorkStep ==
  ASSUME ProxyInv, NEW w \in Workers, NEW job \in Jobs,
         work' = [work EXCEPT ![w] = job], JobOK(job, approved'),
         approved \subseteq approved'
  PROVE  work' \in [Workers -> Jobs] /\ \A v \in Workers : JobOK(work'[v], approved')
<1>1. work' \in [Workers -> Jobs] /\ work'[w] = job
      /\ \A v \in Workers : v # w => work'[v] = work[v]
  BY DEF ProxyInv
<1> QED
  BY <1>1 DEF ProxyInv, JobOK

\* The request is answered, whatever it has written.
LEMMA AnswerStep ==
  ASSUME ProxyInv, NEW w \in Workers, Answer(w), approved' = approved
  PROVE  work' \in [Workers -> Jobs] /\ \A v \in Workers : JobOK(work'[v], approved')
<1>1. NoWork \in Jobs /\ JobOK(NoWork, approved')
  BY JobType DEF JobOK
<1> QED
  BY <1>1, WorkStep DEF Answer

\* The request goes on to its next statement with what it has to write.
LEMMA NextPlace ==
  ASSUME ProxyInv, NEW w \in Workers,
         NEW place \in {"on", "status", "off", "write", "discover", "initialize"},
         NEW secret \in Secrets \cup {"none", "keep"}, NEW n \in Nat,
         approved' = approved,
         \/ work' = [work EXCEPT ![w].at = place]
         \/ work' = [work EXCEPT ![w].at = place, ![w].row.secret = secret]
         \/ work' = [work EXCEPT ![w].at = place, ![w].k = n]
  PROVE  work' \in [Workers -> Jobs] /\ \A v \in Workers : JobOK(work'[v], approved')
<1> DEFINE row == [work[w].row EXCEPT !.secret = secret]
           job1 == [work[w] EXCEPT !.at = place]
           job2 == [work[w] EXCEPT !.at = place, !.row = row]
           job3 == [work[w] EXCEPT !.at = place, !.k = n]
<1>1. work[w] \in Jobs /\ JobOK(work[w], approved)
  BY DEF ProxyInv
<1>2. row \in ServerRows
  BY <1>1 DEF Jobs, ServerRows
<1>3. /\ job1 \in Jobs /\ job1.on = work[w].on /\ job1.id = work[w].id /\ job1.op = work[w].op
      /\ job3 \in Jobs /\ job3.on = work[w].on /\ job3.id = work[w].id /\ job3.op = work[w].op
  <2>1. job1 \in Jobs /\ job1.on = work[w].on /\ job1.id = work[w].id /\ job1.op = work[w].op
    BY <1>1 DEF Jobs
  <2>2. job3 \in Jobs /\ job3.on = work[w].on /\ job3.id = work[w].id /\ job3.op = work[w].op
    BY <1>1 DEF Jobs
  <2> QED
    BY <2>1, <2>2
<1>4. job2 \in Jobs /\ job2.on = work[w].on /\ job2.id = work[w].id /\ job2.op = work[w].op
  <2> HIDE DEF row
  <2> QED
    BY <1>1, <1>2 DEF Jobs
<1>5. \/ work' = [work EXCEPT ![w] = job1]
      \/ work' = [work EXCEPT ![w] = job2]
      \/ work' = [work EXCEPT ![w] = job3]
  BY SMT DEF ProxyInv
<1>6. JobOK(job1, approved') /\ JobOK(job2, approved') /\ JobOK(job3, approved')
  <2> HIDE DEF job1, job2, job3
  <2> QED
    BY <1>1, <1>3, <1>4 DEF JobOK
<1> HIDE DEF job1, job2, job3
<1> QED
  BY <1>3, <1>4, <1>5, <1>6, WorkStep

\* A request that enables nothing starts.
LEMMA TakePlain ==
  ASSUME ProxyInv, NEW w \in Workers, NEW s \in Upstreams,
         NEW op \in {"create", "update", "test", "call"},
         NEW place \in {"owner", "secret"}, NEW row \in ServerRows, NEW given \in ServerRows,
         approved' = approved,
         \/ Take(w, Job(op, s, place))
         \/ Take(w, [Job(op, s, place) EXCEPT !.row = row])
         \/ Take(w, [Job(op, s, place) EXCEPT !.row = row, !.in = given])
  PROVE  work' \in [Workers -> Jobs] /\ \A v \in Workers : JobOK(work'[v], approved')
<1> DEFINE job1 == Job(op, s, place)
           job2 == [Job(op, s, place) EXCEPT !.row = row]
           job3 == [Job(op, s, place) EXCEPT !.row = row, !.in = given]
<1>1. job1 \in Jobs /\ job1.on = {} /\ job1.id = s
  BY SMT, JobType
<1>2. /\ job2 \in Jobs /\ job2.on = {} /\ job2.id = s
      /\ job3 \in Jobs /\ job3.on = {} /\ job3.id = s
  BY <1>1 DEF Jobs
<1>3. \/ work' = [work EXCEPT ![w] = job1]
      \/ work' = [work EXCEPT ![w] = job2]
      \/ work' = [work EXCEPT ![w] = job3]
  BY DEF Take
<1>4. JobOK(job1, approved') /\ JobOK(job2, approved') /\ JobOK(job3, approved')
  <2> HIDE DEF job1, job2, job3
  <2> QED
    BY <1>1, <1>2 DEF JobOK
<1> HIDE DEF job1, job2, job3
<1> QED
  BY <1>1, <1>2, <1>3, <1>4, WorkStep

\* The last step of requests that touch no capability.
LEMMA ProxyPlainSteps ==
  ASSUME ProxyInv, NEW w \in Workers,
         \/ BindOwner(w) \/ UpdateServer(w) \/ TestDone(w) \/ Initialized(w)
         \/ WorkFails(w)
  PROVE  ProxyInv'
<1> DEFINE Rest == work' \in [Workers -> Jobs]
                   /\ \A v \in Workers : JobOK(work'[v], approved')
<1>1. caps' = caps /\ approved' = approved
  BY DEF BindOwner, UpdateServer, TestDone, Initialized, WorkFails
<1>2. Rest
  <2>1. Answer(w)
    BY DEF BindOwner, UpdateServer, TestDone, Initialized, WorkFails
  <2> QED
    BY <1>1, <2>1, AnswerStep
<1>3. servers' \in [Upstreams -> ServerRows]
  <2>1. CASE servers' = servers
    BY <2>1 DEF ProxyInv
  <2>2. CASE UpdateServer(w)
    <3> DEFINE s == work[w].id
               url == Given(work[w].in.url, work[w].row.url)
               secret == Given(work[w].in.secret, work[w].row.secret)
               row == [servers[s] EXCEPT !.url = url, !.secret = secret]
    <3>1. servers' = servers \/ servers' = [servers EXCEPT ![s] = row]
      BY <2>2 DEF UpdateServer
    <3>2. work[w].in \in ServerRows /\ work[w].row \in ServerRows
      BY DEF ProxyInv, Jobs
    <3>3. url \in Urls \cup {"none", "keep"} /\ secret \in Secrets \cup {"none", "keep"}
      BY <3>2 DEF Given, ServerRows
    <3>4. s \in Upstreams => row \in ServerRows
      <4> HIDE DEF url, secret, s
      <4> SUFFICES ASSUME s \in Upstreams PROVE row \in ServerRows
        OBVIOUS
      <4>1. servers[s] \in ServerRows
        BY DEF ProxyInv
      <4> QED
        BY <3>3, <4>1 DEF ServerRows
    <3> HIDE DEF row, s
    <3> QED
      BY <3>1, <3>4 DEF ProxyInv
  <2> QED
    BY <2>1, <2>2 DEF BindOwner, TestDone, Initialized, WorkFails
<1> HIDE DEF Rest
<1> QED
  BY <1>1, <1>2, <1>3 DEF ProxyInv, Rest

\* Requests that create, read or connect start and go on.
LEMMA ProxyReadSteps ==
  ASSUME ProxyInv, NEW w \in Workers,
         \/ CreateServer(w) \/ UpdateServerGet(w) \/ ConnectTest(w) \/ getClient(w)
         \/ secretForUpdate(w) \/ TestSecret(w) \/ ClientSecret(w)
  PROVE  ProxyInv'
<1> DEFINE Rest == work' \in [Workers -> Jobs]
                   /\ \A v \in Workers : JobOK(work'[v], approved')
<1>1. caps' = caps /\ approved' = approved
  BY DEF CreateServer, UpdateServerGet, ConnectTest, getClient, secretForUpdate,
         TestSecret, ClientSecret
<1>2. servers' \in [Upstreams -> ServerRows]
  <2>1. CASE CreateServer(w)
    BY SMT, <2>1 DEF CreateServer, ProxyInv, ServerRows
  <2>2. CASE servers' = servers
    BY <2>2 DEF ProxyInv
  <2> QED
    BY <2>1, <2>2 DEF UpdateServerGet, ConnectTest, getClient, secretForUpdate,
         TestSecret, ClientSecret
<1>3. Rest
  <2>0. NoServer \in ServerRows
    BY JobType
  <2>1. CASE CreateServer(w)
    <3>1. PICK s \in Upstreams : Take(w, Job("create", s, "owner"))
      BY <2>1 DEF CreateServer
    <3> QED
      BY <1>1, <2>0, <3>1, TakePlain
  <2>2. CASE UpdateServerGet(w)
    <3>1. PICK s \in Upstreams, u \in Urls \cup {"keep"}, x \in Secrets \cup {"keep", "none"} :
            Take(w, [Job("update", s, "secret") EXCEPT
                       !.row = servers[s], !.in = [url |-> u, secret |-> x]])
      BY <2>2 DEF UpdateServerGet
    <3>2. servers[s] \in ServerRows /\ [url |-> u, secret |-> x] \in ServerRows
      BY DEF ProxyInv, ServerRows
    <3> QED
      BY <1>1, <3>1, <3>2, TakePlain
  <2>3. CASE ConnectTest(w)
    <3>1. PICK s \in Upstreams : Take(w, [Job("test", s, "secret") EXCEPT !.row = servers[s]])
      BY <2>3 DEF ConnectTest
    <3>2. servers[s] \in ServerRows
      BY DEF ProxyInv
    <3> QED
      BY <1>1, <2>0, <3>1, <3>2, TakePlain
  <2>4. CASE getClient(w)
    <3>1. PICK s \in Upstreams : Take(w, [Job("call", s, "secret") EXCEPT !.row = servers[s]])
      BY <2>4 DEF getClient, AvailableMCPServers
    <3>2. servers[s] \in ServerRows
      BY DEF ProxyInv
    <3> QED
      BY <1>1, <2>0, <3>1, <3>2, TakePlain
  <2>5. CASE secretForUpdate(w) \/ TestSecret(w) \/ ClientSecret(w)
    <3>1. PICK place \in {"write", "discover", "initialize"} :
            /\ servers[work[w].id] # NoServer
            /\ work' = [work EXCEPT ![w].at = place,
                                    ![w].row.secret = servers[work[w].id].secret]
            /\ work[w].op # "none"
      BY <2>5 DEF secretForUpdate, TestSecret, ClientSecret, newClient, In
    <3>2. work[w].id \in Upstreams
      BY <3>1 DEF ProxyInv, JobOK
    <3>3. servers[work[w].id].secret \in Secrets \cup {"none", "keep"}
      BY <3>2 DEF ProxyInv, ServerRows
    <3> QED
      BY <1>1, <3>1, <3>3, NextPlace
  <2> QED
    BY <2>1, <2>2, <2>3, <2>4, <2>5
<1> HIDE DEF Rest
<1> QED
  BY <1>1, <1>2, <1>3 DEF ProxyInv, Rest

\* Somebody asks for kinds of a server, and the statements that follow.
LEMMA ProxyEnableSteps ==
  ASSUME ProxyInv, NEW w \in Workers,
         EnableStart(w) \/ DisableAll(w) \/ EnableNamed(w)
  PROVE  ProxyInv'
<1>0. work[w] \in Jobs /\ JobOK(work[w], approved) /\ work[w].k \in Nat
  BY DEF ProxyInv, Jobs
<1>1. CASE EnableStart(w)
  <2>1. PICK s \in Upstreams, on \in SUBSET CapKindSet :
          /\ Take(w, [Job("enable", s, "off") EXCEPT !.on = on, !.k = 1])
          /\ approved' = approved \cup ({s} \X on)
          /\ UNCHANGED <<servers, serverACL, caps, mcpScopes, sessions>>
    BY <1>1 DEF EnableStart
  <2> DEFINE job == [Job("enable", s, "off") EXCEPT !.on = on, !.k = 1]
  <2> DEFINE first == Job("enable", s, "off")
  <2>2. job \in Jobs /\ job.on = on /\ job.id = s
    <3>1. first \in Jobs /\ first.id = s
      BY JobType
    <3> HIDE DEF first
    <3>2. job = [first EXCEPT !.on = on, !.k = 1]
      BY DEF first
    <3> QED
      BY <3>1, <3>2 DEF Jobs
  <2>3. work' = [work EXCEPT ![w] = job]
    BY <2>1 DEF Take
  <2> HIDE DEF job
  <2>4. JobOK(job, approved')
    BY <2>1, <2>2 DEF JobOK
  <2>5. work' \in [Workers -> Jobs] /\ \A v \in Workers : JobOK(work'[v], approved')
    BY <2>1, <2>2, <2>3, <2>4, WorkStep
  <2> QED
    BY <2>1, <2>5 DEF ProxyInv
<1>2. CASE DisableAll(w)
  <2> DEFINE s == work[w].id
             kind == CapKinds[work[w].k]
  <2>1. /\ caps' = [caps EXCEPT ![s][kind] = IF @ = "on" THEN "off" ELSE @]
        /\ work' = [work EXCEPT ![w].at = "on"]
        /\ approved' = approved /\ servers' = servers
    BY <1>2 DEF DisableAll, To
  <2>2. work' \in [Workers -> Jobs] /\ \A v \in Workers : JobOK(work'[v], approved')
    BY <2>1, NextPlace
  <2> HIDE DEF s, kind
  <2>3. /\ caps' \in [Upstreams -> [CapKindSet -> {"absent", "off", "on"}]]
        /\ \A x \in Upstreams, k \in CapKindSet : caps'[x][k] = "on" => caps[x][k] = "on"
    BY <2>1 DEF ProxyInv
  <2> QED
    BY <2>1, <2>2, <2>3 DEF ProxyInv
<1>3. CASE EnableNamed(w)
  <2> DEFINE s == work[w].id
             kind == CapKinds[work[w].k]
             named == kind \in work[w].on
  <2>1. /\ caps' = [caps EXCEPT ![s][kind] =
                      IF named /\ @ # "absent" THEN "on" ELSE @]
        /\ Answer(w) \/ work' = [work EXCEPT ![w].at = "off", ![w].k = @ + 1]
        /\ approved' = approved /\ servers' = servers
    BY <1>3 DEF EnableNamed
  <2>2. work' \in [Workers -> Jobs] /\ \A v \in Workers : JobOK(work'[v], approved')
    <3>1. CASE Answer(w)
      BY <2>1, <3>1, AnswerStep
    <3>2. CASE work' = [work EXCEPT ![w].at = "off", ![w].k = @ + 1]
      <4>1. work[w].k + 1 \in Nat
        BY SMT, <1>0
      <4>2. work' = [work EXCEPT ![w].at = "off", ![w].k = work[w].k + 1]
        BY <3>2
      <4> QED
        BY <2>1, <4>1, <4>2, NextPlace
    <3> QED
      BY <2>1, <3>1, <3>2
  <2>3. named => <<s, kind>> \in approved
    BY <1>0 DEF JobOK
  <2> HIDE DEF s, kind, named
  <2>4. /\ caps' \in [Upstreams -> [CapKindSet -> {"absent", "off", "on"}]]
        /\ \A x \in Upstreams, k \in CapKindSet :
             caps'[x][k] = "on" => caps[x][k] = "on" \/ (x = s /\ k = kind /\ named)
    <3> DEFINE new == [caps[s] EXCEPT ![kind] =
                         IF named /\ caps[s][kind] # "absent" THEN "on" ELSE caps[s][kind]]
    <3>1. caps' = [caps EXCEPT ![s] = new]
      BY <2>1
    <3>2. s \in Upstreams =>
            /\ new \in [CapKindSet -> {"absent", "off", "on"}]
            /\ \A k \in CapKindSet : new[k] = "on" => caps[s][k] = "on" \/ (k = kind /\ named)
      BY DEF ProxyInv
    <3> HIDE DEF new
    <3> QED
      BY <3>1, <3>2 DEF ProxyInv
  <2> QED
    BY <2>1, <2>2, <2>3, <2>4 DEF ProxyInv
<1> QED
  BY <1>1, <1>2, <1>3

\* A discovery reads what is enabled and puts what it found in its place.
LEMMA ProxyDiscoverySteps ==
  ASSUME ProxyInv, NEW w \in Workers, DiscoveryRead(w) \/ UpsertDiscovery(w)
  PROVE  ProxyInv'
<1>0. work[w] \in Jobs /\ JobOK(work[w], approved)
  BY DEF ProxyInv
<1>1. CASE DiscoveryRead(w)
  <2>1. PICK on \in SUBSET EnabledFlags(work[w].id) :
          work' = [work EXCEPT ![w].at = "replace", ![w].on = on]
    BY <1>1 DEF DiscoveryRead
  <2>2. work[w].op = "test" /\ UNCHANGED <<servers, caps, approved>>
    BY <1>1 DEF DiscoveryRead, In
  <2> DEFINE job == [work[w] EXCEPT !.at = "replace", !.on = on]
  <2>3. on \in SUBSET CapKindSet
    BY <2>1 DEF EnabledFlags
  <2>4. job \in Jobs /\ job.on = on /\ job.id = work[w].id /\ job.op = work[w].op
    BY <1>0, <2>3 DEF Jobs
  <2>5. work' = [work EXCEPT ![w] = job]
    BY <2>1 DEF ProxyInv
  <2> HIDE DEF job
  <2>6. JobOK(job, approved')
    BY <1>0, <2>1, <2>2, <2>4 DEF JobOK, EnabledFlags, ProxyInv
  <2>7. work' \in [Workers -> Jobs] /\ \A v \in Workers : JobOK(work'[v], approved')
    BY <2>2, <2>4, <2>5, <2>6, WorkStep
  <2> QED
    BY <2>2, <2>7 DEF ProxyInv
<1>2. CASE UpsertDiscovery(w)
  <2> DEFINE s == work[w].id
             flags == work[w].on
  <2>1. PICK found \in SUBSET CapKindSet :
          caps' = [caps EXCEPT ![s] = [k \in CapKindSet |->
                     IF k \notin found THEN "absent"
                     ELSE IF k \in flags THEN "on" ELSE "off"]]
    BY <1>2 DEF UpsertDiscovery
  <2>2. work' = [work EXCEPT ![w].at = "status"] /\ UNCHANGED <<servers, approved>>
    BY <1>2 DEF UpsertDiscovery, To
  <2>3. work' \in [Workers -> Jobs] /\ \A v \in Workers : JobOK(work'[v], approved')
    BY <2>2, NextPlace
  <2>4. \A k \in flags : <<s, k>> \in approved
    BY <1>0 DEF JobOK
  <2> HIDE DEF s, flags
  <2>5. caps' \in [Upstreams -> [CapKindSet -> {"absent", "off", "on"}]]
    BY <2>1 DEF ProxyInv
  <2>6. ASSUME NEW x \in Upstreams, NEW k \in CapKindSet, caps'[x][k] = "on"
        PROVE  <<x, k>> \in approved
    <3>1. CASE x = s
      BY <2>1, <2>4, <2>6, <3>1 DEF ProxyInv
    <3>2. CASE x # s
      BY <2>1, <2>6, <3>2 DEF ProxyInv
    <3> QED
      BY <3>1, <3>2
  <2> QED
    BY <2>2, <2>3, <2>5, <2>6 DEF ProxyInv
<1> QED
  BY <1>1, <1>2

\* A capability of an upstream server is shown only if a manager has asked for
\* that capability of that server, for any number of servers, kinds and
\* concurrent requests: a discovery carries over what it read as enabled,
\* however late it writes, and enables nothing of its own (store.go:452).
THEOREM EnabledWasApprovedHolds == ProxySpec => []EnabledWasApproved
<1>1. ProxyInit => ProxyInv
  <2> SUFFICES ASSUME ProxyInit PROVE ProxyInv
    OBVIOUS
  <2>1. caps = [s \in Upstreams |-> [k \in CapKindSet |-> "absent"]]
        /\ servers = [s \in Upstreams |-> NoServer] /\ work = [w \in Workers |-> NoWork]
    BY DEF ProxyInit
  <2>2. JobOK(NoWork, approved)
    BY JobType DEF JobOK
  <2> QED
    BY <2>1, <2>2, JobType DEF ProxyInv
<1>2. ProxyInv /\ [ProxyNext]_proxyVars => ProxyInv'
  <2> SUFFICES ASSUME ProxyInv, [ProxyNext]_proxyVars PROVE ProxyInv'
    OBVIOUS
  <2>1. CASE UNCHANGED proxyVars
    BY <2>1 DEF proxyVars, ProxyInv
  <2>3. CASE ClearAuthSecret \/ UpsertServerACL \/ ReplaceTokenMCPServers
    <3>1. servers' \in [Upstreams -> ServerRows]
      <4>1. CASE ClearAuthSecret
        <5>1. PICK s \in Upstreams : servers' = [servers EXCEPT ![s].secret = "none"]
          BY <4>1 DEF ClearAuthSecret
        <5>2. [servers[s] EXCEPT !.secret = "none"] \in ServerRows
          BY DEF ProxyInv, ServerRows
        <5> QED
          BY <5>1, <5>2 DEF ProxyInv
      <4>2. CASE servers' = servers
        BY <4>2 DEF ProxyInv
      <4> QED
        BY <2>3, <4>1, <4>2 DEF UpsertServerACL, ReplaceTokenMCPServers
    <3>2. UNCHANGED <<caps, work, approved>>
      BY <2>3 DEF ClearAuthSecret, UpsertServerACL, ReplaceTokenMCPServers
    <3> QED
      BY <3>1, <3>2 DEF ProxyInv
  <2> QED
    BY <2>1, <2>3, ProxyPlainSteps, ProxyReadSteps, ProxyEnableSteps,
       ProxyDiscoverySteps DEF ProxyNext
<1>3. ProxyInv => EnabledWasApproved
  BY SMT DEF ProxyInv, EnabledWasApproved, ExposedForAccess
<1> QED
  BY <1>1, <1>2, <1>3, PTL DEF ProxySpec

-----------------------------------------------------------------------------
\* Usage.
WindowSet == {Windows[i] : i \in 1 .. Len(Windows)}
Storages == {"none"} \cup UNION {Targets[r] : r \in Reqs}
UsageKeys == Storages \X WindowSet \X Nat
Askings == [storage : Storages, next : Nat, key : UsageKeys \cup {<<>>},
            through : SUBSET (UsageKeys \X Nat),
            status : {"new", "asking", "ok", "error", "rate_limited"},
            recorded : BOOLEAN]

\* The charge a request is at: one of its due ones, and the key it has named
\* is of that window.
AskingOK(a) ==
  /\ a \in Askings
  /\ a.status = "asking" => a.next \in Due(a.storage)
  /\ a.key # <<>> => a.status = "asking" /\ a.key[2] = WindowAt(a.next)
  /\ a.recorded => a.status \in {"ok", "error", "rate_limited"}
  /\ a.status = "new" => a.through = {}

\* Who incremented count l of key k, and who of them may still be let through.
Incrementers(ask, k, l) == {r \in Reqs : <<k, l>> \in ask[r].through}
Hopeful(ask, k, l) == {r \in Incrementers(ask, k, l) : ask[r].status \in {"asking", "ok"}}

\* A count is at least the number of requests that incremented it, and those
\* that were not refused are within the limit.
CountsOK(ch, ask) ==
  /\ DOMAIN ch \subseteq UsageKeys
  /\ \A k \in DOMAIN ch : ch[k] \in Seq(Nat) /\ Len(ch[k]) > 0
  /\ \A r \in Reqs : \A charge \in ask[r].through :
       charge[1] \in DOMAIN ch /\ charge[2] \in 1 .. Len(ch[charge[1]])
  /\ \A k \in DOMAIN ch : \A l \in 1 .. Len(ch[k]) :
       /\ Cardinality(Incrementers(ask, k, l)) <= ch[k][l]
       /\ Cardinality(Hopeful(ask, k, l)) <= Limit[k[2]]

\* A metric of a request is missing only when the map is full.
MetricsOK ==
  /\ IsFiniteSet(series) /\ IsFiniteSet(DOMAIN charged)
  /\ UncountedOnlyWhenFull

UsageInv ==
  /\ clock \in Nat /\ asking \in [Reqs -> Askings]
  /\ \A r \in Reqs : AskingOK(asking[r])
  /\ charged = [k \in DOMAIN charged |-> charged[k]]
  /\ CountsOK(charged, asking)
  /\ ~inRedisRL => \A k \in DOMAIN charged : Len(charged[k]) = 1
  /\ MetricsOK

\* Every window a request is counted in has a limit.
LEMMA KeyLimited == \A k \in UsageKeys : Limit[k[2]] \in Nat
<1>1. \A w \in WindowSet : Limit[w] \in Nat
  BY UsageAssumption DEF WindowSet
<1> QED
  BY <1>1 DEF UsageKeys

\* The window of a due charge is one of the windows, and it is limited.
LEMMA DueWindow ==
  ASSUME NEW storage, NEW i \in Due(storage)
  PROVE  /\ i \in Nat \ {0} /\ WindowAt(i) \in WindowSet
         /\ Limit[WindowAt(i)] \in Nat
<1>1. i \in 1 .. 2 * Len(Windows) /\ Len(Windows) \in Nat
  BY UsageAssumption DEF Due
<1>2. (i + 1) \div 2 \in 1 .. Len(Windows)
  BY SMT, <1>1
<1> QED
  BY SMT, <1>1, <1>2, UsageAssumption DEF WindowAt, WindowSet

\* A set of numbers that is not empty has a least one.
LEMMA SmallestNumber ==
  ASSUME NEW S \in SUBSET Nat, S # {}
  PROVE  \E m \in S : \A n \in S : m <= n
<1> DEFINE R == OpToRel(<, Nat)
<1>1. IsWellFoundedOn(R, Nat)
  BY NatLessThanWellFounded
<1>2. \A a, b \in Nat : a < b => <<a, b>> \in R
  BY DEF OpToRel
<1> HIDE DEF R
<1>3. PICK m \in S : \A n \in S : ~ (<<n, m>> \in R)
  BY <1>1, WFMin
<1>4. ASSUME NEW n \in S PROVE m <= n
  <2>1. m \in Nat /\ n \in Nat /\ ~(n < m)
    BY <1>2, <1>3
  <2> QED
    BY SMT, <2>1
<1> QED
  BY <1>4

\* After a charge comes another due one, or none.
LEMMA FollowingIsDue ==
  ASSUME NEW storage, NEW i \in Nat
  PROVE  /\ Following(storage, i) \in Nat
         /\ Following(storage, i) # 0 => Following(storage, i) \in Due(storage)
<1> DEFINE due == {j \in Due(storage) : j > i}
<1>1. due \in SUBSET Nat /\ due \subseteq Due(storage)
  BY DueWindow
<1>2. CASE due = {}
  BY <1>2 DEF Following
<1>3. CASE due # {}
  <2>1. \E m \in due : \A n \in due : m <= n
    BY <1>1, <1>3, SmallestNumber
  <2>2. Following(storage, i) = Min(due)
    BY <1>3 DEF Following
  <2>3. Min(due) \in due
    <3> HIDE DEF due
    <3> QED
      BY <2>1 DEF Min
  <2> QED
    BY <1>1, <2>2, <2>3
<1> QED
  BY <1>2, <1>3

\* The key of a due charge.
LEMMA KeyType ==
  ASSUME clock \in Nat, NEW storage \in Storages, NEW i \in Due(storage)
  PROVE  /\ Key(ChargeAt(storage, i)) \in UsageKeys
         /\ Key(ChargeAt(storage, i))[2] = WindowAt(i)
         /\ Key(ChargeAt(storage, i)) # <<>>
<1> DEFINE w == WindowAt(i)
           n == clock \div Span[w]
<1>1. w \in WindowSet /\ Span[w] \in Nat \ {0}
  BY DueWindow, UsageAssumption DEF WindowSet
<1>2. n \in Nat
  <2>1. \A x \in Nat, y \in Nat \ {0} : x \div y \in Nat
    BY SMT
  <2> QED
    BY <1>1, <2>1
<1>3. Key(ChargeAt(storage, i)) = <<IF i % 2 = 1 THEN "none" ELSE storage, w, n>>
  BY DEF Key, ChargeAt
<1> HIDE DEF w, n
<1>4. (IF i % 2 = 1 THEN "none" ELSE storage) \in Storages
  BY DEF Storages
<1> QED
  BY SMT, <1>1, <1>2, <1>3, <1>4 DEF UsageKeys, w

\* One request's step.
LEMMA AskingStep ==
  ASSUME UsageInv, NEW r \in Reqs, NEW a, AskingOK(a),
         asking' = [asking EXCEPT ![r] = a]
  PROVE  /\ asking' \in [Reqs -> Askings] /\ asking'[r] = a
         /\ \A q \in Reqs : AskingOK(asking'[q])
         /\ \A q \in Reqs : q # r => asking'[q] = asking[q]
<1>1. /\ asking' \in [Reqs -> Askings] /\ asking'[r] = a
      /\ \A q \in Reqs : q # r => asking'[q] = asking[q]
  BY DEF UsageInv, AskingOK
<1> QED
  BY SMT, <1>1 DEF UsageInv, AskingOK, Due, WindowAt

\* The requests that incremented a count are finitely many.
LEMMA SmallerGroup ==
  ASSUME NEW S \in SUBSET Reqs, NEW T \in SUBSET S
  PROVE  /\ IsFiniteSet(S) /\ IsFiniteSet(T)
         /\ Cardinality(S) \in Nat /\ Cardinality(T) \in Nat
         /\ Cardinality(T) <= Cardinality(S)
<1>1. IsFiniteSet(S)
  BY UsageAssumption, FS_Subset
<1>2. IsFiniteSet(T) /\ Cardinality(T) <= Cardinality(S)
  BY <1>1, FS_Subset
<1> QED
  BY <1>1, <1>2, FS_CardinalityType

\* Steps that increment nothing.
LEMMA CountsSame ==
  ASSUME UsageInv, charged' = charged,
         \A q \in Reqs : /\ asking'[q].through = asking[q].through
                         /\ asking'[q].status \in {"asking", "ok"} =>
                              asking[q].status \in {"asking", "ok"} \/ asking[q].through = {}
  PROVE  CountsOK(charged', asking')
<1>1. ASSUME NEW k \in DOMAIN charged, NEW l \in 1 .. Len(charged[k])
      PROVE  /\ Incrementers(asking', k, l) = Incrementers(asking, k, l)
             /\ Cardinality(Hopeful(asking', k, l)) <= Limit[k[2]]
  <2>1. /\ Incrementers(asking', k, l) = Incrementers(asking, k, l)
        /\ Hopeful(asking', k, l) \subseteq Hopeful(asking, k, l)
        /\ Hopeful(asking, k, l) \subseteq Reqs
    BY DEF Incrementers, Hopeful
  <2>2. /\ Cardinality(Hopeful(asking', k, l)) <= Cardinality(Hopeful(asking, k, l))
        /\ Cardinality(Hopeful(asking', k, l)) \in Nat
        /\ Cardinality(Hopeful(asking, k, l)) \in Nat
    BY <2>1, SmallerGroup
  <2>3. Cardinality(Hopeful(asking, k, l)) <= Limit[k[2]] /\ Limit[k[2]] \in Nat
    BY UsageAssumption DEF UsageInv, CountsOK, UsageKeys, WindowSet
  <2> QED
    BY SMT, <2>1, <2>2, <2>3
<1>2. \A r \in Reqs : \A charge \in asking'[r].through :
        charge[1] \in DOMAIN charged /\ charge[2] \in 1 .. Len(charged[charge[1]])
  BY DEF UsageInv, CountsOK
<1> QED
  BY SMT, <1>1, <1>2 DEF UsageInv, CountsOK

\* The counts of a key, whether it is there or not, and those after an INCR.
LEMMA CountsFacts ==
  ASSUME UsageInv, NEW k \in UsageKeys
  PROVE  /\ Counts(k) \in Seq(Nat) /\ Len(Counts(k)) > 0
         /\ Incremented(k) \in Seq(Nat) /\ Len(Incremented(k)) = Len(Counts(k))
         /\ Incremented(k)[Len(Counts(k))] = Counts(k)[Len(Counts(k))] + 1
         /\ \A l \in 1 .. Len(Counts(k)) : l # Len(Counts(k)) =>
              Incremented(k)[l] = Counts(k)[l]
         /\ Limit[k[2]] \in Nat
         /\ \A l \in 1 .. Len(Counts(k)) :
              /\ Cardinality(Incrementers(asking, k, l)) <= Counts(k)[l]
              /\ Cardinality(Hopeful(asking, k, l)) <= Limit[k[2]]
<1>1. Counts(k) \in Seq(Nat) /\ Len(Counts(k)) > 0
  BY SMT DEF Counts, UsageInv, CountsOK
<1>2. Limit[k[2]] \in Nat
  BY UsageAssumption DEF UsageKeys, WindowSet
<1>3. /\ Incremented(k) \in Seq(Nat) /\ Len(Incremented(k)) = Len(Counts(k))
      /\ Incremented(k)[Len(Counts(k))] = Counts(k)[Len(Counts(k))] + 1
      /\ \A l \in 1 .. Len(Counts(k)) : l # Len(Counts(k)) =>
           Incremented(k)[l] = Counts(k)[l]
  BY SMT, <1>1 DEF Incremented
<1>4. CASE k \in DOMAIN charged
  BY <1>1, <1>2, <1>3, <1>4 DEF Counts, UsageInv, CountsOK
<1>5. CASE k \notin DOMAIN charged
  <2>1. Counts(k) = <<0>> /\ Len(Counts(k)) = 1 /\ Counts(k)[1] = 0
    BY <1>5 DEF Counts
  <2>2. Incrementers(asking, k, 1) = {} /\ Hopeful(asking, k, 1) = {}
    BY SMT, <1>5 DEF UsageInv, CountsOK, Incrementers, Hopeful
  <2>3. Cardinality({}) = 0
    BY FS_EmptySet
  <2>4. ASSUME NEW l \in 1 .. Len(Counts(k))
        PROVE  /\ Cardinality(Incrementers(asking, k, l)) <= Counts(k)[l]
               /\ Cardinality(Hopeful(asking, k, l)) <= Limit[k[2]]
    <3>1. l = 1
      BY SMT, <2>1
    <3>2. Cardinality(Incrementers(asking, k, l)) = 0 /\ Cardinality(Hopeful(asking, k, l)) = 0
      BY <2>2, <2>3, <3>1
    <3>3. Counts(k)[l] = 0
      BY <2>1, <3>1
    <3> QED
      BY SMT, <1>2, <3>2, <3>3
  <2> QED
    BY <1>1, <1>2, <1>3, <2>4
<1> QED
  BY <1>4, <1>5

\* An INCR of key k for request r: the request is among those that made it, or
\* it never learns of it; if it may still be let through, the count is within
\* the limit.
LEMMA CountsCharge ==
  ASSUME UsageInv, NEW k \in UsageKeys, NEW r \in Reqs, Charge(k),
         \A q \in Reqs : q # r => asking'[q] = asking[q],
         asking[r].status = "asking",
         \/ /\ asking'[r].through = asking[r].through
            /\ asking'[r].status \notin {"asking", "ok"}
         \/ /\ asking'[r].through = asking[r].through \cup {<<k, Len(Counts(k))>>}
            /\ asking'[r].status \in {"asking", "ok"} =>
                 Incremented(k)[Len(Counts(k))] <= Limit[k[2]]
  PROVE  CountsOK(charged', asking')
<1> DEFINE L == Len(Counts(k))
           new == Incremented(k)
<1>1. /\ charged' = [j \in DOMAIN charged \cup {k} |-> IF j = k THEN new ELSE charged[j]]
      /\ DOMAIN charged' = DOMAIN charged \cup {k}
  BY DEF Charge
<1>2. /\ Counts(k) \in Seq(Nat) /\ L > 0 /\ new \in Seq(Nat) /\ Len(new) = L
      /\ new[L] = Counts(k)[L] + 1
      /\ \A l \in 1 .. L : l # L => new[l] = Counts(k)[l]
      /\ Limit[k[2]] \in Nat
      /\ \A l \in 1 .. L : /\ Cardinality(Incrementers(asking, k, l)) <= Counts(k)[l]
                           /\ Cardinality(Hopeful(asking, k, l)) <= Limit[k[2]]
  BY CountsFacts
<1>3. L \in Nat /\ L \in 1 .. L /\ Counts(k)[L] \in Nat /\ new[L] \in Nat
  BY SMT, <1>2
<1>4. /\ asking'[r].through \subseteq asking[r].through \cup {<<k, L>>}
      /\ \A q \in Reqs : q # r => asking'[q] = asking[q]
  OBVIOUS
<1> HIDE DEF L, new
<1>5. DOMAIN charged' \subseteq UsageKeys
      /\ \A j \in DOMAIN charged' : charged'[j] \in Seq(Nat) /\ Len(charged'[j]) > 0
  BY <1>1, <1>2 DEF UsageInv, CountsOK
<1>6. ASSUME NEW q \in Reqs, NEW charge \in asking'[q].through
      PROVE  charge[1] \in DOMAIN charged' /\ charge[2] \in 1 .. Len(charged'[charge[1]])
  <2>1. CASE charge = <<k, L>>
    BY <1>1, <1>2, <1>3, <2>1
  <2>2. CASE charge # <<k, L>>
    <3>1. charge \in asking[q].through
      BY <1>4, <1>6, <2>2
    <3>2. charge[1] \in DOMAIN charged /\ charge[2] \in 1 .. Len(charged[charge[1]])
      BY <3>1 DEF UsageInv, CountsOK
    <3>3. charge[1] = k => Len(charged[charge[1]]) = L
      BY <3>2 DEF Counts, L
    <3> QED
      BY <1>1, <1>2, <3>2, <3>3
  <2> QED
    BY <2>1, <2>2
<1>7. ASSUME NEW j \in DOMAIN charged', NEW l \in 1 .. Len(charged'[j])
      PROVE  /\ Cardinality(Incrementers(asking', j, l)) <= charged'[j][l]
             /\ Cardinality(Hopeful(asking', j, l)) <= Limit[j[2]]
  <2> DEFINE Was == Incrementers(asking, j, l)
             Is == Incrementers(asking', j, l)
             Hoped == Hopeful(asking, j, l)
             Hope == Hopeful(asking', j, l)
  <2>0. Was \subseteq Reqs /\ Is \subseteq Reqs /\ Hoped \subseteq Was /\ Hope \subseteq Is
    BY DEF Incrementers, Hopeful
  <2>1. CASE j = k /\ l = L
    <3>1. Is \subseteq Was \cup {r}
      BY <1>4, <2>1 DEF Incrementers
    <3>2. /\ IsFiniteSet(Was) /\ Cardinality(Was) \in Nat
          /\ Cardinality(Is) \in Nat /\ Cardinality(Hope) \in Nat
          /\ Cardinality(Hope) <= Cardinality(Is)
      BY <2>0, SmallerGroup
    <3>3. Was \cup {r} \subseteq Reqs
      BY <2>0
    <3>4. /\ Cardinality(Is) <= Cardinality(Was \cup {r})
          /\ Cardinality(Was \cup {r}) \in Nat
      BY <3>1, <3>3, SmallerGroup
    <3>5. Cardinality(Was \cup {r}) = Cardinality(Was)
          \/ Cardinality(Was \cup {r}) = Cardinality(Was) + 1
      BY <3>2, FS_AddElement
    <3>6. Cardinality(Was) <= Counts(k)[L] /\ Cardinality(Hoped) <= Limit[k[2]]
      BY <1>2, <1>3, <2>1
    <3>7. Cardinality(Is) <= new[L]
      <4> HIDE DEF Was, Is, Hope, Hoped
      <4>1. Cardinality(Is) <= Cardinality(Was) + 1
        BY SMT, <3>2, <3>4, <3>5
      <4>2. new[L] = Counts(k)[L] + 1
        BY <1>2
      <4> QED
        BY SMT, <1>3, <3>2, <3>6, <4>1, <4>2
    <3>8. Cardinality(Hope) <= Limit[k[2]]
      <4>1. CASE r \in Hope
        <5>1. asking'[r].status \in {"asking", "ok"}
          BY <4>1 DEF Hopeful
        <5>2. new[L] <= Limit[k[2]]
          BY <5>1 DEF L, new
        <5> QED
          <6> HIDE DEF Was, Is, Hope, Hoped
          <6>1. Limit[k[2]] \in Nat
            BY <1>2
          <6> QED
            BY SMT, <1>3, <3>2, <3>7, <5>2, <6>1
      <4>2. CASE r \notin Hope
        <5>1. Hope \subseteq Hoped
          BY <1>4, <2>1, <4>2 DEF Incrementers, Hopeful
        <5>2. /\ Cardinality(Hope) <= Cardinality(Hoped)
              /\ Cardinality(Hope) \in Nat /\ Cardinality(Hoped) \in Nat
          BY <2>0, <5>1, SmallerGroup
        <5>3. Limit[k[2]] \in Nat /\ Cardinality(Hoped) <= Limit[k[2]]
          BY <1>2, <3>6
        <5> HIDE DEF Was, Is, Hope, Hoped
        <5> QED
          BY SMT, <5>2, <5>3
      <4> QED
        BY <4>1, <4>2
    <3> HIDE DEF Is, Hope
    <3>9. charged'[j][l] = new[L]
      BY <1>1, <2>1
    <3> QED
      BY <2>1, <3>7, <3>8, <3>9 DEF Is, Hope
  <2>2. CASE ~(j = k /\ l = L)
    <3>1. <<j, l>> # <<k, L>>
      BY <2>2
    <3>2. Is = Was /\ Hope \subseteq Hoped
      BY SMT, <1>4, <3>1 DEF Incrementers, Hopeful
    <3>3. /\ Cardinality(Hope) <= Cardinality(Hoped) /\ Cardinality(Hoped) \in Nat
          /\ Cardinality(Hope) \in Nat
      BY <2>0, <3>2, SmallerGroup
    <3>4. Cardinality(Was) <= charged'[j][l] /\ Cardinality(Hoped) <= Limit[j[2]]
      <4>1. CASE j = k
        <5>1. l \in 1 .. L /\ l # L /\ charged'[j][l] = Counts(k)[l]
          BY <1>1, <1>2, <2>2, <4>1
        <5> QED
          BY <1>2, <4>1, <5>1
      <4>2. CASE j # k
        <5>1. j \in DOMAIN charged /\ charged'[j] = charged[j]
          BY <1>1, <4>2
        <5> QED
          BY <5>1 DEF UsageInv, CountsOK
      <4> QED
        BY <4>1, <4>2
    <3>5. Limit[j[2]] \in Nat
      BY <1>5, KeyLimited
    <3> QED
      BY SMT, <3>2, <3>3, <3>4, <3>5
  <2> QED
    BY <2>1, <2>2
<1> QED
  BY <1>5, <1>6, <1>7 DEF CountsOK

\* The series of the bytes of a request, under the status it ended with.
Counted(metrics, a) == \E m \in metrics : m[1] = "bytes_out" /\ m[2] = a.storage
                                          /\ m[3] \in {a.status, "error"}

\* The map only grows, so what was full stays full.
LEMMA MetricsGrow ==
  ASSUME UsageInv, IsFiniteSet(series'), series \subseteq series',
         IsFiniteSet(DOMAIN charged'), DOMAIN charged \subseteq DOMAIN charged',
         inRedisRL' = inRedisRL, Cardinality(series') <= MaxSeries,
         \A r \in Reqs : asking'[r].recorded /\ InMap(series)' < MaxSeries =>
           \/ /\ asking[r].recorded /\ asking'[r].status = asking[r].status
              /\ asking'[r].storage = asking[r].storage
           \/ Counted(series', asking'[r])
  PROVE  MetricsOK'
<1>1. /\ Cardinality(series) <= Cardinality(series')
      /\ Cardinality(series) \in Nat /\ Cardinality(series') \in Nat
      /\ Cardinality(DOMAIN charged) <= Cardinality(DOMAIN charged')
      /\ Cardinality(DOMAIN charged) \in Nat /\ Cardinality(DOMAIN charged') \in Nat
  BY FS_Subset, FS_CardinalityType DEF UsageInv, MetricsOK
<1>2. InMap(series) \in Nat /\ InMap(series)' \in Nat /\ InMap(series) <= InMap(series)'
  BY SMT, <1>1 DEF InMap
<1>3. MaxSeries \in Nat
  BY UsageAssumption
<1>4. ASSUME NEW r \in Reqs, asking'[r].recorded, InMap(series)' < MaxSeries
      PROVE  Counted(series', asking'[r])
  <2>1. CASE /\ asking[r].recorded /\ asking'[r].status = asking[r].status
             /\ asking'[r].storage = asking[r].storage
    <3>1. InMap(series) < MaxSeries
      BY SMT, <1>2, <1>3, <1>4
    <3>2. Counted(series, asking[r])
      BY <2>1, <3>1 DEF UsageInv, MetricsOK, UncountedOnlyWhenFull, Counted
    <3> QED
      BY <2>1, <3>2 DEF Counted
  <2> QED
    BY <1>4, <2>1
<1> QED
  BY <1>4 DEF MetricsOK, UncountedOnlyWhenFull, Counted

\* A metric is bumped: there is a series for it, or the map is full.
LEMMA Bumped ==
  ASSUME UsageInv, NEW metrics, IsFiniteSet(metrics), Cardinality(metrics) <= MaxSeries,
         NEW k
  PROVE  /\ IsFiniteSet(bumpCounter(metrics, k))
         /\ Cardinality(bumpCounter(metrics, k)) <= MaxSeries
         /\ metrics \subseteq bumpCounter(metrics, k)
         /\ k \in bumpCounter(metrics, k) \/ InMap(bumpCounter(metrics, k)) >= MaxSeries
<1>1. Cardinality(metrics) \in Nat /\ Cardinality(DOMAIN charged) \in Nat /\ MaxSeries \in Nat
  BY FS_CardinalityType, UsageAssumption DEF UsageInv, MetricsOK
<1>2. CASE k \notin metrics /\ InMap(metrics) >= MaxSeries
  BY <1>2 DEF bumpCounter
<1>3. CASE k \in metrics
  <2>1. metrics \cup {k} = metrics
    BY <1>3
  <2> QED
    BY <1>3, <2>1 DEF bumpCounter
<1>4. CASE k \notin metrics /\ ~(InMap(metrics) >= MaxSeries)
  <2>1. bumpCounter(metrics, k) = metrics \cup {k}
    BY <1>4 DEF bumpCounter
  <2>2. IsFiniteSet(metrics \cup {k}) /\ Cardinality(metrics \cup {k}) = Cardinality(metrics) + 1
    BY <1>4, FS_AddElement
  <2>3. Cardinality(metrics) < MaxSeries
    BY SMT, <1>1, <1>4 DEF InMap
  <2> QED
    BY SMT, <1>1, <2>1, <2>2, <2>3
<1> QED
  BY <1>2, <1>3, <1>4

\* Record.
LEMMA UsageRecordStep ==
  ASSUME UsageInv, NEW r \in Reqs, Record(r)
  PROVE  UsageInv'
<1>1. PICK status \in {"ok", "error", "rate_limited"} :
        /\ \/ asking[r].status = status
           \/ asking[r].status = "ok" /\ status = "error"
        /\ series' = Metrics(asking[r].storage, status)
        /\ asking' = [asking EXCEPT ![r].recorded = TRUE]
        /\ UNCHANGED <<clock, inRedisRL, charged>>
  BY DEF Record
<1> DEFINE a == [asking[r] EXCEPT !.recorded = TRUE]
           label(name) == <<name, asking[r].storage, status>>
           m1 == bumpCounter(series, label("requests"))
           m2 == CASE status = "rate_limited" -> bumpCounter(m1, label("rate_limited"))
                   [] status = "error" -> bumpCounter(m1, label("errors"))
                   [] OTHER -> m1
           m3 == bumpCounter(m2, label("bytes_in"))
           m4 == bumpCounter(m3, label("bytes_out"))
<1>2. asking[r] \in Askings /\ AskingOK(asking[r])
  BY DEF UsageInv
<1>3. /\ a \in Askings /\ a.storage = asking[r].storage /\ a.status = asking[r].status
      /\ a.through = asking[r].through /\ a.key = asking[r].key /\ a.next = asking[r].next
  BY <1>2 DEF Askings
<1>4. asking' = [asking EXCEPT ![r] = a]
  BY <1>1 DEF UsageInv
<1>5. series' = m4
  BY <1>1 DEF Metrics
<1> HIDE DEF a
<1>6. AskingOK(a)
  BY <1>1, <1>2, <1>3 DEF AskingOK
<1>7. /\ asking' \in [Reqs -> Askings] /\ asking'[r] = a
      /\ \A q \in Reqs : AskingOK(asking'[q])
      /\ \A q \in Reqs : q # r => asking'[q] = asking[q]
  BY <1>4, <1>6, AskingStep
<1>8. CountsOK(charged', asking')
  BY <1>1, <1>3, <1>7, CountsSame
<1>9. IsFiniteSet(series) /\ Cardinality(series) <= MaxSeries
  BY DEF UsageInv, MetricsOK, UncountedOnlyWhenFull
<1>10. IsFiniteSet(m1) /\ Cardinality(m1) <= MaxSeries /\ series \subseteq m1
  BY <1>9, Bumped
<1> HIDE DEF m1
<1>11. IsFiniteSet(m2) /\ Cardinality(m2) <= MaxSeries /\ m1 \subseteq m2
  BY <1>10, Bumped
<1> HIDE DEF m2
<1>12. IsFiniteSet(m3) /\ Cardinality(m3) <= MaxSeries /\ m2 \subseteq m3
  BY <1>11, Bumped
<1> HIDE DEF m3
<1>13. /\ IsFiniteSet(m4) /\ Cardinality(m4) <= MaxSeries /\ m3 \subseteq m4
       /\ label("bytes_out") \in m4 \/ InMap(m4) >= MaxSeries
  BY <1>12, Bumped
<1> HIDE DEF m4
<1>14. series \subseteq m4
  BY <1>10, <1>11, <1>12, <1>13
<1>15. InMap(series)' = InMap(m4)
  BY <1>1, <1>5 DEF InMap
<1>16. InMap(series)' < MaxSeries => Counted(series', asking'[r])
  <2> SUFFICES ASSUME InMap(series)' < MaxSeries PROVE Counted(series', asking'[r])
    OBVIOUS
  <2>1. InMap(m4) \in Nat /\ MaxSeries \in Nat
    BY SMT, <1>13, FS_CardinalityType, UsageAssumption DEF InMap, UsageInv, MetricsOK
  <2>2. label("bytes_out") \in m4
    BY SMT, <1>13, <1>15, <2>1
  <2> QED
    BY SMT, <1>1, <1>3, <1>5, <1>7, <2>2 DEF Counted
<1>17. MetricsOK'
  <2>1. IsFiniteSet(series') /\ series \subseteq series' /\ Cardinality(series') <= MaxSeries
    BY <1>5, <1>13, <1>14
  <2>2. /\ IsFiniteSet(DOMAIN charged') /\ DOMAIN charged \subseteq DOMAIN charged'
        /\ inRedisRL' = inRedisRL
    BY <1>1 DEF UsageInv, MetricsOK
  <2>3. \A q \in Reqs : asking'[q].recorded /\ InMap(series)' < MaxSeries =>
           \/ /\ asking[q].recorded /\ asking'[q].status = asking[q].status
              /\ asking'[q].storage = asking[q].storage
           \/ Counted(series', asking'[q])
    BY <1>7, <1>16
  <2> QED
    BY <2>1, <2>2, <2>3, MetricsGrow
<1> QED
  BY <1>1, <1>7, <1>8, <1>17 DEF UsageInv

\* Steps that add nothing to the map, and record nothing.
LEMMA MetricsSame ==
  ASSUME UsageInv, series' = series, DOMAIN charged' = DOMAIN charged,
         inRedisRL' = inRedisRL,
         \A r \in Reqs : asking'[r].recorded =>
           /\ asking[r].recorded /\ asking'[r].status = asking[r].status
           /\ asking'[r].storage = asking[r].storage
  PROVE  MetricsOK'
  BY MetricsGrow DEF UsageInv, MetricsOK, UncountedOnlyWhenFull

\* A request asks, and names its next key.
LEMMA UsageAskSteps ==
  ASSUME UsageInv, NEW r \in Reqs, Allow(r) \/ NameKey(r)
  PROVE  UsageInv'
<1>0. asking[r] \in Askings /\ AskingOK(asking[r]) /\ clock \in Nat
  BY DEF UsageInv
<1>1. UNCHANGED <<clock, inRedisRL, charged, series>>
  BY DEF Allow, NameKey
<1>2. PICK a : /\ AskingOK(a) /\ asking' = [asking EXCEPT ![r] = a]
               /\ a.through = asking[r].through /\ a.recorded = asking[r].recorded
               /\ ~asking[r].recorded
               /\ asking[r].status = "asking" \/ asking[r].through = {}
  <2>1. CASE Allow(r)
    <3>1. PICK s \in Targets[r] :
            asking' = [asking EXCEPT ![r].storage = s, ![r].next = Following(s, 0),
                                     ![r].status = Admit(Following(s, 0))]
      BY <2>1 DEF Allow
    <3> DEFINE n == Following(s, 0)
               a == [asking[r] EXCEPT !.storage = s, !.next = n, !.status = Admit(n)]
    <3>2. asking[r].status = "new"
      BY <2>1 DEF Allow
    <3>3. s \in Storages /\ n \in Nat /\ (n # 0 => n \in Due(s))
      BY FollowingIsDue DEF Storages
    <3>4. Admit(n) = IF n = 0 THEN "ok" ELSE "asking"
      BY DEF Admit
    <3>5. asking' = [asking EXCEPT ![r] = a]
      BY <3>1 DEF UsageInv
    <3> HIDE DEF n
    <3>6. /\ a \in Askings /\ a.storage = s /\ a.next = n /\ a.key = asking[r].key
          /\ a.status = Admit(n)
          /\ a.through = asking[r].through /\ a.recorded = asking[r].recorded
      BY <1>0, <3>3, <3>4 DEF Askings
    <3> HIDE DEF a
    <3>7. asking[r].key = <<>> /\ ~asking[r].recorded /\ asking[r].through = {}
      BY <1>0, <3>2 DEF AskingOK
    <3>8. AskingOK(a)
      BY <3>3, <3>4, <3>6, <3>7 DEF AskingOK
    <3> QED
      BY <3>5, <3>6, <3>7, <3>8
  <2>2. CASE NameKey(r)
    <3> DEFINE k == Key(ChargeAt(asking[r].storage, asking[r].next))
               a == [asking[r] EXCEPT !.key = k]
    <3>1. asking[r].status = "asking" /\ asking' = [asking EXCEPT ![r] = a]
      BY <2>2 DEF NameKey, UsageInv
    <3>2. asking[r].storage \in Storages /\ asking[r].next \in Due(asking[r].storage)
      BY <1>0, <3>1 DEF AskingOK, Askings
    <3>3. k \in UsageKeys /\ k[2] = WindowAt(asking[r].next)
      BY <1>0, <3>2, KeyType
    <3> HIDE DEF k
    <3>4. /\ a \in Askings /\ a.storage = asking[r].storage /\ a.next = asking[r].next
          /\ a.key = k /\ a.status = asking[r].status
          /\ a.through = asking[r].through /\ a.recorded = asking[r].recorded
      BY <1>0, <3>3 DEF Askings
    <3> HIDE DEF a
    <3>5. AskingOK(a) /\ ~asking[r].recorded
      BY <1>0, <3>1, <3>3, <3>4 DEF AskingOK
    <3> QED
      BY <3>1, <3>4, <3>5
  <2> QED
    BY <2>1, <2>2
<1>3. /\ asking' \in [Reqs -> Askings] /\ asking'[r] = a
      /\ \A q \in Reqs : AskingOK(asking'[q])
      /\ \A q \in Reqs : q # r => asking'[q] = asking[q]
  BY <1>2, AskingStep
<1>4. CountsOK(charged', asking')
  BY <1>1, <1>2, <1>3, CountsSame
<1>5. MetricsOK'
  BY <1>1, <1>2, <1>3, MetricsSame
<1> QED
  BY <1>1, <1>3, <1>4, <1>5 DEF UsageInv

\* After a charge the counts have the key.
LEMMA ChargedKeys ==
  ASSUME UsageInv, NEW k \in UsageKeys, Charge(k)
  PROVE  /\ charged' = [j \in DOMAIN charged' |-> charged'[j]]
         /\ DOMAIN charged \subseteq DOMAIN charged' /\ IsFiniteSet(DOMAIN charged')
         /\ (\A j \in DOMAIN charged : Len(charged[j]) = 1) =>
              \A j \in DOMAIN charged' : Len(charged'[j]) = 1
<1>1. /\ charged' = [j \in DOMAIN charged \cup {k} |->
                       IF j = k THEN Incremented(k) ELSE charged[j]]
      /\ DOMAIN charged' = DOMAIN charged \cup {k}
  BY DEF Charge
<1>2. IsFiniteSet(DOMAIN charged \cup {k})
  BY FS_AddElement DEF UsageInv, MetricsOK
<1>3. Len(Incremented(k)) = Len(Counts(k))
  BY CountsFacts
<1>4. (\A j \in DOMAIN charged : Len(charged[j]) = 1) => Len(Counts(k)) = 1
  BY DEF Counts
<1> QED
  BY <1>1, <1>2, <1>3, <1>4

\* What an INCR changes besides the counts.
LEMMA UsageChargeStep ==
  ASSUME UsageInv, NEW r \in Reqs, NEW k \in UsageKeys, NEW a, AskingOK(a),
         Charge(k), asking' = [asking EXCEPT ![r] = a],
         UNCHANGED <<clock, inRedisRL, series>>,
         asking[r].status = "asking", ~a.recorded,
         \/ a.through = asking[r].through /\ a.status \notin {"asking", "ok"}
         \/ /\ a.through = asking[r].through \cup {<<k, Len(Counts(k))>>}
            /\ a.status \in {"asking", "ok"} =>
                 Incremented(k)[Len(Counts(k))] <= Limit[k[2]]
  PROVE  UsageInv'
<1>1. /\ asking' \in [Reqs -> Askings] /\ asking'[r] = a
      /\ \A q \in Reqs : AskingOK(asking'[q])
      /\ \A q \in Reqs : q # r => asking'[q] = asking[q]
  BY AskingStep
<1>2. CountsOK(charged', asking')
  BY <1>1, CountsCharge
<1>3. /\ charged' = [j \in DOMAIN charged' |-> charged'[j]]
      /\ DOMAIN charged \subseteq DOMAIN charged' /\ IsFiniteSet(DOMAIN charged')
      /\ (\A j \in DOMAIN charged : Len(charged[j]) = 1) =>
           \A j \in DOMAIN charged' : Len(charged'[j]) = 1
  BY ChargedKeys
<1>4. MetricsOK'
  <2>1. /\ IsFiniteSet(series') /\ series \subseteq series'
        /\ Cardinality(series') <= MaxSeries /\ inRedisRL' = inRedisRL
    BY DEF UsageInv, MetricsOK, UncountedOnlyWhenFull
  <2>2. \A q \in Reqs : asking'[q].recorded =>
           /\ asking[q].recorded /\ asking'[q].status = asking[q].status
           /\ asking'[q].storage = asking[q].storage
    BY <1>1
  <2> QED
    BY <1>3, <2>1, <2>2, MetricsGrow
<1> QED
  BY <1>1, <1>2, <1>3, <1>4 DEF UsageInv

\* A window is incremented, or the answer of Redis does not arrive.
LEMMA UsageIncrementSteps ==
  ASSUME UsageInv, NEW r \in Reqs, incrementWindow(r) \/ incrementFails(r)
  PROVE  UsageInv'
<1>0. asking[r] \in Askings /\ AskingOK(asking[r]) /\ clock \in Nat
  BY DEF UsageInv
<1>1. CASE incrementWindow(r)
  <2> DEFINE s == asking[r].storage
             i == asking[r].next
             next == Following(s, i)
             c == ChargeAt(s, i)
             k == IF inRedisRL THEN asking[r].key ELSE Key(c)
             n == Incremented(k)
             status == IF Within(n[Len(n)], c[2]) THEN Admit(next) ELSE "rate_limited"
             a == [asking[r] EXCEPT !.next = next, !.key = <<>>,
                     !.through = @ \cup {<<k, Len(n)>>}, !.status = status]
  <2>1. /\ asking[r].status = "asking" /\ (inRedisRL => asking[r].key # <<>>)
        /\ Charge(k) /\ UNCHANGED <<clock, inRedisRL, series>>
    BY <1>1 DEF incrementWindow
  <2>2. asking' = [asking EXCEPT ![r] = a]
    BY <1>1 DEF incrementWindow, UsageInv
  <2>3. s \in Storages /\ i \in Due(s) /\ i \in Nat
    BY <1>0, <2>1 DEF AskingOK, Askings
  <2>4. k \in UsageKeys /\ k[2] = WindowAt(i)
    <3>1. CASE inRedisRL
      BY <1>0, <2>1, <3>1 DEF AskingOK, Askings
    <3>2. CASE ~inRedisRL
      BY <1>0, <2>3, <3>2, KeyType
    <3> QED
      BY <3>1, <3>2
  <2>5. next \in Nat /\ (next # 0 => next \in Due(s))
    BY <2>3, FollowingIsDue
  <2>6. c[2] = WindowAt(i)
    BY DEF ChargeAt
  <2> HIDE DEF k, c, next
  <2>7. /\ Len(n) = Len(Counts(k)) /\ Len(n) \in Nat
    BY SMT, <2>4, CountsFacts
  <2>8. /\ status \in {"asking", "ok", "rate_limited"}
        /\ status = "asking" => next # 0
        /\ status \in {"asking", "ok"} => n[Len(n)] <= Limit[k[2]]
    BY <2>4, <2>6 DEF Admit, Within
  <2> HIDE DEF n, status
  <2>9. /\ a \in Askings /\ a.storage = s /\ a.next = next /\ a.key = <<>>
        /\ a.through = asking[r].through \cup {<<k, Len(n)>>} /\ a.status = status
        /\ a.recorded = asking[r].recorded
    <3>1. asking[r].through \cup {<<k, Len(n)>>} \in SUBSET (UsageKeys \X Nat)
      BY SMT, <1>0, <2>4, <2>7 DEF Askings
    <3> QED
      BY <1>0, <2>5, <2>8, <3>1 DEF Askings
  <2> HIDE DEF a
  <2>10. AskingOK(a) /\ ~a.recorded
    BY <1>0, <2>1, <2>5, <2>8, <2>9 DEF AskingOK
  <2> QED
    BY <2>1, <2>2, <2>4, <2>7, <2>8, <2>9, <2>10, UsageChargeStep DEF n
<1>2. CASE incrementFails(r)
  <2> DEFINE k == asking[r].key
             a == [asking[r] EXCEPT !.status = "error", !.key = <<>>]
  <2>1. /\ k # <<>> /\ (charged' = charged \/ Charge(k))
        /\ UNCHANGED <<clock, inRedisRL, series>>
    BY <1>2 DEF incrementFails
  <2>2. asking' = [asking EXCEPT ![r] = a]
    BY <1>2 DEF incrementFails, UsageInv
  <2>3. k \in UsageKeys /\ asking[r].status = "asking"
    BY <1>0, <2>1 DEF AskingOK, Askings
  <2>4. /\ a \in Askings /\ a.key = <<>> /\ a.status = "error"
        /\ a.through = asking[r].through /\ a.recorded = asking[r].recorded
    BY <1>0 DEF Askings
  <2> HIDE DEF a, k
  <2>5. AskingOK(a) /\ ~a.recorded
    BY <1>0, <2>3, <2>4 DEF AskingOK
  <2>6. CASE Charge(k)
    BY <2>1, <2>2, <2>3, <2>4, <2>5, <2>6, UsageChargeStep
  <2>7. CASE charged' = charged
    <3>1. /\ asking' \in [Reqs -> Askings] /\ asking'[r] = a
          /\ \A q \in Reqs : AskingOK(asking'[q])
          /\ \A q \in Reqs : q # r => asking'[q] = asking[q]
      BY <2>2, <2>5, AskingStep
    <3>2. CountsOK(charged', asking')
      BY <2>4, <2>7, <3>1, CountsSame
    <3>3. MetricsOK'
      BY <2>1, <2>5, <2>7, <3>1, MetricsSame
    <3> QED
      BY <2>1, <2>7, <3>1, <3>2, <3>3 DEF UsageInv
  <2> QED
    BY <2>1, <2>6, <2>7
<1> QED
  BY <1>1, <1>2

\* A key expires: the next INCR starts a new count, which nobody has made yet.
LEMMA UsageExpireStep ==
  ASSUME UsageInv, ExpireKey
  PROVE  UsageInv'
<1>1. PICK k \in DOMAIN charged :
        /\ inRedisRL /\ charged' = [charged EXCEPT ![k] = Append(charged[k], 0)]
        /\ UNCHANGED <<clock, inRedisRL, series, asking>>
  BY DEF ExpireKey
<1> DEFINE new == Append(charged[k], 0)
           L == Len(charged[k])
<1>2. charged = [j \in DOMAIN charged |-> charged[j]]
  BY DEF UsageInv
<1>3. /\ DOMAIN charged' = DOMAIN charged /\ charged'[k] = new
      /\ \A j \in DOMAIN charged : j # k => charged'[j] = charged[j]
      /\ charged' = [j \in DOMAIN charged' |-> charged'[j]]
  BY <1>1, <1>2
<1>4. /\ charged[k] \in Seq(Nat) /\ L \in Nat /\ L > 0
      /\ new \in Seq(Nat) /\ Len(new) = L + 1 /\ new[L + 1] = 0
      /\ \A l \in 1 .. L : new[l] = charged[k][l]
  BY SMT DEF UsageInv, CountsOK
<1> HIDE DEF new, L
<1>5. ASSUME NEW j \in DOMAIN charged, NEW l \in 1 .. Len(charged'[j])
      PROVE  /\ Cardinality(Incrementers(asking, j, l)) <= charged'[j][l]
             /\ Cardinality(Hopeful(asking, j, l)) <= Limit[j[2]]
  <2>1. CASE j = k /\ l = L + 1
    <3>1. Incrementers(asking, j, l) = {} /\ Hopeful(asking, j, l) = {}
      <4>1. ASSUME NEW q \in Reqs, <<k, L + 1>> \in asking[q].through PROVE FALSE
        <5>1. L + 1 \in 1 .. L
          BY <4>1 DEF UsageInv, CountsOK, L
        <5> QED
          BY SMT, <1>4, <5>1
      <4> QED
        BY <2>1, <4>1 DEF Incrementers, Hopeful
    <3>2. Cardinality({}) = 0
      BY FS_EmptySet
    <3>3. Limit[j[2]] \in Nat
      BY KeyLimited DEF UsageInv, CountsOK
    <3>4. charged'[j][l] = 0
      BY <1>3, <1>4, <2>1
    <3> QED
      BY SMT, <3>1, <3>2, <3>3, <3>4
  <2>2. CASE ~(j = k /\ l = L + 1)
    <3>1. l \in 1 .. Len(charged[j]) /\ charged'[j][l] = charged[j][l]
      BY SMT, <1>3, <1>4, <2>2 DEF L
    <3> QED
      BY <3>1 DEF UsageInv, CountsOK
  <2> QED
    BY <2>1, <2>2
<1>6. \A j \in DOMAIN charged : charged'[j] \in Seq(Nat) /\ Len(charged'[j]) > 0
                                /\ Len(charged[j]) <= Len(charged'[j])
  <2> SUFFICES ASSUME NEW j \in DOMAIN charged
               PROVE  /\ charged'[j] \in Seq(Nat) /\ Len(charged'[j]) > 0
                      /\ Len(charged[j]) <= Len(charged'[j])
    OBVIOUS
  <2>1. CASE j = k
    BY SMT, <1>3, <1>4, <2>1 DEF L
  <2>2. CASE j # k
    <3>1. charged'[j] = charged[j]
      BY <1>3, <2>2
    <3>2. charged[j] \in Seq(Nat) /\ Len(charged[j]) > 0 /\ Len(charged[j]) \in Nat
      BY SMT DEF UsageInv, CountsOK
    <3> QED
      BY SMT, <3>1, <3>2
  <2> QED
    BY <2>1, <2>2
<1>7. \A r \in Reqs : \A charge \in asking[r].through :
        charge[1] \in DOMAIN charged /\ charge[2] \in 1 .. Len(charged'[charge[1]])
  <2> SUFFICES ASSUME NEW r \in Reqs, NEW charge \in asking[r].through
               PROVE  /\ charge[1] \in DOMAIN charged
                      /\ charge[2] \in 1 .. Len(charged'[charge[1]])
    OBVIOUS
  <2>1. charge[1] \in DOMAIN charged /\ charge[2] \in 1 .. Len(charged[charge[1]])
    BY DEF UsageInv, CountsOK
  <2>2. Len(charged[charge[1]]) \in Nat /\ Len(charged'[charge[1]]) \in Nat
    <3>1. charged[charge[1]] \in Seq(Nat) /\ charged'[charge[1]] \in Seq(Nat)
      BY <1>6, <2>1 DEF UsageInv, CountsOK
    <3> QED
      BY SMT, <3>1
  <2> QED
    BY SMT, <1>6, <2>1, <2>2
<1>8. CountsOK(charged', asking)
  BY <1>3, <1>5, <1>6, <1>7 DEF CountsOK, UsageInv
<1>9. MetricsOK'
  BY <1>1, <1>3, MetricsSame
<1> QED
  BY <1>1, <1>3, <1>8, <1>9 DEF UsageInv, AskingOK, Due, WindowAt

\* The windows and the metrics of a usage service, in every reachable state.
LEMMA UsageInductive == UsageSpec => []UsageInv
<1>1. UsageInit => UsageInv
  <2> SUFFICES ASSUME UsageInit PROVE UsageInv
    OBVIOUS
  <2>1. NotAsked \in Askings /\ AskingOK(NotAsked) /\ NotAsked.through = {}
    BY DEF NotAsked, Askings, AskingOK, Storages
  <2>2. asking = [r \in Reqs |-> NotAsked] /\ clock = 0 /\ series = {}
        /\ charged = [k \in {} |-> <<>>] /\ DOMAIN charged = {}
    BY DEF UsageInit
  <2>3. CountsOK(charged, asking)
    BY <2>1, <2>2 DEF CountsOK
  <2>4. MetricsOK
    <3>1. IsFiniteSet({}) /\ Cardinality({}) = 0
      BY FS_EmptySet
    <3>2. ~NotAsked.recorded
      BY DEF NotAsked
    <3> QED
      BY SMT, <2>2, <3>1, <3>2, UsageAssumption DEF MetricsOK, UncountedOnlyWhenFull
  <2> QED
    BY <2>1, <2>2, <2>3, <2>4 DEF UsageInv
<1>2. UsageInv /\ [UsageNext]_usageVars => UsageInv'
  <2> SUFFICES ASSUME UsageInv, [UsageNext]_usageVars PROVE UsageInv'
    OBVIOUS
  <2>1. CASE UNCHANGED <<asking, charged, inRedisRL, series>> /\ clock' \in Nat
    <3>1. CountsOK(charged', asking')
      BY <2>1, CountsSame
    <3>2. MetricsOK'
      BY <2>1, MetricsSame
    <3> QED
      BY <2>1, <3>1, <3>2 DEF UsageInv
  <2>2. CASE RecordStatusError
    <3> DEFINE m == bumpCounter(series, <<"status_errors", "none", "none">>)
    <3>1. series' = m /\ UNCHANGED <<clock, inRedisRL, charged, asking>>
      BY <2>2 DEF RecordStatusError
    <3>2. IsFiniteSet(series) /\ Cardinality(series) <= MaxSeries
          /\ IsFiniteSet(DOMAIN charged)
      BY DEF UsageInv, MetricsOK, UncountedOnlyWhenFull
    <3>3. IsFiniteSet(m) /\ Cardinality(m) <= MaxSeries /\ series \subseteq m
      BY <3>2, Bumped
    <3> HIDE DEF m
    <3>4. MetricsOK'
      BY <3>1, <3>2, <3>3, MetricsGrow
    <3>5. CountsOK(charged', asking')
      BY <3>1, CountsSame
    <3> QED
      BY <3>1, <3>4, <3>5 DEF UsageInv
  <2>3. CASE Tick \/ UNCHANGED usageVars
    <3>1. UNCHANGED <<asking, charged, inRedisRL, series>> /\ clock' \in Nat
      BY SMT, <2>3 DEF Tick, usageVars, UsageInv
    <3> QED
      BY <2>1, <3>1
  <2> QED
    BY <2>2, <2>3, UsageExpireStep, UsageAskSteps, UsageIncrementSteps,
       UsageRecordStep DEF UsageNext
<1> QED
  BY <1>1, <1>2, PTL DEF UsageSpec

\* For any finite number of requests, and any windows and limits: however the
\* charges of concurrent requests interleave and wherever the clock turns
\* between them, no window lets more requests through than its limit, from one
\* expiry of its key to the next (service.go:297).
THEOREM AdmittedWithinLimitHolds == UsageSpec => []AdmittedWithinLimit
<1>1. UsageInv => AdmittedWithinLimit
  <2> SUFFICES ASSUME UsageInv, NEW r \in Reqs, NEW charge \in asking[r].through
               PROVE  /\ Cardinality({q \in Admitted : charge \in asking[q].through})
                           <= Limit[charge[1][2]]
                      /\ ~inRedisRL => charge[2] = 1
    BY DEF AdmittedWithinLimit
  <2> DEFINE k == charge[1]
             l == charge[2]
             Let == {q \in Admitted : charge \in asking[q].through}
  <2>1. charge = <<k, l>>
    BY SMT DEF UsageInv, Askings
  <2>2. k \in DOMAIN charged /\ l \in 1 .. Len(charged[k])
    BY DEF UsageInv, CountsOK
  <2>3. Let \subseteq Hopeful(asking, k, l) /\ Hopeful(asking, k, l) \subseteq Reqs
    BY <2>1 DEF Hopeful, Incrementers, Admitted
  <2>4. /\ Cardinality(Let) \in Nat /\ Cardinality(Hopeful(asking, k, l)) \in Nat
        /\ Cardinality(Let) <= Cardinality(Hopeful(asking, k, l))
    BY <2>3, SmallerGroup
  <2>5. Cardinality(Hopeful(asking, k, l)) <= Limit[k[2]] /\ Limit[k[2]] \in Nat
    BY <2>2, KeyLimited DEF UsageInv, CountsOK
  <2>6. ~inRedisRL => l = 1
    <3> SUFFICES ASSUME ~inRedisRL PROVE l = 1
      OBVIOUS
    <3>1. Len(charged[k]) = 1
      BY <2>2 DEF UsageInv
    <3> QED
      BY SMT, <2>2, <3>1
  <2> HIDE DEF Let
  <2>7. Cardinality(Let) <= Limit[k[2]]
    BY SMT, <2>4, <2>5
  <2> QED
    BY <2>6, <2>7 DEF Let
<1> QED
  BY <1>1, UsageInductive, PTL

\* For any cap: the metrics never exceed it although the windows grow in the
\* same map, and a recorded request lacks a series of its own only when the
\* map is full (service.go:326).
THEOREM UncountedOnlyWhenFullHolds == UsageSpec => []UncountedOnlyWhenFull
<1>1. UsageInv => UncountedOnlyWhenFull
  BY DEF UsageInv, MetricsOK
<1> QED
  BY <1>1, UsageInductive, PTL

=============================================================================
