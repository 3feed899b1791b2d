# A TLA+ model of synamcps-server

synamcps-server is an MCP gateway in front of a knowledge store and a family of
"data objects" (queues, buses, schedules, counters, signed buses, ...). Most of
its state lives in PostgreSQL, Redis and a blob store; several servers may run
over the same tables. This directory models the parts of the server whose
correctness depends on the order in which concurrent calls, background workers
and crashes meet those tables.

Sources are cited relative to the repository root (`internal/...`).

## Inventory

| part | state | operations | what makes it hard |
|---|---|---|---|
| knowledge ingest (`internal/knowledge/ingest`) | documents, job rows, vectors; a worker goroutine per server | Save, Claim, ProcessIngest, ProcessDeleteVectors, MarkCompleted, MarkFailed, RecoverStale | workers of several servers, crashes, retries, rows read early and saved late |
| knowledge service (`internal/knowledge/service.go`) | none of its own | Save, IngestBinary, Delete, Search, Get, List | Delete is four calls with no transaction around them |
| securebus (`internal/securebus`) | policies, messages, attestations, events, subscriptions, deliveries | PutPolicy, Publish, Attest, Consume, Subscribe | READ COMMITTED transactions, serial ids visible out of order, locks taken after a read |
| agent keys (`internal/agentkeys`) | keys, challenges | CreateChallenge, ConsumeChallenge, Register, Revoke | a key revoked while a call that checked it runs |
| policy scope (`internal/policy`) | a transaction per call | open, Commit, Rollback | needs other pool connections while it holds one |
| queue, bus | messages; events, offsets | Enqueue, Dequeue, Peek; Produce, Consume, Subscribe | overlapping consumers, at-most-once emit |
| schedule | entries, deliveries | Set, Wait, Claim, tick | two servers tick over the same entries |
| counter, variable | one value; a Redis time series | Increase, Decrease, Set, Get | read, add, write in separate statements |
| log store | hot rows, archives | Add, Tail, RotateOlderThan | archive, then delete, repeated |
| git store | one state blob per object | Exec | load, change, save from several servers |
| access (`internal/access`) | storages, bindings, tokens, objects | grants, tokens, effective access | rules that combine several tables |
| OAuth server (`internal/auth/oauthas`) | login sessions, codes, refresh tokens | authorize, token | consumed once, errors after the consumption |
| sessions (`internal/session`) | Redis copy and memory copy, replay lists | Create, Get, Delete, AppendEvent, ReplayFrom | two copies, a window of 100 events |
| usage (`internal/usage`) | windows per token | Allow, Record | several windows, incremented one by one |
| mcp proxy (`internal/mcpproxy`) | cache of upstream clients | ConnectTest, getClient | reconnects outside the lock |

`PROJECT.json` lists every component, the modelled and the others with the
reason, and the hazards of the code at the lines where they bite.

## Modules

| module | what it is | proofs |
|---|---|---|
| `Ingest` | Save, Delete and the ingest workers over the PostgreSQL tables | `IngestProofs` |
| `JobQueue` | what the job table promises: the contract of the `JobStore` interface | |
| `SecureBus` | one securebus topic, with the in-memory or the PostgreSQL backend | `SecureBusProofs`, `TopicProofs` |
| `Scope` | data-plane calls and the connections they hold | `ObjectProofs` |
| `Queue` | a queue object on its three backends | `DeliveryProofs` |
| `MessageQueue` | what a queue object promises | |
| `Bus` | a bus object: events and consumer offsets | `ObjectProofs` |
| `Schedule` | one schedule entry, its firings and who claims them | `DeliveryProofs` |
| `Counter` | a counter's row and its time series | `ObjectProofs` |
| `LogStore` | log rows and their rotation into day blobs | `ObjectProofs` |
| `GitStore` | a repository in several processes and in `state.json` | `ObjectProofs` |
| `OAuth` | the authorization server | `OAuthProofs` |
| `Access` | storages, objects, access lists, tokens and what is decided from them | `AccessProofs` |
| `Accounts` | users, passwords and groups | `AccessProofs` |
| `McpProxy` | proxied MCP servers, their capabilities and kept clients | `ControlProofs` |
| `AgentKeys` | challenges and key registration | `AccessProofs` |
| `Session` | MCP and web sessions in memory and in Redis | `AccessProofs` |
| `Usage` | rate limits and usage counters | `ControlProofs` |
| `MCIngest`, `MCSecureBus` | instances of `Ingest` and of `SecureBus` | |
| `MCObjects`, `MCControl` | instances of the data plane (`Scope` ... `GitStore`) and of the control plane (`OAuth` ... `Usage`) | |

Definitions whose name has a suffix (`Enqueue_NoConflict`) are the definition
of that name with a plausible mistake. No specification uses them; each
shows that a property would notice the mistake.

The components of `MCObjects` and `MCControl` share no variables: they are
separate services over separate tables, and what passes between them is the
outcome of one call. A behaviour of these modules is about one component, which
its first state chooses (`part`), so the state spaces add up instead of
multiplying; `PROPERTY` and `INVARIANT` are checked on all of them in one run.

### Ingest

`catalog`, `vectors` and `jobs` are the tables `knowledge_documents`, the
vector table and `knowledge_ingest_jobs`; `jobs` is in the order of
`created_at`, which is the order Claim uses. One step is one call to a store,
since none of these calls share a transaction.

- `SaveCatalog`, `SaveEnqueue`: `Pipeline.Save`. A document id is a fresh uuid,
  so each document is saved once. `SaveBinary` uploads the file and then calls
  `Save`.
- `DeleteGet`, `DeleteFlag`, `DeleteRemove`, `DeleteEnqueue`: `Service.Delete`.
- `WorkerStart`, `Claim`: `Worker.loop`, which calls RecoverStale once, when the
  server starts. `IngestGet`, `IngestSummary`, `IngestChunk`, `IngestSave`:
  `ProcessIngest`; what it read in `IngestGet` is in `wdoc` and is what
  `IngestSave` writes back. `MarkCompleted`, `MarkFailedRetry`,
  `MarkFailedTerminal`, `TerminalGet`, `TerminalSave`: `handleJob` with the
  updates of the job store and `onJobTerminalFailure`.
- `Faults` selects what may go wrong: a failing call, a crash, a request cut
  short, a failing update of the job row, a failing call in
  `onJobTerminalFailure`, or a job slower than `StaleAfter`.

`StaleAfter` is a duration, so a row is stale or not by the clock. Without
`"slow"` the model lets RecoverStale take any set of running rows that no live
worker holds; with it, any set of running rows.

The summary chunk's id is a uuid per attempt and is named by the attempt; the
text of a body is `NChunks` chunks. The LLM, the embedder and the blob store
are calls that succeed or fail.

### SecureBus

One topic and one consumer name. `policies`, `messages`, `attests`, `events`
hold the rows in the order of their serial ids, inserted but possibly not
committed; `committed` is the set of calls whose transaction has committed, and
`SeenMessages`, `SeenEvents`, `Live` are what a READ COMMITTED statement sees.
With `Backend = "postgres"` a step is a statement. With `"memory"` the part of
a call under `Service.mu` is a step, and Consume's loop keeps `mu`.

- `PutCheckKeys` ... `PutCommit`: `PutPolicy`. The primary key
  `(object_id, version)` is in `PutInsert`. The copy of the version number in the
  config of the object is left out: nothing reads it, and a PATCH of the object
  may overwrite it.
- `PublishKey` ... `PublishCommit`: `Publish`. `PublishChain` chooses the last
  message from the snapshot and `PublishLock` waits for its row, as
  `ORDER BY ... LIMIT 1 FOR UPDATE` does. `PublishInsert` waits for an open
  transaction with the same nonce.
- `AttestKey` ... `AttestCommit`: `Attest`; the UPDATE that supersedes earlier
  attestations chooses its rows (`AttestUpdate`) and then waits for them
  (`AttestSupersede`).
- `ConsumePolicy` ... `ConsumeEnd`: `Consume`, called again and again as
  `Subscribe` does. Each call asks (`Asks`) by the name of a condition of the
  policy, with a filter of its own, or for everything; with a name the policy
  does not have it fails. `ConsumeLock` is the upsert of the subscription, which
  locks its row until the end of the transaction.
- `Age`, `Revoke`: the grace period of a version passes; a key is revoked.

Abstractions: the hash of an envelope is named by the call that brings it;
signatures, hashes and ownership of the key are `flaw`, the check that fails if
any; `AgentNameForKey` ranges over a Go map, so any name of a key may be
returned; share locks of foreign keys only delay and are left out; `pbase` and
`abase` record what held when a call began, for the properties about it.

### The data plane

One step is one statement, or one critical section of the in-memory backend. A
backend is chosen in the first state (`backend`, `busInDB`, `pooled`, `inTable`,
`hasTS`, `hasBlob`), so a run covers all of them.

- `Scope`: `free` counts the connections nobody holds, `at` says where a call
  is. `Receive`, `LookOK`, `Begin`, `Role`, `Config` are `Opener.Open` as HTTP
  and MCP handlers call it; `LookKeys` is securebus looking agent keys up on the
  pool, inside its transaction (`Opened` says for which methods);
  `DispatchMismatch`, `DispatchSubscribe`, `Dispatch`, `DispatchTool`,
  `WaitAuthorised`, `PollOpen`, `PollServe` are what happens to the scope
  afterwards. `ServiceEnds` says how each service leaves the transaction it was
  handed: committed, rolled back, or `"kept"` when it returns before its first
  statement. `TickQuery` ... `TickEnd` are the schedule and log workers, whose
  open result set holds a connection.
- `Queue`: `EnqueueInsert`/`EnqueueCommit`, `DequeueTake`/`DequeueCommit` on
  the table with SKIP LOCKED; `Enqueue`, `Dequeue` in memory and on RabbitMQ,
  where a peek is a get and a nack (`PeekGet`, `PeekNack`). RabbitMQ is
  external and modelled from how the client uses it.
- `Bus`: `late` records events that became visible after a consume had selected
  a higher one; on PostgreSQL a consumer may never get these. Two overlapping
  consumes of one consumer can set its offset back, so `late` goes by what was
  selected or handed over and not by the offset.
- `Schedule`: a tick is `TickSelect`, `TickInsert`, `TickUpdate`, `PushMemory`;
  the errors of the statements are dropped, as in the code. A waiter asks the
  memory of the process (`ClaimMemory`) and, having found it empty
  (`MemoryEmpty`), the table (`Claim` and `ClaimCommit`, or `ClaimNothing`).
  Without a pool the entry itself is in each process's memory, and `StopServer`
  loses it.
- `Counter`: `SetStart` and `adjust` read; `writeMeta`, `AddSample`,
  `CommitChange` follow, each with its failure.
- `LogStore`: `AddInsert`/`AddEnds`, `RotateSelect`, `RotatePut` per day,
  `RotateDelete`.
- `GitStore`: `GitExec` loads and runs a command under the process's mutex,
  `GitSave` writes `state.json`; `Merge` is `json.Unmarshal` into maps that
  already have keys. A commit is kept as its parent's number, which is what the
  ids `c1`, `c2`, ... amount to.

### The control plane

- `OAuth`: one step is one call of the store. `LoginGet`/`LoginTake`,
  `OIDCStartGet`/`OIDCStartSave`, `OIDCCallback`, `completeAuthorize` lead to a
  code; `tokenAuthorizationCode`, `tokenRefresh`, `RevokeOld`, `MintToken`,
  `SaveRefresh` exchange it. A verifier and its challenge are `v` and
  `<<"S256", v>>`. The provider is external.
- `Access`: the nine permissions come in three classes, a kind's methods in two,
  and a token's scope may carry an allowlist of methods. `AllowedPermissions` of a
  token is left out: no request sets it.
  Requests of the admin API first check (`CreateRequest`, `ACLRequest`,
  `TokenRequest`, ...) and then write, with other requests in between.
  `StoragePermissions`, `CanAccessObject` and the listings are the decisions.
- `Accounts`: `GetUser` and `UpdateUser` are the read and the write of one
  request; `ensured` is the map behind `shouldEnsurePrincipal`.
- DeleteUser, DeleteGroup, DeleteStorage, DeleteToken and DeleteServer of the
  proxy take effect in memory only. With PostgreSQL they send several statements
  with a parameter in one `Exec`, which is refused (see *Not modelled*).
- `McpProxy`: statements and upstream round trips are steps;
  SetEnabledCapabilities is `DisableAll` and one `EnableNamed` per kind;
  `approved` remembers what a manager asked for.
- `AgentKeys`: Redis GETDEL forgets a nonce whoever asks, the map only when it
  is used or too old (`AfterConsume`). Redis keeps a binder with the time after a
  `|` and reads it up to the first one, so a binder with a `|` does not match
  itself, and one that ends there does (`Cut`).
- `Session`: each Redis call may be lost without notice; `DeleteMCPSession`
  changes memory, `DeleteScan` Redis.
- `Usage`: `incrementWindow` charges one window at a time while `Tick` moves the
  clock. With Redis the key is named before the INCR (`NameKey`) and may have
  expired when it arrives (`ExpireKey`); `charged` keeps a count per life of the
  key. `Record` bumps the metrics of a request in the map that, without Redis,
  also has the windows.

## Runs

All runs set `CHECK_DEADLOCK FALSE`: requests are finitely many in an instance,
and a server with nothing to do rests.

| run | instance | shows |
|---|---|---|
| `ingest_faults` | 1 document, 2 servers, 2 deletes, 2 attempts, 2 chunks, every fault but slow (267,510 states) | `TypeOK`, `ExclusiveClaim`, `OneActiveJob`, `ReadyIsIndexed`, `ImplementsJobQueue` |
| `ingest_single` | 2 documents, 1 server that does not crash, failing calls, requests cut short | `CompletedDeletePurges`, `ReadyNeverFails`, `IngestSettles` |
| `securebus_memory` | 2 publishers, 2 attesters, 1 consumer, chain policy, asked by name or by filter | `TypeOK`, `NothingSkipped` |
| `securebus_rotate` | 3 putters, 3 documents, 1 publisher, everything allowed | `PublishedUnderPolicy`, `VersionsKept` |
| `securebus_postgres` | 2 publishers, 2 nonces, 2 attesters, 2 consumers, chain policy, pages of one event, rollbacks (217,320 states) | `DeliveredOnce`, `NonceUnique`, `ForksOverlap`, `LiveOverlap`, `ApprovalsReal` |
| `securebus_live` | 1 putter, 2 publishers, 1 attester, 1 consumer, chain policy, rollbacks | `CallsEnd` |
| `objects` | the data plane, every backend (145,979 states) | the table below |
| `control` | the control plane, with and without PostgreSQL and Redis (661,368 states) | the table below |
| `ingest_resurrect` | 1 server, no fault | `DeletedStaysDeleted` is violated |
| `ingest_crash_live` | a crash in the last attempt | `IngestSettles` is violated |
| `conn_leak` | requests with refused arguments, an unconfigured broker, an object of another kind | `PoolConserved` is violated |
| `schedule_twice` | 1 entry, 2 servers, 2 waiters | `FiringGoesOnce` is violated |

| property of `objects` | what it says |
|---|---|
| `PoolConserved` | a connection is free or in the hands of someone who gives it back |
| `ScopesEnd` | a call that has begun a scope ends it, although it waits for more connections and the pool is smaller than its users; only a lasting `Gridlock` keeps it |
| `ImplementsQueue` | each backend of a queue is a `MessageQueue` |
| `SkippedOnlyLate` | a consumer's offset passes only events it was handed and events that became visible late |
| `CopyClaimedOnce` | neither copy of a firing answers two waiters |
| `SamplesInCommitOrder` | without failures Get, which asks the series, answers the committed value |
| `DeletedWasStored` | a log row leaves the table only after it was archived |
| `LogTerminates` | refs resolve and parents are older, in every copy of a repository |

| property of `control` | what it says |
|---|---|
| `GrantOnce` | a code and a refresh token each yield one access token at most |
| `OneLivePerCode` | of the tokens that descend from a code one is live, failed revocations aside |
| `CodesAsAsked` | a code is for the client, redirect and challenge that authorize accepted |
| `AllowedIsListed` | what a caller may use is listed, but for a storage without its object row |
| `RevokedStays` | a revoked or deleted token never resolves again |
| `RotatedWithin` | a rotated token reads only, and only what its predecessor had at some time |
| `OnePersonal` | with PostgreSQL nobody gets two personal storages |
| `LastPasswordOnly` | with PostgreSQL only the password last set signs a user in |
| `EnabledWasApproved` | only capabilities somebody asked for, once, are shown |
| `ChallengeOnce` | a challenge serves one registration, of its own caller or of one whose binder is cut from that |
| `DroppedIsUnknown` | a session that its maker has dropped, with every Redis call answered, is accepted nowhere |
| `AdmittedWithinLimit` | no window lets more requests through than its limit; in Redis, from one expiry of its key to the next |
| `UncountedOnlyWhenFull` | the metrics keep to their cap, and a request goes uncounted only when the map is full |

The violated properties state what a document or a comment of the repository
says; the "findings" of `PROJECT.json` quote the lines.

- *Deletion.* `README.md` says a deletion includes the embeddings. A worker in
  the middle of `ProcessIngest` does not notice it, and its final save brings
  the row back (`ingest_resurrect`).
- *Failures.* `docs/architecture-remediation-plan.md` asks that the status
  reflects reality. A crash in the last attempt leaves the document processing
  for good (`ingest_crash_live`).
- *Connections.* Whoever is handed a scope has to end it, and a service that
  refuses its arguments before its first statement does not (`conn_leak`).
- *Firings.* `Wait` "claims the next undelivered firing", and with PostgreSQL a
  firing exists twice (`schedule_twice`).

Some properties that pass do so because of their instance or backend, and this
is part of what they say:

- `CompletedDeletePurges` needs a single server. With two, one goes on storing
  chunks after the other has completed the cleanup.
- `ReadyNeverFails` needs a server that does not crash. A crash between the
  save of a ready row and `MarkCompleted` makes the job run again, and when that
  attempt is the last and fails, `onJobTerminalFailure` overwrites ready.
- `ExclusiveClaim` and `ImplementsJobQueue` need workers that do not outlive
  `StaleAfter`. `OneActiveJob` and `ReadyIsIndexed` do not: the run has no slow
  worker because of the other two, and the theorems cover them.
- `ForksOverlap` and `LiveOverlap` say how far a chain and the reviews of a
  message can be relied on. On PostgreSQL two publishers may name the same
  predecessor: `FOR UPDATE` returns the row that was newest in the statement's
  snapshot. Two transactions do not see each other's attestation, and both stay
  live. Each happens between overlapping calls only; what was visible when a call
  began is never passed over and always superseded.
- `ApprovalsReal` is about conditions that ask for approval (`minOk` positive and
  `anyDeny` not set to true). The key of an approval was allowed to attest by some
  version of the policy, not always by the current one: the code does not look at
  rights again when it delivers.
- `NothingSkipped` needs the in-memory backend. On PostgreSQL Consume sets the
  cursor to the end of the page it fetched although it stops at `max` messages.
- `NonceUnique` needs PostgreSQL: the in-memory backend does not look for an
  earlier message with the nonce, which `docs/securebus-envelope.md` describes
  as unique.
- `PoolConserved` in `objects` is about requests whose service gets as far as
  its first statement (`GoodRequests`).
- `ScopesEnd` allows for a `Gridlock`: every connection is with a call or worker
  that waits for a second one. The instance has two connections for two calls
  and a worker, so that gridlocks happen; the wait then ends only when a request
  is cancelled. A pool with more connections than users never gets there.
- `AllowedIsListed` is about the method that a listing probes for. The storages
  it excepts are those between the two transactions of CreateStorage, after the
  second one failed, or half way through DeleteObject. The converse holds by the
  code of the listing, which ends with the probe.
- `ImplementsQueue`: the contract lets a waiting message be lost at any time, as
  the in-memory backend and a dequeue whose answer is lost do. It excludes a
  message that goes to two takers or comes back, and says nothing of losses.
- `RotatedWithin` compares with every scope the old token had. Scopes that are
  replaced between the read and the creation are given to the new token as read.
- `EnabledWasApproved` remembers every approval. An update that withdraws one
  while a discovery is under way may be undone by the discovery.
- `DroppedIsUnknown` is about sessions dropped by the process that made them. A
  DELETE that another process serves removes the copy in Redis and not the one in
  the maker's memory, and the maker goes on accepting the session.
- `SamplesInCommitOrder`, `OnePersonal` and `LastPasswordOnly` need PostgreSQL,
  whose row lock, unique key and column-wise updates they rest on.

Changing `Workers`, `Faults`, `Backend`, `MaxConns` or `Requests` in the
configuration shows the counterexamples.

### Bounds

Two servers suffice for a race between a worker and its successor, two
attempts for a retry that follows a failure or a crash, and two chunks for an
attempt that ends half way. Two deletes are needed for a cleanup that is queued
while another is active or has ended; a document is saved once. Three putters
make versions 1, 2 and 3, so that a message can name the current version, the
one before, and one that is too old. Pages of one event in `securebus_postgres`
make a page end before the events do, and two publishers with two nonces
meet in the same nonce or not. There the constraint `TwoReviewsOrConsume` keeps
the second attester away from the consumers: two reviews overlap, or one review
overlaps two consumers. `MaxMsgs`, `PageFactor` and the sets of
calls are the only bounds of `SecureBus`; `MaxAttempts`, `NChunks` and the
sets are those of `Ingest`. The theorems below have none of them.

In the data plane two requests of each kind are in progress at once and two
servers run, which is what a race between two calls, or between a call and a
worker, needs. Three messages and log entries leave one that is neither the
first nor the last, with a batch of two; four events let a second consume set an
offset back below events already handed over; two days make an entry of the day
before commit during a rotation; two commits and two refs, with four commands,
let two servers assign the same id and merge. Two connections are one less than
the calls and the worker, so that they compete for the pool. In the control
plane two requests (three for the rate limits) race; two codes and two tokens
make a refresh follow an exchange; two ids and two access tokens make a rotation
meet a deletion, within three requests to the access store; four requests to the
proxy are a creation, a discovery, an enabling and a deletion. Two windows of
one and two ticks, with limits of one and two, let a request meet a full window
after it was charged to another, and one of the three names a storage; six
series are fewer than the requests have. `MaxRequests`, `MaxWork`, `MaxExecs`,
`MaxMessages`, `MaxEvents`, `MaxFirings`, `MaxValue`, `MaxEntries`, `Days`,
`MaxCommits`, `MaxCodes`, `MaxTokens` and `MaxClock` are bounds of the model;
`MaxConns`, `Batch`, `Limit` and `MaxSeries` are settings of the code.

Symmetry is used only in runs without liveness properties, over sets whose
elements no definition distinguishes.

### Fairness

- `Ingest!FairSpec`: weak fairness of each worker's own steps. The goroutine is
  always ready to run, its poll interval is finite, and a supervisor restarts a
  stopped server. Faults are never fair, and neither are requests.
- `SecureBus!FairSpec`: strong fairness of each call. A call waits only for
  `Service.mu` or for row locks; both are granted in turn, so a call that can
  get the lock again and again does. Aborts, ageing and revocation are not
  fair.
- `Scope!ScopeFairness`: strong fairness of the steps that need a connection,
  since the pool serves those that wait in their order and one that keeps
  becoming free reaches each of them; weak fairness of the others, since a
  statement ends. Failures, cancellations and new requests are not fair.

## Proofs

Every invariant, action property and refinement that a passing run checks is
also a theorem. The theorems hold for every value of the constants that
satisfies the named assumptions of the modules, and where one needs more it says
so in its `ASSUME`. Six more say what lies behind a liveness property or a
finding: `NotStrandedHolds`, `DeletedStaysDeletedQuiet`, `LockHeldInsideHolds`,
`OnlyGridlockSticks`, `GridlockLasts` and `FiringAnswersHolds`.

The leaves are first-order and go to Zenon (`USE Zenon` at the head of each proof
module). Those that need arithmetic, sequences or the components of tuples name
the solver (`BY SMT, ...`).

| module | theorems about |
|---|---|
| `IngestProofs` | the ingest tables, and their refinement of `JobQueue` |
| `SecureBusProofs` | policies, publications, nonces, deliveries, types |
| `TopicProofs` | forks, reviews and approvals of a topic; the cursor of the in-memory backend |
| `ObjectProofs` | `Bus`, `Counter`, `LogStore`, `Scope`, `GitStore` |
| `DeliveryProofs` | `Queue` and its refinement of `MessageQueue`, `Schedule` |
| `OAuthProofs` | `OAuth` |
| `AccessProofs` | `Access`, `Session`, `Accounts`, `AgentKeys` |
| `ControlProofs` | `McpProxy`, `Usage` |

The assumptions on constants: bounds are numbers (`MaxAttempts`, `NChunks`,
`MaxMsgs`, `PageFactor`, `Batch` and `MaxConns` positive); `Faults` and `Allowed`
are among their kinds; names for "nothing" are no names (`CallsAssumption`,
`KeysAssumption`, `SessionAssumption`, `OAuthAssumption`, `GitAssumption`);
calls and workers that share the pool are finitely many, and so are the requests
that are counted (`ScopeAssumption`, `UsageAssumption`); spans of windows are
positive; operators of the proxy are managers (`ProxyAssumption`); the personal
storages of the start belong to people, one to each (`AccessAssumption`);
conditions count approvals in whole numbers (`ConditionsAssumption`).

**Ingest.** `TypeCorrect`, `OneActiveJobHolds` and `ReadyIsIndexedHolds` come
from one inductive invariant, `IndInv`:

- `WorkerOK`: a worker's place agrees with the job it holds;
- `SaveOK`: a document has no ingest row until its Save call has queued it,
  which is why a second ingest row never appears;
- `ChunksOK`: an attempt has stored what it has gone past, until a deletion is
  queued. This is what makes `ReadyIsIndexed` inductive: `IngestSave` makes the
  row ready only after the last chunk, and rows written back by others were
  ready before.

None of it depends on `StaleAfter`. The next four add `HeldOK`: the row a worker
holds is running (or failed, after the last attempt), carries the worker's
attempt, and has one holder. It needs `OneHolder`: no slow worker, or one server
only.

- `ExclusiveClaimHolds` and `Refinement` assume `"slow" \notin Faults`. Without
  it a late report changes a row that has ended, and the table is not a
  `JobQueue`.
- `CompletedDeletePurgesHolds` assumes a single server and allows every fault.
  `FlagInv` says that a document with a queued cleanup is no longer processing,
  `FailedInv` that a failed document's ingest job has been given up; so an attempt
  that starts to upsert (`UpsertsEarly`) has no cleanup beside it, and by
  `PurgeInv` none completes before it is over.
- `ReadyNeverFailsHolds` is for any number of servers and assumes none of
  `"crash"`, `"mark"`, `"slow"`. `ReadyInv`: a ready document's one ingest job is
  completed, or its holder is about to report it; the job of a terminal failure
  is neither.

Two theorems that need no `HeldOK` are about what goes wrong:

- `NotStrandedHolds` is the part of `IngestSettles` that needs no fairness: a
  document that is processing and queued can be claimed or a worker has it. It
  allows slow servers and assumes none of `"crash"`, `"mark"`, `"terminal"`.
  `StrandInv`: the worker with the latest claim of a row keeps it until it has
  reported (`HandOK`), late workers have earlier attempts (`AttemptsOK`), and
  who reports success has seen or made the document something else than
  processing (`SucceededOK`). With a crash it fails: `ingest_crash_live`.
- `DeletedStaysDeletedQuiet` says what `ingest_resurrect` needs. If
  `catalog.Delete` is called only while no worker and no other Delete call has
  read the row and is about to write it (`QuietRemoval`), a deleted document
  stays deleted, under every set of faults: by `RemovedInv` nobody can read a row
  that is gone.

**SecureBus.** Invariants about one kind of call each, with lemmas that say
which variables the other calls leave alone:

- `PolicyInv`: a version about to be committed is the next one, and one call
  has it. Hence `VersionsKeptHolds`.
- `ConsumeInv`: whoever is between the lock and the commit holds the row, what
  it has collected was not delivered before, and `returned` counts exactly
  `delivered`. Hence `DeliveredOnceHolds`, for both backends.
- `HolderInside` gives `LockHeldInsideHolds`, the safety half of `CallsEnd` for
  consumers: the lock of the subscription (row or mutex) belongs to the call that
  is past taking it and has not ended, and to no other, so no error path leaves
  it behind.
- `PublishInv`: a call past its checks keeps what they established, its row is
  its own, and a committed call has ended well. Policies only grow, so the
  version it checked is still there. Hence `PublishedUnderPolicyHolds`.
- `NonceInv` (PostgreSQL): rows of calls that have committed, or still may, have
  nonces of their own. The rows that a statement sees are not enough: the insert
  also waits for open transactions. Hence `NonceUniqueHolds`.
- `TypeInv`: what calls have read refers to rows that exist. With the three
  before it, it gives `TypeOKHolds`.
- `ForkInv`: a call under a chain policy that is past its check names the newest
  message it saw, which is no older than what was visible when it began, and a
  message names an earlier one. So two messages that name the same predecessor
  cannot have been made one after the other: the later call would have seen the
  earlier message. Hence `ForksOverlapHolds`, for both backends.
- `LiveInv`: a call that has inserted its attestation has superseded those it saw
  when it began, or somebody who committed has (`Covered`); before its UPDATE has
  the locks, they are in its snapshot (`Snapped`). A rolled back call gives its
  rows up, and who waited for them takes them. Hence `LiveOverlapHolds`, for both
  backends.
- `ApprovalInv`: the key of every row, and of every call past its check, may attest
  under some version (`Entitled`), and what a consumer has collected under a
  condition that asks for approval has a committed one (`Vouched`). Policies only
  grow and attestations are never removed, so both last. Hence
  `ApprovalsRealHolds`, for both backends.
- `MemoryInv` (in memory): no call is inside a transaction and every row is
  visible.
- `ReachInv` (in memory): a message that the callers want and did not get has an
  event past the cursor, and a consumer inside its loop has passed
  only events it took or did not want. Hence `NothingSkippedHolds`. It assumes
  `SameDelivery`: the documents may differ in who publishes and in the chain, but
  agree on the agents, and the callers on the condition. A new version with a
  looser condition adds no event for earlier messages, and the cursor is past
  them; so it is with a caller that asks for more than the one before.

**Queue.** `QueueRefinement`: every step of `Queue` is a step of
`MessageQueue` or a stutter, with `Waiting` for what waits and `got` for what
was delivered. The step that needs an invariant is acceptance: a message that
comes to wait must not wait already, nor have been delivered. `QueueInv` says
that the row a sender has inserted is its own and nobody has it
(`SendingFresh`), that two takers have locked different rows (`TakingApart`),
that a message is at one place of the line or held by one peek (`LineApart`),
and that a backend uses only its own part of the state (`OwnPart`). Numbers are
given in order, so a new one is above everything that was ever posted.

**Schedule.** `CopyClaimedOnceHolds`: a firing is in one tick (`TicksApart`),
then in one place of one queue and in the table, and is claimed when it leaves;
`RowsUnclaimed` and `QueuesUnclaimed` say that what is still there was not
claimed, `NoRowsInMemory` that there are no rows without PostgreSQL.
`FiringAnswersHolds` delimits `schedule_twice`: without PostgreSQL a firing
answers one waiter, with it two at most.

**Bus.** `SkippedOnlyLateHolds`: by `BusInv` what was handed over has no gap
below its greatest event but for late ones, and a consume under way starts from
an offset that was handed over and has selected the events after it without a
gap. That a page is the *first* `Batch` events is what closes the gap.

**Counter.** `SamplesInCommitOrderHolds`: with a table one change is past its
upsert, since the row is locked; the series has the committed value, or the value
that the holder of the lock is about to commit.

**LogStore.** `DeletedWasStoredHolds`: every row a rotation has found is in a
blob, or its day is among those still to be put. Rows keep their day, so nothing
that commits meanwhile joins what was found.

**Scope.** `PoolConservedHolds` assumes that every request is `Answerable`
(complete arguments, and an object of the kind asked for or a check that notices).
`ScopeInv` keeps that along a call up to the service, which then ends the
transaction (`ProperEnds`); the rest is counting. For other requests the property
is violated (`conn_leak`). `OnlyGridlockSticks`: unless all connections are with
calls and workers that wait for a second one, one is free or its holder can go on
and return it; so a gridlock, which `ScopesEnd` excepts, is the only way to block
each other. `GridlockLasts`: it ends by a cancelled request or a failing lookup
and by nothing else.

**GitStore.** `LogTerminatesHolds`: `Sound` is kept by commit, branch,
checkout and, when both sides have it, by `Merge`. The last is the point: the
union of two histories that have given the same ids to different commits still
has older parents.

**OAuth.** `GrantOnceHolds`: `GrantInv` says that the grant of a token, and of
a request between its consumption and the mint, is consumed, and that no two of
them have the same (`GrantsApart`). `StartsExchange` is the only way to
consume one and needs an unconsumed row. `CodesAsAskedHolds`: `SessionInv`
follows what was accepted from the stored session through the copies that
handlers have read to the code. `OneLivePerCodeHolds`: of the handlers and unused
refresh tokens that descend from one code there is one at most (`LineApart`),
and a live token of that code is the one it goes on from (`LineLive`).

**Access.** `AccessInv` types the requests in progress by what they are about to
do, and says that unused ids are no storages, that a new token has no scopes
left from another, and that the scopes a rotation has read are scopes the old
token had. `OnePersonalHolds` rests on the unique slug, `RevokedStaysHolds` on
tokens being inserted once, and no other write making one live,
`RotatedWithinHolds` on `TokenOK`.
`AllowedIsListedHolds` compares the two ways the code decides: row by row for a
listing, by id for a request. It needs from the invariant that an object binding
has its object row in PostgreSQL.

**Sessions, accounts, proxy.** `SessionInv`: only its maker has a session in
memory, and one that was dropped is nowhere and is not being written.
`AccountsInv`: with PostgreSQL the hash of a row is the password last set; a
request that read an older one never writes it. `ProxyInv`: what is enabled, and
what a discovery or a half-done enabling has yet to write, was asked for.

**Usage.** `UsageInv`: a count is at least the number of requests that
incremented it, and of those the ones not refused are within the limit; a
request is at one of its due charges (positions in `Due`, in the order of
`Following`), with a key of that window. Hence `AdmittedWithinLimitHolds`; with
`MetricsOK`, `UncountedOnlyWhenFullHolds`.

**AgentKeys.** `ChallengeOnceHolds`: the nonce of a registration or key is
`Spent`: it was drawn, and the store no longer has it. Since nonces are drawn
once it never comes back. The binder of a key is the one the challenge was drawn
for, or what the cut at `|` leaves of it.

**Only model-checked**: the liveness properties `IngestSettles`, `CallsEnd` and
`ScopesEnd`, since fairness and ENABLED are beyond the prover (what they rest on
is proved: `NotStrandedHolds`, `LockHeldInsideHolds`, `OnlyGridlockSticks`),
and the four violated properties, which are shown by counterexamples. Induction
over data and RECURSIVE operators are beyond it too; no definition here needs
them. Least and greatest elements of sets of numbers come from the
well-foundedness of the natural numbers.

## Not modelled

- *Pure conversions*: canonical JSON, signature algorithms, validation of policy
  documents, cron expressions, JWT verification, the AES envelope of secrets,
  settings. The models have the outcome of the check.
- *Reads without state*: similarity search and ranking, listings of documents,
  Size, Tail, usage series, verify.
- *HTTP, MCP and web framing*: routes, templates, JSON-RPC, tool descriptions.
  What the handlers check, and the order in which they call services, is in
  `Scope`, `Access`, `Accounts` and `McpProxy`.
- *SQL tables*: the statements are the client's. Only the scope around them is
  modelled.
- *Git*: working files, the index, remotes and packs. They are keys of the same
  maps and are merged in the same way; the history is what a command walks.
- *Agents*: a conversation is a list of rows that one caller appends to.
- *Migrations, metrics, commands, examples*. The unique keys the services rely
  on are guards of the inserting actions.
- *Code without callers*: `AppendEvent`, `SaveLastEvent`, `ReplaceTokenObjects`,
  `DropTokenRole`.

Behaviour that is against a document or plainly unintended, and that no run
checks:

- Delete cut short before EnqueueDelete leaves chunks nobody names, and Save cut
  short before Enqueue a document that is processing for good, although
  `docs/architecture-remediation-plan.md:114` asks that a failure at any step
  leaves no invisible orphans and that the status reflects reality. The code has
  no mechanism for either.
- With PostgreSQL DeleteUser (`internal/access/store.go:334`), DeleteGroup
  (`:408`), DeleteStorage (`:719`), DeleteToken (`:1184`) and DeleteServer
  (`internal/mcpproxy/store.go:226`) pass several statements and a parameter to
  one `Exec`. pgx prepares a statement that has parameters, and PostgreSQL
  prepares only single ones, so these calls fail and delete nothing. The models
  have it so: the actions are enabled in memory only.
- With Redis a caller whose binder has a `|` cannot use its own challenge
  (`internal/agentkeys/store.go:90`).
- DELETE of a session at a process that did not make it leaves it accepted there
  where it was made (`internal/session/redis_store.go:94`).

Known behaviour that the models show and no property states, since the code has
no mechanism for it and no document promises it: a second rotation of a day
replaces the blob of the first (`internal/logstore/service.go:128`); the windows
of the rate limit are not counted against `maxCounterSeries`
(`internal/usage/service.go:301`); Subscribe commits the offset before the
events are sent; two `adjust` calls that read the same value count once.
