------------------------------- MODULE Ingest -------------------------------
(***************************************************************************)
(* Background indexing of knowledge documents (internal/knowledge and       *)
(* internal/knowledge/ingest) over the PostgreSQL catalog, job table and    *)
(* vector table.                                                            *)
(*                                                                          *)
(* Three kinds of process interleave at their database calls:               *)
(*   - Pipeline.Save, one call per document (the doc id is a fresh uuid);   *)
(*   - Service.Delete, one call per element of Deleters;                    *)
(*   - Worker.loop, one per server in Workers, which may crash and restart. *)
(* A server's worker is one goroutine, so it handles one job at a time.     *)
(***************************************************************************)
EXTENDS Naturals, Sequences, FiniteSets

CONSTANTS Docs,         \* documents a client saves
          Workers,      \* servers, each with one ingest worker
          Deleters,     \* calls of Service.Delete
          MaxAttempts,  \* Pipeline.maxAttempts
          NChunks,      \* chunks splitText makes of a body (at least one)
          Faults        \* the faults a run allows

FaultKinds == {"error",   \* a call to the LLM, catalog or vector store fails
               "crash",   \* a server stops and restarts
               "abort",   \* a request is cut short between two of its calls
               "mark",    \* the update of the job row fails
               "terminal",\* a catalog call of onJobTerminalFailure fails
               "slow"}    \* a job outlives StaleAfter while its worker lives

ASSUME MaxAttemptsAssumption == MaxAttempts \in Nat \ {0}
ASSUME NChunksAssumption == NChunks \in Nat \ {0}
ASSUME FaultsAssumption == Faults \subseteq FaultKinds

VARIABLES
  catalog,  \* knowledge_documents: the row of each document
  vectors,  \* the chunk ids stored for each document
  jobs,     \* knowledge_ingest_jobs, in the order of created_at
  spc,      \* Pipeline.Save of each document
  dpc,      \* where each Delete call is
  ddoc,     \* the document each Delete call names
  drow,     \* the row it read from the catalog
  wpc,      \* where each worker is
  wjob,     \* the id of its job (0: none)
  watt,     \* Attempts of the Job value Claim returned to it
  wdoc,     \* the row it read from the catalog
  wnext     \* the next chunk to upsert

saveVars == spc
delVars  == <<dpc, ddoc, drow>>
wrkVars  == <<wpc, wjob, watt, wdoc, wnext>>
vars == <<catalog, vectors, jobs, spc, dpc, ddoc, drow,
          wpc, wjob, watt, wdoc, wnext>>

-----------------------------------------------------------------------------
(* Data *)

DocStatus == {"absent", "processing", "ready", "failed", "deleting"}
JobStatus == {"pending", "running", "completed", "failed"}
JobKind   == {"ingest", "delete_vectors"}

\* summary is SummaryChunkID: a uuid drawn once per attempt, so the number of
\* the attempt names it; 0 is the empty string.
DocRow == [status : DocStatus, summary : 0..MaxAttempts]
NoRow  == [status |-> "absent", summary |-> 0]

JobRow == [doc : Docs, kind : JobKind, status : JobStatus,
           attempts : 0..MaxAttempts]

\* Chunk ids: one summary chunk per attempt, "<doc>-<i>" for the others.
SummaryChunk(n) == <<"summary", n>>
BodyChunk(i)    == <<"body", i>>
ChunkId == {SummaryChunk(n) : n \in 1..MaxAttempts}
             \cup {BodyChunk(i) : i \in 1..NChunks}

Active(j) == jobs[j].status \in {"pending", "running"}

\* The rows the partial unique index idx_knowledge_ingest_jobs_active_doc
\* holds for (d, k).
ActiveJobs(d, k) ==
  {j \in DOMAIN jobs : jobs[j].doc = d /\ jobs[j].kind = k /\ Active(j)}

JobsOf(d, k) == {j \in DOMAIN jobs : jobs[j].doc = d /\ jobs[j].kind = k}

\* A document is indexed under summary n when every chunk of it is stored.
Indexed(d, n) ==
  /\ SummaryChunk(n) \in vectors[d]
  /\ \A i \in 1..NChunks : BodyChunk(i) \in vectors[d]

-----------------------------------------------------------------------------
(* The job store *)

Enqueue_NoConflict(d, k) ==
  jobs' = Append(jobs, [doc |-> d, kind |-> k,
                        status |-> "pending", attempts |-> 0])

\* INSERT ... ON CONFLICT DO NOTHING, then the existing row is returned.
Enqueue(d, k) ==
  IF ActiveJobs(d, k) # {}
    THEN UNCHANGED jobs
    ELSE jobs' = Append(jobs, [doc |-> d, kind |-> k,
                               status |-> "pending", attempts |-> 0])

Claimable_NoLimit(j) == jobs[j].status = "pending"

Claimable(j) == jobs[j].status = "pending" /\ jobs[j].attempts < MaxAttempts

\* The oldest claimable row (ORDER BY created_at LIMIT 1).
OldestClaimable(j) ==
  /\ j \in DOMAIN jobs
  /\ Claimable(j)
  /\ \A i \in 1..(j - 1) : ~Claimable(i)

Claimed(r) == [doc |-> r.doc, kind |-> r.kind,
               status |-> "running", attempts |-> r.attempts + 1]

\* Jobs a live worker is handling.
Held == {wjob[w] : w \in Workers} \ {0}

StaleRows_AllRunning == {j \in DOMAIN jobs : jobs[j].status = "running"}

\* A row is stale when updated_at is older than StaleAfter: never the row of
\* a live worker unless jobs may be that slow, and not necessarily every
\* other one, since a restart may come before StaleAfter has passed.
StaleRows ==
  {j \in DOMAIN jobs : /\ jobs[j].status = "running"
                       /\ "slow" \in Faults \/ j \notin Held}

RecoverStale ==
  \E S \in SUBSET StaleRows :
    jobs' = [j \in DOMAIN jobs |->
               IF j \in S THEN [jobs[j] EXCEPT !.status = "pending"]
                          ELSE jobs[j]]

SetStatus(j, s) == jobs' = [jobs EXCEPT ![j].status = s]

-----------------------------------------------------------------------------
(* Pipeline.Save: catalog.Save, then jobs.Enqueue. *)

SaveCatalog(d) ==
  /\ spc[d] = "new"
  /\ catalog' = [catalog EXCEPT ![d] = [status |-> "processing", summary |-> 0]]
  /\ spc' = [spc EXCEPT ![d] = "enqueue"]
  /\ UNCHANGED <<vectors, jobs, delVars, wrkVars>>

SaveEnqueue(d) ==
  /\ spc[d] = "enqueue"
  /\ Enqueue(d, "ingest")
  /\ spc' = [spc EXCEPT ![d] = "done"]
  /\ UNCHANGED <<catalog, vectors, delVars, wrkVars>>

SaveAbort(d) ==
  /\ "abort" \in Faults
  /\ spc[d] = "enqueue"
  /\ spc' = [spc EXCEPT ![d] = "aborted"]
  /\ UNCHANGED <<catalog, vectors, jobs, delVars, wrkVars>>

-----------------------------------------------------------------------------
(* Service.Delete: catalog.Get and the access checks, catalog.Save of the   *)
(* row read with status deleting, catalog.Delete, EnqueueDelete.            *)
(* catalog.Save is an upsert by doc id.                                     *)

DeleteGet(x) ==
  /\ dpc[x] = "idle"
  /\ catalog[ddoc[x]].status # "absent"
  /\ dpc' = [dpc EXCEPT ![x] = "flag"]
  /\ drow' = [drow EXCEPT ![x] = catalog[ddoc[x]]]
  /\ UNCHANGED <<catalog, vectors, jobs, saveVars, ddoc, wrkVars>>

DeleteFlag(x) ==
  /\ dpc[x] = "flag"
  /\ catalog' = [catalog EXCEPT
                   ![ddoc[x]] = [drow[x] EXCEPT !.status = "deleting"]]
  /\ dpc' = [dpc EXCEPT ![x] = "remove"]
  /\ UNCHANGED <<vectors, jobs, saveVars, ddoc, drow, wrkVars>>

DeleteRemove(x) ==
  /\ dpc[x] = "remove"
  /\ catalog' = [catalog EXCEPT ![ddoc[x]] = NoRow]
  /\ dpc' = [dpc EXCEPT ![x] = "enqueue"]
  /\ UNCHANGED <<vectors, jobs, saveVars, ddoc, drow, wrkVars>>

DeleteEnqueue(x) ==
  /\ dpc[x] = "enqueue"
  /\ Enqueue(ddoc[x], "delete_vectors")
  /\ dpc' = [dpc EXCEPT ![x] = "ok"]
  /\ UNCHANGED <<catalog, vectors, saveVars, ddoc, drow, wrkVars>>

DeleteAbort(x) ==
  /\ "abort" \in Faults
  /\ dpc[x] \in {"flag", "remove", "enqueue"}
  /\ dpc' = [dpc EXCEPT ![x] = "aborted"]
  /\ UNCHANGED <<catalog, vectors, jobs, saveVars, ddoc, drow, wrkVars>>

-----------------------------------------------------------------------------
(* Worker.loop and handleJob *)

JobDoc(w) == jobs[wjob[w]].doc

\* What handleJob's caller keeps when it returns: nothing.
Release(w) ==
  /\ wjob' = [wjob EXCEPT ![w] = 0]
  /\ watt' = [watt EXCEPT ![w] = 0]
  /\ wdoc' = [wdoc EXCEPT ![w] = NoRow]
  /\ wnext' = [wnext EXCEPT ![w] = 0]

Goto(w, label) == wpc' = [wpc EXCEPT ![w] = label]

\* loop runs RecoverStale once, when the server starts.
WorkerStart(w) ==
  /\ wpc[w] = "down"
  /\ RecoverStale
  /\ Goto(w, "idle")
  /\ UNCHANGED <<catalog, vectors, saveVars, delVars, wjob, watt, wdoc, wnext>>

Claim(w) ==
  /\ wpc[w] = "idle"
  /\ \E j \in DOMAIN jobs :
       /\ OldestClaimable(j)
       /\ jobs' = [jobs EXCEPT ![j] = Claimed(jobs[j])]
       /\ wjob' = [wjob EXCEPT ![w] = j]
       /\ watt' = [watt EXCEPT ![w] = jobs[j].attempts + 1]
       /\ Goto(w, IF jobs[j].kind = "ingest" THEN "get" ELSE "delete")
  /\ UNCHANGED <<catalog, vectors, saveVars, delVars, wdoc, wnext>>

IngestGet_NoNotFound(w) ==
  /\ wpc[w] = "get"
  /\ LET row == catalog[JobDoc(w)] IN
       /\ Goto(w, IF row.status \in {"ready", "deleting"} THEN "succeeded"
                                                          ELSE "summary")
       /\ wdoc' = [wdoc EXCEPT ![w] = row]
  /\ UNCHANGED <<catalog, vectors, jobs, saveVars, delVars, wjob, watt, wnext>>

\* ProcessIngest: catalog.Get. A missing row is an error; a row already
\* ready or deleting ends the job with success.
IngestGet(w) ==
  /\ wpc[w] = "get"
  /\ LET row == catalog[JobDoc(w)] IN
       /\ Goto(w, CASE row.status = "absent" -> "failing"
                    [] row.status \in {"ready", "deleting"} -> "succeeded"
                    [] OTHER -> "summary")
       /\ wdoc' = [wdoc EXCEPT ![w] = row]
  /\ UNCHANGED <<catalog, vectors, jobs, saveVars, delVars, wjob, watt, wnext>>

IngestSummary_SavesFirst(w) ==
  /\ wpc[w] = "summary"
  /\ vectors' = [vectors EXCEPT ![JobDoc(w)] = @ \cup {SummaryChunk(watt[w])}]
  /\ catalog' = [catalog EXCEPT ![JobDoc(w)].status = "ready"]
  /\ wnext' = [wnext EXCEPT ![w] = 1]
  /\ Goto(w, "chunks")
  /\ UNCHANGED <<jobs, saveVars, delVars, wjob, watt, wdoc>>

\* Summarize, Embed and the Upsert of the summary chunk.
IngestSummary(w) ==
  /\ wpc[w] = "summary"
  /\ vectors' = [vectors EXCEPT ![JobDoc(w)] = @ \cup {SummaryChunk(watt[w])}]
  /\ wnext' = [wnext EXCEPT ![w] = 1]
  /\ Goto(w, "chunks")
  /\ UNCHANGED <<catalog, jobs, saveVars, delVars, wjob, watt, wdoc>>

IngestChunk_SkipsLast(w) ==
  /\ wpc[w] = "chunks"
  /\ vectors' = [vectors EXCEPT ![JobDoc(w)] = @ \cup {BodyChunk(wnext[w])}]
  /\ wnext' = [wnext EXCEPT ![w] = @ + 1]
  /\ Goto(w, IF wnext[w] + 1 >= NChunks THEN "save" ELSE "chunks")
  /\ UNCHANGED <<catalog, jobs, saveVars, delVars, wjob, watt, wdoc>>

\* One turn of the loop over the chunks: Embed and Upsert.
IngestChunk(w) ==
  /\ wpc[w] = "chunks"
  /\ vectors' = [vectors EXCEPT ![JobDoc(w)] = @ \cup {BodyChunk(wnext[w])}]
  /\ wnext' = [wnext EXCEPT ![w] = @ + 1]
  /\ Goto(w, IF wnext[w] = NChunks THEN "save" ELSE "chunks")
  /\ UNCHANGED <<catalog, jobs, saveVars, delVars, wjob, watt, wdoc>>

\* catalog.Save of the row read by IngestGet, now ready.
IngestSave(w) ==
  /\ wpc[w] = "save"
  /\ catalog' = [catalog EXCEPT
                   ![JobDoc(w)] = [wdoc[w] EXCEPT !.status = "ready",
                                                  !.summary = watt[w]]]
  /\ Goto(w, "succeeded")
  /\ UNCHANGED <<vectors, jobs, saveVars, delVars, wjob, watt, wdoc, wnext>>

\* ProcessDeleteVectors: DeleteByDocID.
DeleteVectors(w) ==
  /\ wpc[w] = "delete"
  /\ vectors' = [vectors EXCEPT ![JobDoc(w)] = {}]
  /\ Goto(w, "succeeded")
  /\ UNCHANGED <<catalog, jobs, saveVars, delVars, wjob, watt, wdoc, wnext>>

\* Any call of ProcessIngest or ProcessDeleteVectors returns an error.
ProcessFails(w) ==
  /\ "error" \in Faults
  /\ wpc[w] \in {"get", "summary", "chunks", "save", "delete"}
  /\ Goto(w, "failing")
  /\ UNCHANGED <<catalog, vectors, jobs, saveVars, delVars,
                 wjob, watt, wdoc, wnext>>

MarkCompleted(w) ==
  /\ wpc[w] = "succeeded"
  /\ SetStatus(wjob[w], "completed")
  /\ Release(w)
  /\ Goto(w, "idle")
  /\ UNCHANGED <<catalog, vectors, saveVars, delVars>>

\* The attempts compared are those of the Job value the worker holds. Setting
\* the row pending is refused when another active row has its (doc, kind).
MarkFailedRetry(w) ==
  /\ wpc[w] = "failing"
  /\ watt[w] < MaxAttempts
  /\ IF ActiveJobs(JobDoc(w), jobs[wjob[w]].kind) \subseteq {wjob[w]}
       THEN SetStatus(wjob[w], "pending")
       ELSE UNCHANGED jobs
  /\ Release(w)
  /\ Goto(w, "idle")
  /\ UNCHANGED <<catalog, vectors, saveVars, delVars>>

MarkFailedTerminal_Early(w) ==
  /\ wpc[w] = "failing"
  /\ watt[w] + 1 >= MaxAttempts
  /\ SetStatus(wjob[w], "failed")
  /\ Release(w)
  /\ Goto(w, "idle")
  /\ UNCHANGED <<catalog, vectors, saveVars, delVars>>

MarkFailedTerminal_NoCallback(w) ==
  /\ wpc[w] = "failing"
  /\ watt[w] >= MaxAttempts
  /\ SetStatus(wjob[w], "failed")
  /\ Release(w)
  /\ Goto(w, "idle")
  /\ UNCHANGED <<catalog, vectors, saveVars, delVars>>

\* The last attempt: the row is failed and, for an ingest job,
\* onJobTerminalFailure follows.
MarkFailedTerminal(w) ==
  /\ wpc[w] = "failing"
  /\ watt[w] >= MaxAttempts
  /\ SetStatus(wjob[w], "failed")
  /\ IF jobs[wjob[w]].kind = "ingest"
       THEN /\ Goto(w, "terminal_get")
            /\ UNCHANGED <<wjob, watt, wdoc, wnext>>
       ELSE /\ Goto(w, "idle")
            /\ Release(w)
  /\ UNCHANGED <<catalog, vectors, saveVars, delVars>>

\* MarkCompleted or MarkFailed returns an error, which is only logged.
MarkErrors(w) ==
  /\ "mark" \in Faults
  /\ wpc[w] \in {"succeeded", "failing"}
  /\ Release(w)
  /\ Goto(w, "idle")
  /\ UNCHANGED <<catalog, vectors, jobs, saveVars, delVars>>

\* onJobTerminalFailure: catalog.Get; a missing row ends it.
TerminalGet(w) ==
  /\ wpc[w] = "terminal_get"
  /\ IF catalog[JobDoc(w)].status = "absent"
       THEN Goto(w, "idle") /\ Release(w)
       ELSE /\ Goto(w, "terminal_save")
            /\ wdoc' = [wdoc EXCEPT ![w] = catalog[JobDoc(w)]]
            /\ UNCHANGED <<wjob, watt, wnext>>
  /\ UNCHANGED <<catalog, vectors, jobs, saveVars, delVars>>

TerminalSave(w) ==
  /\ wpc[w] = "terminal_save"
  /\ catalog' = [catalog EXCEPT
                   ![JobDoc(w)] = [wdoc[w] EXCEPT !.status = "failed"]]
  /\ Release(w)
  /\ Goto(w, "idle")
  /\ UNCHANGED <<vectors, jobs, saveVars, delVars>>

\* A catalog call of onJobTerminalFailure fails: the error is dropped.
TerminalErrors(w) ==
  /\ "terminal" \in Faults
  /\ wpc[w] \in {"terminal_get", "terminal_save"}
  /\ Release(w)
  /\ Goto(w, "idle")
  /\ UNCHANGED <<catalog, vectors, jobs, saveVars, delVars>>

\* The server stops: only the three tables survive.
Crash(w) ==
  /\ "crash" \in Faults
  /\ wpc[w] # "down"
  /\ Release(w)
  /\ Goto(w, "down")
  /\ UNCHANGED <<catalog, vectors, jobs, saveVars, delVars>>

-----------------------------------------------------------------------------
Init ==
  /\ catalog = [d \in Docs |-> NoRow]
  /\ vectors = [d \in Docs |-> {}]
  /\ jobs = <<>>
  /\ spc = [d \in Docs |-> "new"]
  /\ dpc = [x \in Deleters |-> "idle"]
  /\ ddoc \in [Deleters -> Docs]
  /\ drow = [x \in Deleters |-> NoRow]
  /\ wpc = [w \in Workers |-> "down"]
  /\ wjob = [w \in Workers |-> 0]
  /\ watt = [w \in Workers |-> 0]
  /\ wdoc = [w \in Workers |-> NoRow]
  /\ wnext = [w \in Workers |-> 0]

SaveStep(d) == SaveCatalog(d) \/ SaveEnqueue(d) \/ SaveAbort(d)

DeleteStep(x) == \/ DeleteGet(x) \/ DeleteFlag(x) \/ DeleteRemove(x)
                 \/ DeleteEnqueue(x) \/ DeleteAbort(x)

\* The steps a scheduled worker goroutine takes by itself.
WorkerStep(w) ==
  \/ WorkerStart(w) \/ Claim(w) \/ IngestGet(w) \/ IngestSummary(w)
  \/ IngestChunk(w) \/ IngestSave(w) \/ DeleteVectors(w)
  \/ MarkCompleted(w) \/ MarkFailedRetry(w) \/ MarkFailedTerminal(w)
  \/ TerminalGet(w) \/ TerminalSave(w)

FaultStep(w) ==
  ProcessFails(w) \/ MarkErrors(w) \/ TerminalErrors(w) \/ Crash(w)

Next ==
  \/ \E d \in Docs : SaveStep(d)
  \/ \E x \in Deleters : DeleteStep(x)
  \/ \E w \in Workers : WorkerStep(w) \/ FaultStep(w)

Spec == Init /\ [][Next]_vars

\* Each worker goroutine is scheduled, and the supervisor restarts a server.
FairSpec == Spec /\ \A w \in Workers : WF_vars(WorkerStep(w))

-----------------------------------------------------------------------------
(* Properties *)

WorkerLabel == {"down", "idle", "get", "summary", "chunks", "save", "delete",
                "succeeded", "failing", "terminal_get", "terminal_save"}

\* The tables, the rows read from them and the program counters keep their
\* types; no job row is claimed more than max_attempts times.
TypeOK ==
  /\ catalog \in [Docs -> DocRow]
  /\ vectors \in [Docs -> SUBSET ChunkId]
  /\ jobs \in Seq(JobRow)
  /\ spc \in [Docs -> {"new", "enqueue", "done", "aborted"}]
  /\ dpc \in [Deleters -> {"idle", "flag", "remove", "enqueue", "ok", "aborted"}]
  /\ ddoc \in [Deleters -> Docs]
  /\ drow \in [Deleters -> DocRow]
  /\ wpc \in [Workers -> WorkerLabel]
  /\ wjob \in [Workers -> Nat]
  /\ watt \in [Workers -> 0..MaxAttempts]
  /\ wdoc \in [Workers -> DocRow]
  /\ wnext \in [Workers -> 0..(NChunks + 1)]

\* Whatever crashes, retries, stale recoveries and late MarkFailed calls do,
\* a (doc, kind) never has two active rows, and a document never gets a
\* second ingest row (Enqueue's ON CONFLICT, MarkFailed's update).
OneActiveJob ==
  \A i, j \in DOMAIN jobs :
    /\ jobs[i].doc = jobs[j].doc
    /\ jobs[i].kind = jobs[j].kind
    /\ (Active(i) /\ Active(j)) \/ jobs[i].kind = "ingest"
    => i = j

\* No job is in the hands of two workers at once, as long as a live worker
\* finishes its job within StaleAfter (Claim against RecoverStale).
ExclusiveClaim ==
  \A v, w \in Workers : v # w /\ wjob[v] # 0 => wjob[v] # wjob[w]

\* A document the catalog shows as ready has its summary chunk, the one the
\* row names, and every body chunk in the vector store, unless its deletion
\* has got as far as queueing a delete_vectors job: retries, crashes in the
\* middle of an attempt and overlapping attempts leave no gap
\* (ProcessIngest upserts everything before it saves the row).
ReadyIsIndexed ==
  \A d \in Docs :
    catalog[d].status = "ready" /\ JobsOf(d, "delete_vectors") = {}
      => Indexed(d, catalog[d].summary)

\* Once a delete_vectors job of a document is completed, none of its chunks
\* is left in the vector store (Service.Delete, ProcessDeleteVectors).
CompletedDeletePurges ==
  \A j \in DOMAIN jobs :
    jobs[j].kind = "delete_vectors" /\ jobs[j].status = "completed"
      => vectors[jobs[j].doc] = {}

\* A document whose Delete call has returned success is no longer in the
\* catalog (Service.Delete against the upserts of ProcessIngest).
DeletedStaysDeleted ==
  \A x \in Deleters : dpc[x] = "ok" => catalog[ddoc[x]].status = "absent"

\* onJobTerminalFailure never turns a ready document into a failed one.
ReadyNeverFails ==
  [][\A d \in Docs : catalog[d].status = "ready"
                        => catalog'[d].status # "failed"]_vars

\* A document whose indexing is queued does not stay "processing": its status
\* comes to reflect what the worker did (Worker.loop, handleJob,
\* onJobTerminalFailure).
IngestSettles ==
  \A d \in Docs :
    (JobsOf(d, "ingest") # {} /\ catalog[d].status = "processing")
      ~> catalog[d].status # "processing"

Queue == INSTANCE JobQueue WITH Kinds <- JobKind, queue <- jobs

\* The job table is a JobQueue while no live worker outlives StaleAfter: an
\* ended job never runs again, and a job fails only after its last attempt
\* (Enqueue, Claim, MarkCompleted, MarkFailed and RecoverStale together).
ImplementsJobQueue == Queue!QSpec

=============================================================================
