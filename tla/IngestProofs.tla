---------------------------- MODULE IngestProofs ----------------------------
(***************************************************************************)
(* Proofs about Ingest, for every set of documents, workers and Delete      *)
(* calls and every bound on attempts and chunks.  IndInv needs nothing of   *)
(* the faults; what rests on a row having one holder says which of them it  *)
(* leaves out.                                                              *)
(***************************************************************************)
EXTENDS Ingest, TLAPS

\* The leaves are first-order unless they name the SMT solver.
USE Zenon

IngestLabel == {"get", "summary", "chunks", "save"}
TerminalLabel == {"terminal_get", "terminal_save"}

\* A worker's program counter agrees with the job it holds.
HoldsJob(w) ==
  /\ wpc[w] \in {"down", "idle"} <=> wjob[w] = 0
  /\ wjob[w] # 0 => wjob[w] \in DOMAIN jobs /\ watt[w] >= 1
  /\ wpc[w] \in IngestLabel \cup TerminalLabel => jobs[wjob[w]].kind = "ingest"
  /\ wpc[w] = "delete" => jobs[wjob[w]].kind = "delete_vectors"
  /\ wpc[w] = "chunks" => wnext[w] \in 1..NChunks
  /\ wpc[w] = "save" => wnext[w] = NChunks + 1

WorkerOK == \A w \in Workers : HoldsJob(w)

\* The only ingest row of a document is the one Pipeline.Save queues.
SaveOK ==
  \A d \in Docs : spc[d] # "done" => JobsOf(d, "ingest") = {}

\* What an attempt has upserted so far is in the vector store, unless the
\* deletion of the document has been queued.
HasUpserted(w) ==
  wpc[w] \in {"chunks", "save"} /\ JobsOf(JobDoc(w), "delete_vectors") = {} =>
    /\ SummaryChunk(watt[w]) \in vectors[JobDoc(w)]
    /\ \A i \in 1..NChunks :
         i < wnext[w] => BodyChunk(i) \in vectors[JobDoc(w)]

ChunksOK == \A w \in Workers : HasUpserted(w)

\* The invariant that is preserved by every step under every fault.
IndInv == TypeOK /\ WorkerOK /\ SaveOK /\ OneActiveJob /\ ChunksOK /\ ReadyIsIndexed

\* Without slow jobs, a held row is running (failed once MarkFailed has given
\* up), carries the attempt its worker holds, and has one holder.
HeldRow(w) ==
  wjob[w] # 0 =>
    /\ jobs[wjob[w]].status =
         IF wpc[w] \in TerminalLabel THEN "failed" ELSE "running"
    /\ jobs[wjob[w]].attempts = watt[w]

HeldOK == (\A w \in Workers : HeldRow(w)) /\ ExclusiveClaim

-----------------------------------------------------------------------------
(* How the steps change the job table *)

\* Rows keep their identity: none disappears, none changes document or kind.
JobsKept ==
  \A j \in DOMAIN jobs : /\ j \in DOMAIN jobs'
                         /\ jobs'[j].doc = jobs[j].doc
                         /\ jobs'[j].kind = jobs[j].kind

\* A function over 1..n is a sequence of length n.
LEMMA FunctionIsSeq ==
  ASSUME NEW S, NEW n \in Nat, NEW f \in [1..n -> S]
  PROVE  f \in Seq(S) /\ Len(f) = n /\ DOMAIN f = 1..n
BY SMT

\* Enqueue leaves every row as it is and adds at most one, which then is the
\* only active row of its (doc, kind).
LEMMA EnqueueEffect ==
  ASSUME TypeOK, NEW d \in Docs, NEW k \in JobKind, Enqueue(d, k)
  PROVE  /\ jobs' \in Seq(JobRow)
         /\ \A j \in DOMAIN jobs : j \in DOMAIN jobs' /\ jobs'[j] = jobs[j]
         /\ \A j \in DOMAIN jobs' : j \notin DOMAIN jobs =>
              /\ ActiveJobs(d, k) = {}
              /\ j = Len(jobs) + 1
              /\ jobs'[j] = [doc |-> d, kind |-> k,
                             status |-> "pending", attempts |-> 0]
<1> DEFINE row == [doc |-> d, kind |-> k, status |-> "pending", attempts |-> 0]
<1>1. row \in JobRow
  BY SMT, MaxAttemptsAssumption DEF JobRow, JobStatus
<1>2. CASE ActiveJobs(d, k) # {}
  BY <1>2 DEF Enqueue, TypeOK
<1>3. CASE ActiveJobs(d, k) = {}
  <2>1. jobs' = Append(jobs, row)
    BY <1>3 DEF Enqueue
  <2>2. jobs \in Seq(JobRow)
    BY DEF TypeOK
  <2> HIDE DEF row
  <2>3. /\ jobs' \in Seq(JobRow)
        /\ DOMAIN jobs = 1..Len(jobs)
        /\ DOMAIN jobs' = 1..(Len(jobs) + 1)
        /\ \A j \in 1..Len(jobs) : jobs'[j] = jobs[j]
        /\ jobs'[Len(jobs) + 1] = row
    BY SMT, <1>1, <2>1, <2>2
  <2> QED
    BY SMT, <1>3, <2>2, <2>3 DEF row
<1> QED
  BY <1>2, <1>3

\* Replacing row i by a row of the same document and kind.
LEMMA UpdateEffect ==
  ASSUME TypeOK, NEW i \in DOMAIN jobs, NEW r \in JobRow,
         r.doc = jobs[i].doc, r.kind = jobs[i].kind,
         jobs' = [jobs EXCEPT ![i] = r]
  PROVE  /\ jobs' \in Seq(JobRow)
         /\ DOMAIN jobs' = DOMAIN jobs
         /\ \A j \in DOMAIN jobs : jobs'[j] = IF j = i THEN r ELSE jobs[j]
         /\ JobsKept
BY SMT DEF TypeOK, JobsKept

\* RecoverStale changes nothing but running rows, which become pending.
LEMMA RecoverEffect ==
  ASSUME TypeOK, RecoverStale
  PROVE  /\ jobs' \in Seq(JobRow)
         /\ DOMAIN jobs' = DOMAIN jobs
         /\ JobsKept
         /\ \A j \in DOMAIN jobs :
              \/ jobs'[j] = jobs[j]
              \/ /\ j \in StaleRows
                 /\ jobs'[j] = [jobs[j] EXCEPT !.status = "pending"]
<1>1. PICK S \in SUBSET StaleRows :
        jobs' = [j \in DOMAIN jobs |->
                   IF j \in S THEN [jobs[j] EXCEPT !.status = "pending"]
                              ELSE jobs[j]]
  BY DEF RecoverStale
<1>2. jobs \in Seq(JobRow) /\ DOMAIN jobs = 1..Len(jobs) /\ Len(jobs) \in Nat
  BY SMT DEF TypeOK
<1>3. \A j \in DOMAIN jobs : jobs[j] \in JobRow
  BY SMT, <1>2
<1>4. \A j \in DOMAIN jobs : [jobs[j] EXCEPT !.status = "pending"] \in JobRow
  BY <1>3 DEF JobRow, JobStatus
<1>5. jobs' \in [1..Len(jobs) -> JobRow]
  BY <1>1, <1>2, <1>3, <1>4
<1>6. jobs' \in Seq(JobRow) /\ DOMAIN jobs' = DOMAIN jobs
  BY <1>2, <1>5, FunctionIsSeq
<1>7. \A j \in DOMAIN jobs :
        \/ jobs'[j] = jobs[j]
        \/ j \in StaleRows /\ jobs'[j] = [jobs[j] EXCEPT !.status = "pending"]
  BY <1>1
<1>8. JobsKept
  BY <1>3, <1>6, <1>7 DEF JobsKept, JobRow
<1> QED
  BY <1>6, <1>7, <1>8

\* A step that updates one row of the table: the worker's own (Claim,
\* MarkCompleted, MarkFailed).
LEMMA StatusRow ==
  ASSUME TypeOK, NEW i \in DOMAIN jobs, NEW st \in JobStatus, SetStatus(i, st)
  PROVE  /\ jobs' \in Seq(JobRow)
         /\ DOMAIN jobs' = DOMAIN jobs
         /\ JobsKept
         /\ \A j \in DOMAIN jobs : j # i => jobs'[j] = jobs[j]
         /\ jobs'[i].status = st
         /\ jobs'[i].attempts = jobs[i].attempts
<1> DEFINE r == [jobs[i] EXCEPT !.status = st]
<1>1. jobs[i] \in JobRow
  BY SMT DEF TypeOK
<1>2. /\ r \in JobRow /\ r.doc = jobs[i].doc /\ r.kind = jobs[i].kind
      /\ r.status = st /\ r.attempts = jobs[i].attempts
  BY <1>1 DEF JobRow
<1>3. jobs' = [jobs EXCEPT ![i] = r]
  BY <1>1 DEF SetStatus
<1> HIDE DEF r
<1>4. /\ jobs' \in Seq(JobRow)
      /\ DOMAIN jobs' = DOMAIN jobs
      /\ \A j \in DOMAIN jobs : jobs'[j] = IF j = i THEN r ELSE jobs[j]
      /\ JobsKept
  BY <1>2, <1>3, UpdateEffect
<1> QED
  BY <1>2, <1>4

\* Claim: the row chosen was claimable; it becomes running, one attempt more.
LEMMA ClaimEffect ==
  ASSUME TypeOK, NEW w \in Workers, Claim(w)
  PROVE  \E i \in DOMAIN jobs :
           /\ Claimable(i)
           /\ jobs' \in Seq(JobRow)
           /\ DOMAIN jobs' = DOMAIN jobs
           /\ JobsKept
           /\ \A j \in DOMAIN jobs : j # i => jobs'[j] = jobs[j]
           /\ jobs'[i].status = "running"
           /\ jobs'[i].attempts = jobs[i].attempts + 1
           /\ jobs[i].attempts + 1 \in 1..MaxAttempts
           /\ wjob' = [wjob EXCEPT ![w] = i]
           /\ watt' = [watt EXCEPT ![w] = jobs[i].attempts + 1]
           /\ wpc' = [wpc EXCEPT ![w] = IF jobs[i].kind = "ingest"
                                         THEN "get" ELSE "delete"]
<1>1. PICK i \in DOMAIN jobs :
        /\ OldestClaimable(i)
        /\ jobs' = [jobs EXCEPT ![i] = Claimed(jobs[i])]
        /\ wjob' = [wjob EXCEPT ![w] = i]
        /\ watt' = [watt EXCEPT ![w] = jobs[i].attempts + 1]
        /\ Goto(w, IF jobs[i].kind = "ingest" THEN "get" ELSE "delete")
  BY DEF Claim
<1> DEFINE r == [doc |-> jobs[i].doc, kind |-> jobs[i].kind,
                 status |-> "running", attempts |-> jobs[i].attempts + 1]
<1>2. jobs[i] \in JobRow /\ jobs[i].attempts < MaxAttempts
  BY SMT, <1>1 DEF TypeOK, OldestClaimable, Claimable
<1>3. jobs[i].attempts + 1 \in 1..MaxAttempts
  BY SMT, <1>2, MaxAttemptsAssumption DEF JobRow
<1>4. /\ r \in JobRow /\ r.doc = jobs[i].doc /\ r.kind = jobs[i].kind
      /\ r.status = "running" /\ r.attempts = jobs[i].attempts + 1
  BY SMT, <1>2, <1>3 DEF JobRow, JobStatus
<1>5. jobs' = [jobs EXCEPT ![i] = r]
  BY <1>1 DEF Claimed
<1> HIDE DEF r
<1>6. /\ jobs' \in Seq(JobRow)
      /\ DOMAIN jobs' = DOMAIN jobs
      /\ \A j \in DOMAIN jobs : jobs'[j] = IF j = i THEN r ELSE jobs[j]
      /\ JobsKept
  BY <1>4, <1>5, UpdateEffect
<1> QED
  BY <1>1, <1>3, <1>4, <1>6 DEF OldestClaimable, Goto

-----------------------------------------------------------------------------
(* Every step preserves the invariant, one conjunct at a time *)

\* The invariant holds of empty tables and servers not yet started.
LEMMA InitIndInv == Init => IndInv
<1> SUFFICES ASSUME Init PROVE IndInv
  OBVIOUS
<1>1. NoRow \in DocRow
  BY SMT, MaxAttemptsAssumption DEF NoRow, DocRow, DocStatus
<1>2. TypeOK
  BY SMT, <1>1, MaxAttemptsAssumption, NChunksAssumption DEF Init, TypeOK, WorkerLabel
<1>3. WorkerOK /\ SaveOK /\ OneActiveJob /\ ChunksOK
  BY SMT DEF Init, WorkerOK, HoldsJob, SaveOK, OneActiveJob, ChunksOK,
         HasUpserted, IngestLabel, TerminalLabel, JobsOf
<1>4. ReadyIsIndexed
  BY DEF Init, ReadyIsIndexed, NoRow
<1> QED
  BY <1>2, <1>3, <1>4 DEF IndInv

\* A worker that lets go of its job keeps well-typed, empty local state.
LEMMA ReleaseType ==
  ASSUME TypeOK, NEW w \in Workers, Release(w)
  PROVE  /\ wjob' \in [Workers -> Nat]
         /\ watt' \in [Workers -> 0..MaxAttempts]
         /\ wdoc' \in [Workers -> DocRow]
         /\ wnext' \in [Workers -> 0..(NChunks + 1)]
<1>1. NoRow \in DocRow
  BY SMT, MaxAttemptsAssumption DEF NoRow, DocRow, DocStatus
<1> QED
  BY SMT, <1>1, MaxAttemptsAssumption, NChunksAssumption DEF Release, TypeOK

\* Every statement of Save, Delete and the workers writes rows of the types
\* the tables have.
LEMMA TypeStep == IndInv /\ [Next]_vars => TypeOK'
<1> SUFFICES ASSUME IndInv, [Next]_vars PROVE TypeOK'
  OBVIOUS
<1> USE MaxAttemptsAssumption, NChunksAssumption DEF IndInv
<1>1. NoRow \in DocRow
  BY SMT DEF NoRow, DocRow, DocStatus
<1>2. \A r \in DocRow, st \in DocStatus : [r EXCEPT !.status = st] \in DocRow
  BY DEF DocRow
<1>3. ASSUME NEW d \in Docs, SaveStep(d) PROVE TypeOK'
  <2>1. [status |-> "processing", summary |-> 0] \in DocRow
    BY SMT DEF DocRow, DocStatus
  <2>2. CASE SaveCatalog(d)
    BY <2>1, <2>2 DEF SaveCatalog, TypeOK, delVars, wrkVars
  <2>3. CASE SaveEnqueue(d)
    <3>1. jobs' \in Seq(JobRow)
      BY <2>3, EnqueueEffect DEF SaveEnqueue, JobKind
    <3> QED
      BY <2>3, <3>1 DEF SaveEnqueue, TypeOK, delVars, wrkVars
  <2>4. CASE SaveAbort(d)
    BY <2>4 DEF SaveAbort, TypeOK, delVars, wrkVars
  <2> QED
    BY <1>3, <2>2, <2>3, <2>4 DEF SaveStep
<1>4. ASSUME NEW x \in Deleters, DeleteStep(x) PROVE TypeOK'
  <2> USE DEF saveVars, wrkVars
  <2>0. ddoc[x] \in Docs /\ drow[x] \in DocRow /\ "deleting" \in DocStatus
    BY DEF TypeOK, DocStatus
  <2>1. CASE DeleteGet(x)
    BY <2>0, <2>1 DEF DeleteGet, TypeOK
  <2>2. CASE DeleteFlag(x)
    BY <1>2, <2>0, <2>2 DEF DeleteFlag, TypeOK
  <2>3. CASE DeleteRemove(x)
    BY <1>1, <2>0, <2>3 DEF DeleteRemove, TypeOK
  <2>4. CASE DeleteEnqueue(x)
    <3>1. jobs' \in Seq(JobRow)
      BY <2>0, <2>4, EnqueueEffect DEF DeleteEnqueue, JobKind
    <3> QED
      BY <2>4, <3>1 DEF DeleteEnqueue, TypeOK
  <2>5. CASE DeleteAbort(x)
    BY <2>5 DEF DeleteAbort, TypeOK
  <2> QED
    BY <1>4, <2>1, <2>2, <2>3, <2>4, <2>5 DEF DeleteStep
<1>5. ASSUME NEW w \in Workers, WorkerStep(w) PROVE TypeOK'
  <2> USE DEF saveVars, delVars, Goto, WorkerLabel
  <2>0. wpc[w] \notin {"down", "idle"} =>
          /\ wjob[w] \in DOMAIN jobs
          /\ JobDoc(w) \in Docs
          /\ catalog[JobDoc(w)] \in DocRow
          /\ watt[w] \in 1..MaxAttempts
    <3> SUFFICES ASSUME wpc[w] \notin {"down", "idle"}
                 PROVE  /\ wjob[w] \in DOMAIN jobs
                        /\ JobDoc(w) \in Docs
                        /\ catalog[JobDoc(w)] \in DocRow
                        /\ watt[w] \in 1..MaxAttempts
      OBVIOUS
    <3>1. wjob[w] \in DOMAIN jobs /\ watt[w] >= 1
      BY DEF WorkerOK, HoldsJob
    <3>2. jobs[wjob[w]] \in JobRow
      BY SMT, <3>1 DEF TypeOK
    <3> QED
      BY SMT, <3>1, <3>2 DEF TypeOK, JobDoc, JobRow
  <2>1. CASE WorkerStart(w)
    <3>1. jobs' \in Seq(JobRow)
      BY <2>1, RecoverEffect DEF WorkerStart
    <3> QED
      BY <2>1, <3>1 DEF WorkerStart, TypeOK
  <2>2. CASE Claim(w)
    <3>1. PICK i \in DOMAIN jobs :
            /\ jobs' \in Seq(JobRow)
            /\ jobs[i].attempts + 1 \in 1..MaxAttempts
            /\ wjob' = [wjob EXCEPT ![w] = i]
            /\ watt' = [watt EXCEPT ![w] = jobs[i].attempts + 1]
            /\ wpc' = [wpc EXCEPT ![w] = IF jobs[i].kind = "ingest"
                                          THEN "get" ELSE "delete"]
      BY <2>2, ClaimEffect
    <3>2. i \in Nat
      BY SMT DEF TypeOK
    <3> QED
      BY SMTT(30), <2>2, <3>1, <3>2 DEF Claim, TypeOK
  <2>3. CASE IngestGet(w)
    BY <2>0, <2>3 DEF IngestGet, TypeOK
  <2>4. CASE IngestSummary(w)
    <3>1. vectors' \in [Docs -> SUBSET ChunkId]
      BY <2>0, <2>4 DEF IngestSummary, TypeOK, ChunkId
    <3> QED
      BY SMT, <2>4, <3>1 DEF IngestSummary, TypeOK
  <2>5. CASE IngestChunk(w)
    <3>1. wnext[w] \in 1..NChunks
      BY <2>5 DEF IngestChunk, WorkerOK, HoldsJob
    <3>2. vectors' \in [Docs -> SUBSET ChunkId]
      BY <2>0, <2>5, <3>1 DEF IngestChunk, TypeOK, ChunkId
    <3>3. wnext' \in [Workers -> 0..(NChunks + 1)]
      BY SMT, <2>5, <3>1 DEF IngestChunk, TypeOK
    <3> QED
      BY <2>5, <3>2, <3>3 DEF IngestChunk, TypeOK
  <2>6. CASE IngestSave(w)
    <3>1. [wdoc[w] EXCEPT !.status = "ready", !.summary = watt[w]] \in DocRow
      <4>1. wdoc[w] \in DocRow /\ watt[w] \in 0..MaxAttempts
        BY DEF TypeOK
      <4> QED
        BY <4>1 DEF DocRow, DocStatus
    <3> QED
      BY <2>0, <2>6, <3>1 DEF IngestSave, TypeOK
  <2>7. CASE DeleteVectors(w)
    BY <2>0, <2>7 DEF DeleteVectors, TypeOK
  <2>8. CASE MarkCompleted(w)
    <3>1. jobs' \in Seq(JobRow)
      BY <2>0, <2>8, StatusRow DEF MarkCompleted, JobStatus
    <3> QED
      BY <2>8, <3>1, ReleaseType DEF MarkCompleted, TypeOK
  <2>9. CASE MarkFailedRetry(w)
    <3>1. jobs' \in Seq(JobRow)
      <4>1. CASE SetStatus(wjob[w], "pending")
        BY <2>0, <2>9, <4>1, StatusRow DEF MarkFailedRetry, JobStatus
      <4>2. CASE UNCHANGED jobs
        BY <4>2 DEF TypeOK
      <4> QED
        BY <2>9, <4>1, <4>2 DEF MarkFailedRetry
    <3> QED
      BY <2>9, <3>1, ReleaseType DEF MarkFailedRetry, TypeOK
  <2>10. CASE MarkFailedTerminal(w)
    <3>1. jobs' \in Seq(JobRow)
      BY <2>0, <2>10, StatusRow DEF MarkFailedTerminal, JobStatus
    <3>2. CASE jobs[wjob[w]].kind = "ingest"
      BY <2>10, <3>1, <3>2 DEF MarkFailedTerminal, TypeOK
    <3>3. CASE jobs[wjob[w]].kind # "ingest"
      BY <2>10, <3>1, <3>3, ReleaseType DEF MarkFailedTerminal, TypeOK
    <3> QED
      BY <3>2, <3>3
  <2>11. CASE TerminalGet(w)
    <3>1. CASE catalog[JobDoc(w)].status = "absent"
      BY <2>11, <3>1, ReleaseType DEF TerminalGet, TypeOK
    <3>2. CASE catalog[JobDoc(w)].status # "absent"
      BY <2>0, <2>11, <3>2 DEF TerminalGet, TypeOK
    <3> QED
      BY <3>1, <3>2
  <2>12. CASE TerminalSave(w)
    <3>1. [wdoc[w] EXCEPT !.status = "failed"] \in DocRow
      BY <1>2 DEF TypeOK, DocStatus
    <3> QED
      BY <2>0, <2>12, <3>1, ReleaseType DEF TerminalSave, TypeOK
  <2> QED
    BY <1>5, <2>1, <2>2, <2>3, <2>4, <2>5, <2>6, <2>7, <2>8, <2>9, <2>10,
       <2>11, <2>12 DEF WorkerStep
<1>6. ASSUME NEW w \in Workers, FaultStep(w) PROVE TypeOK'
  <2> USE DEF saveVars, delVars, Goto, WorkerLabel
  <2>1. CASE ProcessFails(w)
    BY <2>1 DEF ProcessFails, TypeOK
  <2>2. CASE MarkErrors(w) \/ TerminalErrors(w) \/ Crash(w)
    BY <2>2, ReleaseType DEF MarkErrors, TerminalErrors, Crash, TypeOK
  <2> QED
    BY <1>6, <2>1, <2>2 DEF FaultStep
<1>7. CASE UNCHANGED vars
  BY <1>7 DEF vars, TypeOK
<1> QED
  BY <1>3, <1>4, <1>5, <1>6, <1>7 DEF Next

\* A worker's step leaves the other workers, the requests and the identity of
\* the job rows alone.
OthersKept(w) ==
  /\ \A v \in Workers : v # w =>
       /\ wpc'[v] = wpc[v]
       /\ wjob'[v] = wjob[v]
       /\ watt'[v] = watt[v]
       /\ wnext'[v] = wnext[v]
  /\ spc' = spc

\* A worker's step leaves the other workers and the requests alone.
LEMMA WorkerStepLocal ==
  ASSUME IndInv, NEW w \in Workers, WorkerStep(w) \/ FaultStep(w)
  PROVE  JobsKept /\ OthersKept(w)
<1> USE DEF IndInv, saveVars, delVars, Goto
<1>0. TypeOK /\ (wpc[w] \notin {"down", "idle"} => wjob[w] \in DOMAIN jobs)
  BY DEF WorkerOK, HoldsJob
<1>1. CASE WorkerStart(w)
  BY SMT, <1>0, <1>1, RecoverEffect DEF WorkerStart, OthersKept
<1>2. CASE Claim(w)
  <2>1. PICK i \in DOMAIN jobs :
          /\ JobsKept
          /\ wjob' = [wjob EXCEPT ![w] = i]
          /\ watt' = [watt EXCEPT ![w] = jobs[i].attempts + 1]
          /\ wpc' = [wpc EXCEPT ![w] = IF jobs[i].kind = "ingest"
                                        THEN "get" ELSE "delete"]
    BY <1>0, <1>2, ClaimEffect
  <2>2. wnext' = wnext /\ spc' = spc
    BY <1>2 DEF Claim
  <2>3. /\ wpc \in [Workers -> WorkerLabel] /\ wjob \in [Workers -> Nat]
        /\ watt \in [Workers -> 0..MaxAttempts]
    BY <1>0 DEF TypeOK
  <2> QED
    BY <2>1, <2>2, <2>3 DEF OthersKept
<1>3. CASE \/ IngestGet(w) \/ IngestSummary(w) \/ IngestChunk(w)
           \/ IngestSave(w) \/ DeleteVectors(w) \/ ProcessFails(w)
  BY <1>0, <1>3 DEF IngestGet, IngestSummary, IngestChunk, IngestSave,
     DeleteVectors, ProcessFails, OthersKept, JobsKept, TypeOK
<1>4. CASE MarkCompleted(w)
  <2>1. JobsKept
    BY <1>0, <1>4, StatusRow DEF MarkCompleted, JobStatus
  <2> QED
    BY <1>4, <2>1 DEF MarkCompleted, Release, OthersKept, TypeOK
<1>5. CASE MarkFailedRetry(w)
  <2>1. JobsKept
    <3>1. CASE SetStatus(wjob[w], "pending")
      BY <1>0, <1>5, <3>1, StatusRow DEF MarkFailedRetry, JobStatus
    <3>2. CASE UNCHANGED jobs
      BY <3>2 DEF JobsKept
    <3> QED
      BY <1>5, <3>1, <3>2 DEF MarkFailedRetry
  <2> QED
    BY <1>5, <2>1 DEF MarkFailedRetry, Release, OthersKept, TypeOK
<1>6. CASE MarkFailedTerminal(w)
  <2>1. JobsKept
    BY <1>0, <1>6, StatusRow DEF MarkFailedTerminal, JobStatus
  <2>2. CASE jobs[wjob[w]].kind = "ingest"
    BY <1>6, <2>1, <2>2 DEF MarkFailedTerminal, OthersKept, TypeOK
  <2>3. CASE jobs[wjob[w]].kind # "ingest"
    <3>1. Goto(w, "idle") /\ Release(w) /\ spc' = spc
      BY <1>6, <2>3 DEF MarkFailedTerminal
    <3> QED
      BY <1>0, <2>1, <3>1 DEF Release, OthersKept, TypeOK
  <2> QED
    BY <2>2, <2>3
<1>7. CASE TerminalGet(w)
  <2>1. CASE catalog[JobDoc(w)].status = "absent"
    BY SMT, <1>7, <2>1 DEF TerminalGet, Release, OthersKept, JobsKept, TypeOK
  <2>2. CASE catalog[JobDoc(w)].status # "absent"
    BY <1>7, <2>2 DEF TerminalGet, OthersKept, JobsKept, TypeOK
  <2> QED
    BY <2>1, <2>2
<1>8. CASE TerminalSave(w) \/ MarkErrors(w) \/ TerminalErrors(w) \/ Crash(w)
  BY <1>8 DEF TerminalSave, MarkErrors, TerminalErrors, Crash, Release,
     OthersKept, JobsKept, TypeOK
<1> QED
  BY <1>1, <1>2, <1>3, <1>4, <1>5, <1>6, <1>7, <1>8 DEF WorkerStep, FaultStep

\* A request's step leaves the workers and the identity of the rows alone.
LEMMA RequestStepLocal ==
  ASSUME IndInv,
         (\E d \in Docs : SaveStep(d)) \/ (\E x \in Deleters : DeleteStep(x))
  PROVE  JobsKept /\ UNCHANGED wrkVars
<1> USE DEF IndInv
<1>1. ASSUME NEW d \in Docs, SaveStep(d) PROVE JobsKept /\ UNCHANGED wrkVars
  <2>1. CASE SaveEnqueue(d)
    BY <2>1, EnqueueEffect DEF SaveEnqueue, JobsKept, JobKind
  <2>2. CASE SaveCatalog(d) \/ SaveAbort(d)
    BY <2>2 DEF SaveCatalog, SaveAbort, JobsKept
  <2> QED
    BY <1>1, <2>1, <2>2 DEF SaveStep
<1>2. ASSUME NEW x \in Deleters, DeleteStep(x) PROVE JobsKept /\ UNCHANGED wrkVars
  <2>1. CASE DeleteEnqueue(x)
    <3>1. ddoc[x] \in Docs
      BY DEF TypeOK
    <3> QED
      BY <2>1, <3>1, EnqueueEffect DEF DeleteEnqueue, JobsKept, JobKind
  <2>2. CASE DeleteGet(x) \/ DeleteFlag(x) \/ DeleteRemove(x) \/ DeleteAbort(x)
    BY <2>2 DEF DeleteGet, DeleteFlag, DeleteRemove, DeleteAbort, JobsKept
  <2> QED
    BY <1>2, <2>1, <2>2 DEF DeleteStep
<1> QED
  BY <1>1, <1>2

\* No step drops a row or changes its document or kind.
LEMMA RowsKept ==
  ASSUME IndInv, [Next]_vars PROVE JobsKept
<1>1. CASE (\E d \in Docs : SaveStep(d)) \/ (\E x \in Deleters : DeleteStep(x))
  BY <1>1, RequestStepLocal
<1>2. ASSUME NEW w \in Workers, WorkerStep(w) \/ FaultStep(w) PROVE JobsKept
  BY <1>2, WorkerStepLocal
<1>3. CASE UNCHANGED vars
  BY <1>3 DEF vars, JobsKept
<1> QED
  BY <1>1, <1>2, <1>3 DEF Next

\* What a worker does to the rows: only a failed attempt whose row was already
\* ended, and whose (doc, kind) is free, makes a row active again.
LEMMA WorkerStepRows ==
  ASSUME IndInv, NEW w \in Workers, WorkerStep(w) \/ FaultStep(w)
  PROVE  /\ DOMAIN jobs' = DOMAIN jobs
         /\ \A j \in DOMAIN jobs : Active(j)' =>
              \/ Active(j)
              \/ ActiveJobs(jobs[j].doc, jobs[j].kind) = {}
                 /\ \A i \in DOMAIN jobs : i # j => jobs'[i] = jobs[i]
<1> USE DEF IndInv, Active
<1>0. TypeOK /\ (wpc[w] \notin {"down", "idle"} => wjob[w] \in DOMAIN jobs)
  BY DEF WorkerOK, HoldsJob
<1>1. CASE WorkerStart(w)
  BY <1>0, <1>1, RecoverEffect DEF WorkerStart, StaleRows
<1>2. CASE Claim(w)
  BY <1>0, <1>2, ClaimEffect DEF Claimable
<1>3. CASE UNCHANGED jobs
  BY <1>3
<1>4. CASE MarkCompleted(w)
  BY <1>0, <1>4, StatusRow DEF MarkCompleted, JobStatus
<1>5. CASE MarkFailedRetry(w)
  <2>1. CASE UNCHANGED jobs
    BY <2>1
  <2>2. CASE /\ SetStatus(wjob[w], "pending")
             /\ ActiveJobs(JobDoc(w), jobs[wjob[w]].kind) \subseteq {wjob[w]}
    <3>1. /\ wjob[w] \in DOMAIN jobs
          /\ DOMAIN jobs' = DOMAIN jobs
          /\ \A j \in DOMAIN jobs : j # wjob[w] => jobs'[j] = jobs[j]
      BY <1>0, <1>5, <2>2, StatusRow DEF MarkFailedRetry, JobStatus
    <3>2. ~Active(wjob[w]) =>
             ActiveJobs(jobs[wjob[w]].doc, jobs[wjob[w]].kind) = {}
      BY <2>2, <3>1 DEF ActiveJobs, JobDoc
    <3> QED
      BY <3>1, <3>2
  <2> QED
    BY <1>5, <2>1, <2>2 DEF MarkFailedRetry
<1>6. CASE MarkFailedTerminal(w)
  BY <1>0, <1>6, StatusRow DEF MarkFailedTerminal, JobStatus
<1> QED
  BY <1>1, <1>2, <1>3, <1>4, <1>5, <1>6 DEF WorkerStep, FaultStep, IngestGet,
     IngestSummary, IngestChunk, IngestSave, DeleteVectors, ProcessFails,
     TerminalGet, TerminalSave, MarkErrors, TerminalErrors, Crash

\* A worker past Claim keeps holding a row of the kind it is processing, with
\* the attempt number Claim gave it.
LEMMA WorkerOKStep == IndInv /\ [Next]_vars => WorkerOK'
<1> SUFFICES ASSUME IndInv, [Next]_vars, NEW v \in Workers PROVE HoldsJob(v)'
  BY DEF WorkerOK
<1>0. TypeOK /\ HoldsJob(v)
  BY DEF IndInv, WorkerOK
<1>1. ASSUME JobsKept, wpc'[v] = wpc[v], wjob'[v] = wjob[v], watt'[v] = watt[v],
             wnext'[v] = wnext[v]
      PROVE  HoldsJob(v)'
  BY <1>0, <1>1 DEF HoldsJob, JobsKept, IngestLabel, TerminalLabel
<1>2. CASE (\E d \in Docs : SaveStep(d)) \/ (\E x \in Deleters : DeleteStep(x))
  BY <1>1, <1>2, RequestStepLocal DEF wrkVars
<1>3. ASSUME NEW w \in Workers, WorkerStep(w) \/ FaultStep(w), w # v
      PROVE  HoldsJob(v)'
  BY <1>1, <1>3, WorkerStepLocal DEF OthersKept
<1>4. ASSUME WorkerStep(v) \/ FaultStep(v) PROVE HoldsJob(v)'
  <2> USE DEF saveVars, delVars, Goto, IngestLabel, TerminalLabel
  <2>0. JobsKept
    BY <1>4, WorkerStepLocal
  <2>1. ASSUME wjob'[v] = 0, wpc'[v] \in {"idle", "down"} PROVE HoldsJob(v)'
    BY <2>1 DEF HoldsJob
  <2>2. ASSUME wpc[v] \notin {"down", "idle"},
               wjob'[v] = wjob[v], watt'[v] = watt[v],
               wpc'[v] \notin {"down", "idle", "chunks", "save", "delete"},
               wpc'[v] \in IngestLabel \cup TerminalLabel
                 => jobs[wjob[v]].kind = "ingest"
        PROVE  HoldsJob(v)'
    BY <1>0, <2>0, <2>2 DEF HoldsJob, JobsKept
  <2>3. CASE WorkerStart(v)
    BY <1>0, <2>1, <2>3 DEF WorkerStart, HoldsJob, TypeOK
  <2>4. CASE Claim(v)
    <3>1. PICK i \in DOMAIN jobs :
            /\ jobs' \in Seq(JobRow)
            /\ DOMAIN jobs' = DOMAIN jobs
            /\ jobs[i].attempts + 1 \in 1..MaxAttempts
            /\ wjob' = [wjob EXCEPT ![v] = i]
            /\ watt' = [watt EXCEPT ![v] = jobs[i].attempts + 1]
            /\ wpc' = [wpc EXCEPT ![v] = IF jobs[i].kind = "ingest"
                                          THEN "get" ELSE "delete"]
      BY <1>0, <2>4, ClaimEffect
    <3>2. i # 0 /\ jobs'[i].kind = jobs[i].kind /\ jobs[i].kind \in JobKind
      <4>1. i # 0 /\ jobs[i] \in JobRow
        BY SMT, <1>0 DEF TypeOK
      <4> QED
        BY <2>0, <4>1 DEF JobsKept, JobRow
    <3>3. wjob'[v] = i /\ watt'[v] >= 1
          /\ wpc'[v] = IF jobs[i].kind = "ingest" THEN "get" ELSE "delete"
      BY SMTT(30), <1>0, <3>1, MaxAttemptsAssumption DEF TypeOK
    <3> QED
      BY SMTT(30), <3>1, <3>2, <3>3 DEF HoldsJob, JobKind
  <2>5. CASE IngestGet(v)
    BY <1>0, <2>2, <2>5 DEF IngestGet, HoldsJob, TypeOK
  <2>6. CASE IngestSummary(v)
    <3>1. /\ wpc[v] = "summary" /\ wpc'[v] = "chunks" /\ wnext'[v] = 1
          /\ wjob'[v] = wjob[v] /\ watt'[v] = watt[v]
      BY <1>0, <2>6 DEF IngestSummary, TypeOK
    <3>2. /\ wjob[v] # 0 /\ wjob[v] \in DOMAIN jobs /\ watt[v] >= 1
          /\ jobs[wjob[v]].kind = "ingest"
      BY <1>0, <3>1 DEF HoldsJob, IngestLabel
    <3>3. wjob[v] \in DOMAIN jobs' /\ jobs'[wjob[v]].kind = "ingest"
      BY <2>0, <3>2 DEF JobsKept
    <3>4. 1 \in 1..NChunks
      BY SMT, NChunksAssumption
    <3> QED
      BY <3>1, <3>2, <3>3, <3>4 DEF HoldsJob
  <2>7. CASE IngestChunk(v)
    <3>1. /\ wpc[v] = "chunks" /\ wnext'[v] = wnext[v] + 1
          /\ wpc'[v] = IF wnext[v] = NChunks THEN "save" ELSE "chunks"
          /\ wjob'[v] = wjob[v] /\ watt'[v] = watt[v]
      BY <1>0, <2>7 DEF IngestChunk, TypeOK
    <3>2. /\ wjob[v] # 0 /\ wjob[v] \in DOMAIN jobs /\ watt[v] >= 1
          /\ jobs[wjob[v]].kind = "ingest" /\ wnext[v] \in 1..NChunks
      BY <1>0, <3>1 DEF HoldsJob
    <3>3. wjob[v] \in DOMAIN jobs' /\ jobs'[wjob[v]].kind = "ingest"
      BY <2>0, <3>2 DEF JobsKept
    <3>4. IF wnext[v] = NChunks THEN wnext[v] + 1 = NChunks + 1
          ELSE wnext[v] + 1 \in 1..NChunks
      BY SMT, <3>2, NChunksAssumption
    <3>5. CASE wnext[v] = NChunks
      BY <3>1, <3>2, <3>3, <3>4, <3>5 DEF HoldsJob
    <3>6. CASE wnext[v] # NChunks
      BY <3>1, <3>2, <3>3, <3>4, <3>6 DEF HoldsJob
    <3> QED
      BY <3>5, <3>6
  <2>8. CASE IngestSave(v) \/ DeleteVectors(v) \/ ProcessFails(v)
    BY <1>0, <2>2, <2>8 DEF IngestSave, DeleteVectors, ProcessFails, TypeOK
  <2>9. CASE MarkCompleted(v) \/ MarkFailedRetry(v) \/ TerminalSave(v)
             \/ MarkErrors(v) \/ TerminalErrors(v) \/ Crash(v)
    BY <1>0, <2>1, <2>9 DEF MarkCompleted, MarkFailedRetry, TerminalSave,
       MarkErrors, TerminalErrors, Crash, Release, TypeOK
  <2>10. CASE MarkFailedTerminal(v)
    <3>1. CASE jobs[wjob[v]].kind = "ingest"
      BY <1>0, <2>2, <2>10, <3>1 DEF MarkFailedTerminal, TypeOK
    <3>2. CASE jobs[wjob[v]].kind # "ingest"
      BY SMT, <1>0, <2>1, <2>10, <3>2 DEF MarkFailedTerminal, Release, TypeOK
    <3> QED
      BY <3>1, <3>2
  <2>11. CASE TerminalGet(v)
    <3>1. CASE catalog[JobDoc(v)].status = "absent"
      BY <1>0, <2>1, <2>11, <3>1 DEF TerminalGet, Release, TypeOK
    <3>2. CASE catalog[JobDoc(v)].status # "absent"
      BY <1>0, <2>2, <2>11, <3>2 DEF TerminalGet, HoldsJob, TypeOK
    <3> QED
      BY <3>1, <3>2
  <2> QED
    BY <1>4, <2>3, <2>4, <2>5, <2>6, <2>7, <2>8, <2>9, <2>10, <2>11
       DEF WorkerStep, FaultStep
<1>5. CASE UNCHANGED vars
  BY <1>1, <1>5 DEF vars, JobsKept
<1> QED
  BY <1>2, <1>3, <1>4, <1>5 DEF Next

\* A document has no job before its Save call has come to Enqueue.
LEMMA SaveOKStep == IndInv /\ [Next]_vars => SaveOK'
<1> SUFFICES ASSUME IndInv, [Next]_vars, NEW d \in Docs, spc'[d] # "done",
                    NEW j \in DOMAIN jobs',
                    jobs'[j].doc = d, jobs'[j].kind = "ingest"
             PROVE  FALSE
  BY DEF SaveOK, JobsOf
<1> USE DEF IndInv
<1>0. TypeOK /\ SaveOK
  OBVIOUS
<1>1. ASSUME spc[d] # "done", j \in DOMAIN jobs, JobsKept PROVE FALSE
  BY <1>0, <1>1 DEF SaveOK, JobsOf, JobsKept
<1>2. ASSUME NEW e \in Docs, SaveStep(e) PROVE FALSE
  <2>0. JobsKept
    BY <1>2, RequestStepLocal
  <2>1. CASE SaveEnqueue(e)
    <3>1. e # d /\ spc[d] # "done"
      BY <1>0, <2>1 DEF SaveEnqueue, TypeOK
    <3>2. j \in DOMAIN jobs
      BY SMT, <1>0, <2>1, <3>1, EnqueueEffect DEF SaveEnqueue, JobKind
    <3> QED
      BY <1>1, <2>0, <3>1, <3>2
  <2>2. CASE SaveCatalog(e) \/ SaveAbort(e)
    BY <1>0, <1>1, <2>0, <2>2 DEF SaveCatalog, SaveAbort, TypeOK
  <2> QED
    BY <1>2, <2>1, <2>2 DEF SaveStep
<1>3. ASSUME NEW x \in Deleters, DeleteStep(x) PROVE FALSE
  <2> USE DEF saveVars
  <2>0. JobsKept /\ ddoc[x] \in Docs
    BY <1>0, <1>3, RequestStepLocal DEF TypeOK
  <2>1. CASE DeleteEnqueue(x)
    <3>1. j \in DOMAIN jobs
      BY SMT, <1>0, <2>0, <2>1, EnqueueEffect DEF DeleteEnqueue, JobKind
    <3> QED
      BY <1>1, <2>0, <2>1, <3>1 DEF DeleteEnqueue
  <2>2. CASE DeleteGet(x) \/ DeleteFlag(x) \/ DeleteRemove(x) \/ DeleteAbort(x)
    BY <1>1, <2>0, <2>2 DEF DeleteGet, DeleteFlag, DeleteRemove, DeleteAbort
  <2> QED
    BY <1>3, <2>1, <2>2 DEF DeleteStep
<1>4. ASSUME NEW w \in Workers, WorkerStep(w) \/ FaultStep(w) PROVE FALSE
  <2>1. JobsKept /\ spc' = spc
    BY <1>4, WorkerStepLocal DEF OthersKept
  <2>2. DOMAIN jobs' = DOMAIN jobs
    BY <1>4, WorkerStepRows
  <2> QED
    BY <1>1, <2>1, <2>2
<1>5. CASE UNCHANGED vars
  BY <1>1, <1>5 DEF vars, JobsKept
<1> QED
  BY <1>2, <1>3, <1>4, <1>5 DEF Next

\* Enqueue never makes a second active row, nor a second ingest row when the
\* document has none yet.
LEMMA EnqueueOneActive ==
  ASSUME TypeOK, OneActiveJob, NEW d \in Docs, NEW k \in JobKind, Enqueue(d, k),
         k = "ingest" => JobsOf(d, "ingest") = {}
  PROVE  OneActiveJob'
<1> SUFFICES ASSUME NEW i \in DOMAIN jobs', NEW j \in DOMAIN jobs',
                    jobs'[i].doc = jobs'[j].doc, jobs'[i].kind = jobs'[j].kind,
                    (Active(i)' /\ Active(j)') \/ jobs'[i].kind = "ingest",
                    i # j
             PROVE  FALSE
  BY DEF OneActiveJob
<1>0. /\ \A l \in DOMAIN jobs : l \in DOMAIN jobs' /\ jobs'[l] = jobs[l]
      /\ \A l \in DOMAIN jobs' : l \notin DOMAIN jobs =>
           /\ ActiveJobs(d, k) = {}
           /\ l = Len(jobs) + 1
           /\ jobs'[l].doc = d /\ jobs'[l].kind = k
  BY SMT, EnqueueEffect
<1>1. CASE i \in DOMAIN jobs /\ j \in DOMAIN jobs
  <2>1. jobs'[i] = jobs[i] /\ jobs'[j] = jobs[j]
    BY <1>0, <1>1
  <2>2. (Active(i)' => Active(i)) /\ (Active(j)' => Active(j))
    BY <2>1 DEF Active
  <2> QED
    BY <1>1, <2>1, <2>2 DEF OneActiveJob
<1>2. CASE i \notin DOMAIN jobs /\ j \in DOMAIN jobs
  BY SMT, <1>0, <1>2 DEF ActiveJobs, JobsOf, Active
<1>3. CASE i \in DOMAIN jobs /\ j \notin DOMAIN jobs
  BY SMT, <1>0, <1>3 DEF ActiveJobs, JobsOf, Active
<1>4. CASE i \notin DOMAIN jobs /\ j \notin DOMAIN jobs
  BY <1>0, <1>4
<1> QED
  BY <1>1, <1>2, <1>3, <1>4

\* No statement makes a second active row of a (doc, kind): Enqueue and
\* MarkFailed meet the unique index, the others only update active rows.
LEMMA OneActiveStep == IndInv /\ [Next]_vars => OneActiveJob'
<1> SUFFICES ASSUME IndInv, [Next]_vars PROVE OneActiveJob'
  OBVIOUS
<1>0. TypeOK /\ OneActiveJob /\ SaveOK
  BY DEF IndInv
<1>1. CASE UNCHANGED jobs
  BY <1>0, <1>1 DEF OneActiveJob, Active
<1>2. ASSUME NEW d \in Docs, SaveStep(d) PROVE OneActiveJob'
  <2>1. CASE SaveEnqueue(d)
    BY <1>0, <2>1, EnqueueOneActive DEF SaveEnqueue, SaveOK, JobKind
  <2> QED
    BY <1>1, <1>2, <2>1 DEF SaveStep, SaveCatalog, SaveAbort
<1>3. ASSUME NEW x \in Deleters, DeleteStep(x) PROVE OneActiveJob'
  <2>1. CASE DeleteEnqueue(x)
    <3>1. ddoc[x] \in Docs
      BY <1>0 DEF TypeOK
    <3> QED
      BY <1>0, <2>1, <3>1, EnqueueOneActive DEF DeleteEnqueue, JobKind
  <2> QED
    BY <1>1, <1>3, <2>1 DEF DeleteStep, DeleteGet, DeleteFlag, DeleteRemove,
       DeleteAbort
<1>4. ASSUME NEW w \in Workers, WorkerStep(w) \/ FaultStep(w) PROVE OneActiveJob'
  <2>1. /\ DOMAIN jobs' = DOMAIN jobs
        /\ \A j \in DOMAIN jobs : Active(j)' =>
             \/ Active(j)
             \/ ActiveJobs(jobs[j].doc, jobs[j].kind) = {}
                /\ \A i \in DOMAIN jobs : i # j => jobs'[i] = jobs[i]
    BY <1>4, WorkerStepRows
  <2>2. JobsKept
    BY <1>4, WorkerStepLocal
  <2> SUFFICES ASSUME NEW i \in DOMAIN jobs, NEW j \in DOMAIN jobs,
                      jobs[i].doc = jobs[j].doc, jobs[i].kind = jobs[j].kind,
                      (Active(i)' /\ Active(j)') \/ jobs[i].kind = "ingest",
                      i # j
               PROVE  FALSE
    BY <2>1, <2>2 DEF OneActiveJob, JobsKept
  <2>3. CASE jobs[i].kind = "ingest"
    BY <1>0, <2>3 DEF OneActiveJob
  <2>4. CASE Active(i)' /\ Active(j)'
    <3>1. CASE Active(i) /\ Active(j)
      BY <1>0, <3>1 DEF OneActiveJob
    <3>2. CASE ~Active(i)
      BY <2>1, <2>4, <3>2 DEF ActiveJobs, Active
    <3>3. CASE ~Active(j)
      BY <2>1, <2>4, <3>3 DEF ActiveJobs, Active
    <3> QED
      BY <3>1, <3>2, <3>3
  <2> QED
    BY <2>3, <2>4
<1> QED
  BY <1>1, <1>2, <1>3, <1>4 DEF Next, vars

\* A step never removes a chunk of a document whose deletion is not queued.
LEMMA VectorsStep ==
  ASSUME IndInv, [Next]_vars, NEW d \in Docs, JobsOf(d, "delete_vectors")' = {}
  PROVE  JobsOf(d, "delete_vectors") = {} /\ vectors[d] \subseteq vectors'[d]
<1> USE DEF IndInv
<1>0. JobsKept
  BY RowsKept
<1>1. JobsOf(d, "delete_vectors") = {}
  BY <1>0 DEF JobsOf, JobsKept
<1>2. CASE UNCHANGED vectors
  BY <1>1, <1>2
<1>3. ASSUME NEW w \in Workers, IngestSummary(w) \/ IngestChunk(w)
      PROVE  vectors[d] \subseteq vectors'[d]
  <2>1. TypeOK
    OBVIOUS
  <2>2. CASE IngestSummary(w)
    BY <2>1, <2>2 DEF IngestSummary, TypeOK
  <2>3. CASE IngestChunk(w)
    BY <2>1, <2>3 DEF IngestChunk, TypeOK
  <2> QED
    BY <1>3, <2>2, <2>3
<1>4. ASSUME NEW w \in Workers, DeleteVectors(w)
      PROVE  vectors[d] \subseteq vectors'[d]
  <2>1. HoldsJob(w) /\ wpc[w] = "delete"
    BY <1>4 DEF DeleteVectors, WorkerOK
  <2>2. JobDoc(w) # d
    BY <1>1, <2>1 DEF HoldsJob, JobsOf, JobDoc
  <2> QED
    BY <1>4, <2>2 DEF DeleteVectors, TypeOK
<1>5. UNCHANGED vectors \/ \E w \in Workers : IngestSummary(w) \/ IngestChunk(w)
                                            \/ DeleteVectors(w)
  BY DEF Next, vars, SaveStep, SaveCatalog, SaveEnqueue, SaveAbort, DeleteStep,
     DeleteGet, DeleteFlag, DeleteRemove, DeleteEnqueue, DeleteAbort, WorkerStep,
     FaultStep, WorkerStart, Claim, IngestGet, IngestSave, MarkCompleted,
     MarkFailedRetry, MarkFailedTerminal, TerminalGet, TerminalSave,
     ProcessFails, MarkErrors, TerminalErrors, Crash
<1> QED
  BY <1>1, <1>2, <1>3, <1>4, <1>5

\* A worker in the middle of ProcessIngest has every chunk stored that it has
\* upserted so far, unless the deletion of the document is queued.
LEMMA ChunksOKStep == IndInv /\ [Next]_vars => ChunksOK'
<1> SUFFICES ASSUME IndInv, [Next]_vars, NEW v \in Workers,
                    wpc'[v] \in {"chunks", "save"},
                    JobsOf(JobDoc(v), "delete_vectors")' = {}
             PROVE  /\ SummaryChunk(watt'[v]) \in vectors'[JobDoc(v)']
                    /\ \A i \in 1..NChunks :
                         i < wnext'[v] => BodyChunk(i) \in vectors'[JobDoc(v)']
  BY DEF ChunksOK, HasUpserted
<1> DEFINE d == JobDoc(v)
<1>0. TypeOK /\ HasUpserted(v) /\ HoldsJob(v)
  BY DEF IndInv, ChunksOK, WorkerOK
<1>1. ASSUME JobsKept, wpc[v] \in {"summary", "chunks", "save"}, wjob'[v] = wjob[v]
      PROVE  /\ d \in Docs /\ JobDoc(v)' = d
             /\ JobsOf(d, "delete_vectors") = {}
             /\ vectors[d] \subseteq vectors'[d]
  <2>1. wjob[v] \in DOMAIN jobs
    BY <1>0, <1>1 DEF HoldsJob
  <2>2. d \in Docs
    <3>1. jobs[wjob[v]] \in JobRow
      BY SMT, <1>0, <2>1 DEF TypeOK
    <3> QED
      BY <3>1 DEF JobDoc, JobRow
  <2>3. JobDoc(v)' = d
    BY <1>1, <2>1 DEF JobDoc, JobsKept
  <2>4. JobsOf(d, "delete_vectors")' = {}
    BY <2>3 DEF JobsOf
  <2> QED
    BY <2>2, <2>3, <2>4, VectorsStep
<1> HIDE DEF d
<1>2. ASSUME JobsKept, wpc'[v] = wpc[v], wjob'[v] = wjob[v], watt'[v] = watt[v],
             wnext'[v] = wnext[v]
      PROVE  /\ SummaryChunk(watt'[v]) \in vectors'[JobDoc(v)']
             /\ \A i \in 1..NChunks :
                  i < wnext'[v] => BodyChunk(i) \in vectors'[JobDoc(v)']
  BY <1>0, <1>1, <1>2 DEF HasUpserted, d
<1>3. CASE (\E e \in Docs : SaveStep(e)) \/ (\E x \in Deleters : DeleteStep(x))
  BY <1>2, <1>3, RequestStepLocal DEF wrkVars
<1>4. ASSUME NEW w \in Workers, WorkerStep(w) \/ FaultStep(w), w # v
      PROVE  /\ SummaryChunk(watt'[v]) \in vectors'[JobDoc(v)']
             /\ \A i \in 1..NChunks :
                  i < wnext'[v] => BodyChunk(i) \in vectors'[JobDoc(v)']
  BY <1>2, <1>4, WorkerStepLocal DEF OthersKept
<1>5. ASSUME WorkerStep(v) \/ FaultStep(v)
      PROVE  /\ SummaryChunk(watt'[v]) \in vectors'[JobDoc(v)']
             /\ \A i \in 1..NChunks :
                  i < wnext'[v] => BodyChunk(i) \in vectors'[JobDoc(v)']
  <2>0. JobsKept
    BY <1>5, WorkerStepLocal
  <2>1. IngestSummary(v) \/ IngestChunk(v)
    <3>1. wpc' \in [Workers -> WorkerLabel] /\ wpc \in [Workers -> WorkerLabel]
      BY TypeStep DEF TypeOK, IndInv
    <3>2. CASE Claim(v)
      <4>1. PICK i \in DOMAIN jobs :
              wpc' = [wpc EXCEPT ![v] = IF jobs[i].kind = "ingest"
                                        THEN "get" ELSE "delete"]
        BY <1>0, <3>2, ClaimEffect
      <4> QED
        BY <1>0, <3>1, <4>1
    <3>3. CASE IngestGet(v)
      BY <3>1, <3>3 DEF IngestGet, Goto
    <3>4. CASE WorkerStart(v) \/ IngestSave(v) \/ DeleteVectors(v)
               \/ MarkCompleted(v) \/ MarkFailedRetry(v) \/ TerminalSave(v)
               \/ FaultStep(v)
      BY <3>1, <3>4 DEF WorkerStart, IngestSave, DeleteVectors, MarkCompleted,
         MarkFailedRetry, TerminalSave, FaultStep, ProcessFails, MarkErrors,
         TerminalErrors, Crash, Goto
    <3>5. CASE MarkFailedTerminal(v)
      BY <3>1, <3>5 DEF MarkFailedTerminal, Goto
    <3>6. CASE TerminalGet(v)
      BY <3>1, <3>6 DEF TerminalGet, Goto
    <3> QED
      BY <1>5, <3>2, <3>3, <3>4, <3>5, <3>6 DEF WorkerStep
  <2>2. CASE IngestSummary(v)
    <3>1. /\ wpc[v] = "summary" /\ wjob'[v] = wjob[v] /\ watt'[v] = watt[v]
          /\ wnext'[v] = 1
      BY <1>0, <2>2 DEF IngestSummary, TypeOK
    <3>2. d \in Docs /\ JobDoc(v)' = d
      BY <1>1, <2>0, <3>1
    <3>3. SummaryChunk(watt[v]) \in vectors'[d]
      BY <1>0, <2>2, <3>2 DEF IngestSummary, TypeOK, d
    <3>4. SummaryChunk(watt'[v]) \in vectors'[JobDoc(v)']
      BY <3>1, <3>2, <3>3
    <3>5. ASSUME NEW i \in 1..NChunks PROVE ~(i < wnext'[v])
      <4>1. i \in Nat /\ 1 <= i
        BY SMT, NChunksAssumption
      <4> QED
        BY SMT, <3>1, <4>1
    <3> QED
      BY <3>4, <3>5
  <2>3. CASE IngestChunk(v)
    <3>1. /\ wpc[v] = "chunks" /\ wjob'[v] = wjob[v] /\ watt'[v] = watt[v]
          /\ wnext'[v] = wnext[v] + 1
      BY <1>0, <2>3 DEF IngestChunk, TypeOK
    <3>2. /\ d \in Docs /\ JobDoc(v)' = d /\ JobsOf(d, "delete_vectors") = {}
          /\ vectors[d] \subseteq vectors'[d]
      BY <1>1, <2>0, <3>1
    <3>3. BodyChunk(wnext[v]) \in vectors'[d]
      BY <1>0, <2>3, <3>2 DEF IngestChunk, TypeOK, d
    <3>4. /\ SummaryChunk(watt[v]) \in vectors[d]
          /\ \A i \in 1..NChunks : i < wnext[v] => BodyChunk(i) \in vectors[d]
      BY <1>0, <3>1, <3>2 DEF HasUpserted, d
    <3>5. wnext[v] \in Nat
      BY SMT, <1>0, NChunksAssumption DEF TypeOK
    <3>6. \A i \in 1..NChunks : i < wnext[v] + 1 => BodyChunk(i) \in vectors'[d]
      <4> SUFFICES ASSUME NEW i \in 1..NChunks, i < wnext[v] + 1
                   PROVE  BodyChunk(i) \in vectors'[d]
        OBVIOUS
      <4>1. i < wnext[v] \/ i = wnext[v]
        BY SMT, <3>5, NChunksAssumption
      <4> QED
        BY <3>2, <3>3, <3>4, <4>1
    <3> QED
      BY <3>1, <3>2, <3>4, <3>6
  <2> QED
    BY <2>1, <2>2, <2>3
<1>6. CASE UNCHANGED vars
  BY <1>2, <1>6 DEF vars, JobsKept
<1> QED
  BY <1>3, <1>4, <1>5, <1>6 DEF Next

\* Only IngestSave makes a row ready, and then all of its chunks are stored;
\* Delete and onJobTerminalFailure write back what they read.
LEMMA ReadyStep == IndInv /\ [Next]_vars => ReadyIsIndexed'
<1> SUFFICES ASSUME IndInv, [Next]_vars, NEW d \in Docs,
                    catalog'[d].status = "ready",
                    JobsOf(d, "delete_vectors")' = {}
             PROVE  Indexed(d, catalog[d].summary)'
  BY DEF ReadyIsIndexed
<1>0. TypeOK /\ ReadyIsIndexed
  BY DEF IndInv
<1>1. JobsOf(d, "delete_vectors") = {} /\ vectors[d] \subseteq vectors'[d]
  BY VectorsStep
<1>2. CASE catalog'[d] = catalog[d]
  BY <1>0, <1>1, <1>2 DEF ReadyIsIndexed, Indexed
<1>3. ASSUME NEW w \in Workers, IngestSave(w), catalog'[d] # catalog[d]
      PROVE  Indexed(d, catalog[d].summary)'
  <2>1. HoldsJob(w) /\ HasUpserted(w) /\ wpc[w] = "save"
    BY <1>3 DEF IndInv, WorkerOK, ChunksOK, IngestSave
  <2>2. wjob[w] \in DOMAIN jobs /\ wnext[w] = NChunks + 1
    BY <2>1 DEF HoldsJob
  <2>3. JobDoc(w) = d
    BY <1>0, <1>3 DEF IngestSave, TypeOK
  <2>4. /\ catalog'[d] = [wdoc[w] EXCEPT !.status = "ready", !.summary = watt[w]]
        /\ vectors' = vectors
    BY <1>0, <1>3, <2>3 DEF IngestSave, TypeOK
  <2>5. catalog'[d].summary = watt[w]
    BY SMT, <1>0, <2>4 DEF TypeOK, DocRow
  <2>6. /\ SummaryChunk(watt[w]) \in vectors[d]
        /\ \A i \in 1..NChunks : BodyChunk(i) \in vectors[d]
    <3>1. /\ SummaryChunk(watt[w]) \in vectors[d]
          /\ \A i \in 1..NChunks : i < wnext[w] => BodyChunk(i) \in vectors[d]
      BY <1>1, <2>1, <2>3 DEF HasUpserted
    <3>2. ASSUME NEW i \in 1..NChunks PROVE i < wnext[w]
      BY SMT, <2>2, NChunksAssumption
    <3> QED
      BY <3>1, <3>2
  <2> QED
    BY <2>4, <2>5, <2>6 DEF Indexed
<1>4. ASSUME NEW r \in DocRow, NEW st \in DocStatus,
             [r EXCEPT !.status = st].status = "ready"
      PROVE  st = "ready"
  BY <1>4 DEF DocRow
<1>5. ASSUME NEW e \in Docs, SaveStep(e) PROVE catalog'[d] = catalog[d]
  <2>0. catalog \in [Docs -> DocRow]
    BY <1>0 DEF TypeOK
  <2>1. CASE SaveCatalog(e)
    <3>1. catalog' = [catalog EXCEPT ![e] = [status |-> "processing", summary |-> 0]]
      BY <2>1 DEF SaveCatalog
    <3>2. e # d
      BY <2>0, <3>1
    <3> QED
      BY <2>0, <3>1, <3>2
  <2>2. CASE SaveEnqueue(e) \/ SaveAbort(e)
    BY <2>2 DEF SaveEnqueue, SaveAbort
  <2> QED
    BY <1>5, <2>1, <2>2 DEF SaveStep
<1>6. ASSUME NEW x \in Deleters, DeleteStep(x) PROVE catalog'[d] = catalog[d]
  <2>1. CASE DeleteFlag(x)
    <3>1. CASE ddoc[x] = d
      <4>1. catalog'[d] = [drow[x] EXCEPT !.status = "deleting"]
        BY <1>0, <2>1, <3>1 DEF DeleteFlag, TypeOK
      <4>2. drow[x] \in DocRow /\ "deleting" \in DocStatus
        BY <1>0 DEF TypeOK, DocStatus
      <4> QED
        BY <1>4, <4>1, <4>2
    <3>2. CASE ddoc[x] # d
      BY <1>0, <2>1, <3>2 DEF DeleteFlag, TypeOK
    <3> QED
      BY <3>1, <3>2
  <2>2. CASE DeleteRemove(x)
    BY <1>0, <2>2 DEF DeleteRemove, NoRow, TypeOK
  <2>3. CASE DeleteGet(x) \/ DeleteEnqueue(x) \/ DeleteAbort(x)
    BY <2>3 DEF DeleteGet, DeleteEnqueue, DeleteAbort
  <2> QED
    BY <1>6, <2>1, <2>2, <2>3 DEF DeleteStep
<1>7. ASSUME NEW w \in Workers, WorkerStep(w) \/ FaultStep(w), ~IngestSave(w)
      PROVE  catalog'[d] = catalog[d]
  <2>1. CASE TerminalSave(w)
    <3>1. CASE JobDoc(w) = d
      <4>1. catalog'[d] = [wdoc[w] EXCEPT !.status = "failed"]
        BY <1>0, <2>1, <3>1 DEF TerminalSave, TypeOK
      <4>2. wdoc[w] \in DocRow /\ "failed" \in DocStatus
        BY <1>0 DEF TypeOK, DocStatus
      <4> QED
        BY <1>4, <4>1, <4>2
    <3>2. CASE JobDoc(w) # d
      BY <1>0, <2>1, <3>2 DEF TerminalSave, TypeOK
    <3> QED
      BY <3>1, <3>2
  <2> QED
    BY <1>7, <2>1 DEF WorkerStep, FaultStep, WorkerStart, Claim, IngestGet,
       IngestSummary, IngestChunk, DeleteVectors, MarkCompleted, MarkFailedRetry,
       MarkFailedTerminal, TerminalGet, ProcessFails, MarkErrors, TerminalErrors,
       Crash
<1>8. CASE UNCHANGED vars
  BY <1>2, <1>8 DEF vars
<1> QED
  BY <1>2, <1>3, <1>5, <1>6, <1>7, <1>8 DEF Next

\* Every step keeps the invariant.
LEMMA IndInvStep == IndInv /\ [Next]_vars => IndInv'
BY TypeStep, WorkerOKStep, SaveOKStep, OneActiveStep, ChunksOKStep, ReadyStep
   DEF IndInv

\* The invariant holds throughout.
LEMMA Invariance == Spec => []IndInv
BY InitIndInv, IndInvStep, PTL DEF Spec

-----------------------------------------------------------------------------
(* Theorems *)

\* Whatever faults happen, the tables and the workers' local state keep their
\* types; in particular no row is claimed more than MaxAttempts times
\* (knowledge_ingest_jobs, Claim).
THEOREM TypeCorrect == Spec => []TypeOK
<1>1. IndInv => TypeOK
  BY DEF IndInv
<1> QED
  BY <1>1, Invariance, PTL

\* A (doc, kind) never has two active job rows, and a document never has two
\* ingest rows, even when a job outlives StaleAfter and its first worker
\* reports late (Enqueue, Claim, MarkFailed, RecoverStale).
THEOREM OneActiveJobHolds == Spec => []OneActiveJob
<1>1. IndInv => OneActiveJob
  BY DEF IndInv
<1> QED
  BY <1>1, Invariance, PTL

\* A ready document is completely indexed until its deletion is queued,
\* whatever crashes, retries and overlapping attempts came before
\* (ProcessIngest).
THEOREM ReadyIsIndexedHolds == Spec => []ReadyIsIndexed
<1>1. IndInv => ReadyIsIndexed
  BY DEF IndInv
<1> QED
  BY <1>1, Invariance, PTL

-----------------------------------------------------------------------------
(* When no job outlives StaleAfter while its worker lives *)

\* No row a live worker holds is taken for stale: none outlives StaleAfter, or
\* there is one server, which recovers stale rows only when it starts.
OneHolder == "slow" \notin Faults \/ \A v, w \in Workers : v = w

\* Then the row a worker holds stays running with the attempts it was claimed
\* with, and is held by it alone.
LEMMA HeldStep ==
  ASSUME OneHolder, IndInv, HeldOK, [Next]_vars
  PROVE  HeldOK'
<1>0. /\ TypeOK /\ ExclusiveClaim
      /\ \A v \in Workers : HoldsJob(v) /\ HeldRow(v)
  BY DEF IndInv, HeldOK, WorkerOK
<1>1. ASSUME UNCHANGED <<wpc, wjob, watt>>,
             \A v \in Workers : wjob[v] # 0 =>
               /\ jobs'[wjob[v]].status = jobs[wjob[v]].status
               /\ jobs'[wjob[v]].attempts = jobs[wjob[v]].attempts
      PROVE  HeldOK'
  BY <1>0, <1>1 DEF HeldOK, HeldRow, ExclusiveClaim
<1>2. CASE (\E d \in Docs : SaveStep(d)) \/ (\E x \in Deleters : DeleteStep(x))
  <2>1. UNCHANGED <<wpc, wjob, watt>>
    BY <1>2, RequestStepLocal DEF wrkVars
  <2>2. \A j \in DOMAIN jobs : jobs'[j] = jobs[j]
    <3>1. ASSUME NEW d \in Docs, SaveStep(d)
          PROVE  \A j \in DOMAIN jobs : jobs'[j] = jobs[j]
      <4>1. CASE SaveEnqueue(d)
        BY <1>0, <4>1, EnqueueEffect DEF SaveEnqueue, JobKind
      <4> QED
        BY <3>1, <4>1 DEF SaveStep, SaveCatalog, SaveAbort
    <3>2. ASSUME NEW x \in Deleters, DeleteStep(x)
          PROVE  \A j \in DOMAIN jobs : jobs'[j] = jobs[j]
      <4>1. CASE DeleteEnqueue(x)
        <5>1. ddoc[x] \in Docs
          BY <1>0 DEF TypeOK
        <5> QED
          BY <1>0, <4>1, <5>1, EnqueueEffect DEF DeleteEnqueue, JobKind
      <4> QED
        BY <3>2, <4>1 DEF DeleteStep, DeleteGet, DeleteFlag, DeleteRemove,
           DeleteAbort
    <3> QED
      BY <1>2, <3>1, <3>2
  <2> QED
    BY <1>0, <1>1, <2>1, <2>2 DEF HoldsJob
<1>3. ASSUME NEW w \in Workers, WorkerStep(w) \/ FaultStep(w) PROVE HeldOK'
  <2> USE DEF Goto
  <2>a. \A v \in Workers \ {w} :
          wpc'[v] = wpc[v] /\ wjob'[v] = wjob[v] /\ watt'[v] = watt[v]
    BY <1>3, WorkerStepLocal DEF OthersKept
  <2>b. \A v \in Workers : HeldRow(v) /\ (wjob[v] # 0 => wjob[v] \in DOMAIN jobs)
    BY <1>0 DEF HoldsJob
  <2>c. \A u, v \in Workers : u # v /\ wjob[u] # 0 => wjob[u] # wjob[v]
    BY <1>0 DEF ExclusiveClaim
  \* It is enough to look at the row of w and to leave the held rows alone.
  <2>0. ASSUME HeldRow(w)',
               wjob'[w] # 0 => \A v \in Workers \ {w} : wjob[v] # wjob'[w],
               \A v \in Workers \ {w} : wjob[v] # 0 =>
                 jobs'[wjob[v]] = jobs[wjob[v]]
        PROVE  HeldOK'
    <3>1. ASSUME NEW v \in Workers PROVE HeldRow(v)'
      <4>1. CASE v = w
        BY <2>0, <4>1
      <4>2. CASE v # w
        <5>1. wpc'[v] = wpc[v] /\ wjob'[v] = wjob[v] /\ watt'[v] = watt[v]
          BY <2>a, <4>2
        <5>2. wjob[v] # 0 => jobs'[wjob[v]] = jobs[wjob[v]]
          BY <2>0, <4>2
        <5>3. HeldRow(v)
          BY <2>b
        <5> QED
          BY <5>1, <5>2, <5>3 DEF HeldRow
      <4> QED
        BY <4>1, <4>2
    <3>2. ASSUME NEW u \in Workers, NEW v \in Workers, u # v, wjob'[u] # 0
          PROVE  wjob'[u] # wjob'[v]
      <4>1. CASE u = w
        BY <2>0, <2>a, <3>2, <4>1
      <4>2. CASE v = w
        BY <2>0, <2>a, <3>2, <4>2
      <4>3. CASE u # w /\ v # w
        BY <2>a, <2>c, <3>2, <4>3
      <4> QED
        BY <4>1, <4>2, <4>3
    <3> QED
      BY <3>1, <3>2 DEF HeldOK, ExclusiveClaim
  <2>1. ASSUME wjob'[w] = 0,
               \A j \in DOMAIN jobs : j # wjob[w] => jobs'[j] = jobs[j]
        PROVE  HeldOK'
    <3>1. HeldRow(w)'
      BY <2>1 DEF HeldRow
    <3>2. \A v \in Workers \ {w} : wjob[v] # 0 => jobs'[wjob[v]] = jobs[wjob[v]]
      BY <2>1, <2>b, <2>c
    <3> QED
      BY <2>0, <2>1, <3>1, <3>2
  <2>2. ASSUME wjob'[w] = wjob[w], watt'[w] = watt[w], UNCHANGED jobs,
               wpc[w] \in TerminalLabel <=> wpc'[w] \in TerminalLabel
        PROVE  HeldOK'
    <3>1. HeldRow(w)'
      BY <2>2, <2>b DEF HeldRow
    <3>2. wjob'[w] # 0 => \A v \in Workers \ {w} : wjob[v] # wjob'[w]
      BY <2>2, <2>c
    <3> QED
      BY <2>0, <2>2, <3>1, <3>2
  <2>3. CASE WorkerStart(w)
    <3>1. \A v \in Workers : wjob[v] # 0 => jobs'[wjob[v]] = jobs[wjob[v]]
      <4>1. CASE "slow" \notin Faults
        BY <1>0, <2>3, <4>1, RecoverEffect DEF WorkerStart, StaleRows, Held, HoldsJob
      <4>2. CASE \A v \in Workers : v = w
        BY <1>0, <2>3, <4>2 DEF WorkerStart, HoldsJob
      <4> QED
        BY <4>1, <4>2 DEF OneHolder
    <3>2. wjob'[w] = 0
      BY <1>0, <2>3 DEF WorkerStart, HoldsJob
    <3>3. HeldRow(w)'
      BY <3>2 DEF HeldRow
    <3> QED
      BY <2>0, <3>1, <3>2, <3>3
  <2>4. CASE Claim(w)
    <3>1. PICK i \in DOMAIN jobs :
            /\ Claimable(i)
            /\ \A j \in DOMAIN jobs : j # i => jobs'[j] = jobs[j]
            /\ jobs'[i].status = "running"
            /\ jobs'[i].attempts = jobs[i].attempts + 1
            /\ wjob' = [wjob EXCEPT ![w] = i]
            /\ watt' = [watt EXCEPT ![w] = jobs[i].attempts + 1]
            /\ wpc' = [wpc EXCEPT ![w] = IF jobs[i].kind = "ingest"
                                          THEN "get" ELSE "delete"]
      BY <1>0, <2>4, ClaimEffect
    <3>2. \A v \in Workers : wjob[v] # i
      <4>1. jobs \in Seq(JobRow)
        BY <1>0 DEF TypeOK
      <4>2. i # 0 /\ jobs[i].status = "pending"
        BY SMT, <3>1, <4>1 DEF Claimable
      <4> QED
        BY <2>b, <4>2 DEF HeldRow
    <3>3. /\ wjob'[w] = i /\ watt'[w] = jobs[i].attempts + 1
          /\ wpc'[w] \notin TerminalLabel
      BY <1>0, <3>1 DEF TypeOK, TerminalLabel
    <3>4. HeldRow(w)'
      BY <3>1, <3>3 DEF HeldRow
    <3>5. \A v \in Workers \ {w} : wjob[v] # 0 => jobs'[wjob[v]] = jobs[wjob[v]]
      BY <2>b, <3>1, <3>2
    <3> QED
      BY <2>0, <3>2, <3>3, <3>4, <3>5
  <2>5. CASE \/ IngestGet(w) \/ IngestSummary(w) \/ IngestChunk(w)
             \/ IngestSave(w) \/ DeleteVectors(w) \/ ProcessFails(w)
    BY <1>0, <2>2, <2>5 DEF IngestGet, IngestSummary, IngestChunk, IngestSave,
       DeleteVectors, ProcessFails, TerminalLabel, TypeOK
  <2>6. CASE MarkErrors(w) \/ TerminalErrors(w) \/ Crash(w) \/ TerminalSave(w)
    BY <1>0, <2>1, <2>6 DEF MarkErrors, TerminalErrors, Crash, TerminalSave,
       Release, TypeOK
  <2>7. CASE MarkCompleted(w)
    <3>1. wjob[w] \in DOMAIN jobs
      BY <1>0, <2>7 DEF MarkCompleted, HoldsJob
    <3>2. \A j \in DOMAIN jobs : j # wjob[w] => jobs'[j] = jobs[j]
      BY <1>0, <2>7, <3>1, StatusRow DEF MarkCompleted, JobStatus
    <3> QED
      BY <1>0, <2>1, <2>7, <3>2 DEF MarkCompleted, Release, TypeOK
  <2>8. CASE MarkFailedRetry(w)
    <3>1. wjob[w] \in DOMAIN jobs
      BY <1>0, <2>8 DEF MarkFailedRetry, HoldsJob
    <3>2. \A j \in DOMAIN jobs : j # wjob[w] => jobs'[j] = jobs[j]
      <4>1. CASE SetStatus(wjob[w], "pending")
        BY <1>0, <3>1, <4>1, StatusRow DEF JobStatus
      <4> QED
        BY <2>8, <4>1 DEF MarkFailedRetry
    <3> QED
      BY <1>0, <2>1, <2>8, <3>2 DEF MarkFailedRetry, Release, TypeOK
  <2>9. CASE MarkFailedTerminal(w)
    <3>1. wjob[w] \in DOMAIN jobs
      BY <1>0, <2>9 DEF MarkFailedTerminal, HoldsJob
    <3>2. /\ \A j \in DOMAIN jobs : j # wjob[w] => jobs'[j] = jobs[j]
          /\ jobs'[wjob[w]].status = "failed"
          /\ jobs'[wjob[w]].attempts = jobs[wjob[w]].attempts
      BY <1>0, <2>9, <3>1, StatusRow DEF MarkFailedTerminal, JobStatus
    <3>3. CASE jobs[wjob[w]].kind # "ingest"
      BY <1>0, <2>1, <2>9, <3>2, <3>3 DEF MarkFailedTerminal, Release, TypeOK
    <3>4. CASE jobs[wjob[w]].kind = "ingest"
      <4>1. /\ wpc'[w] \in TerminalLabel /\ wjob'[w] = wjob[w]
            /\ watt'[w] = watt[w]
        BY <1>0, <2>9, <3>4 DEF MarkFailedTerminal, TypeOK, TerminalLabel
      <4>2. HeldRow(w)'
        BY <2>b, <3>1, <3>2, <4>1 DEF HeldRow, HoldsJob
      <4>3. \A v \in Workers \ {w} : wjob[v] # 0 => jobs'[wjob[v]] = jobs[wjob[v]]
        BY <2>b, <2>c, <3>2
      <4>4. wjob'[w] # 0 => \A v \in Workers \ {w} : wjob[v] # wjob'[w]
        BY <2>c, <4>1
      <4> QED
        BY <2>0, <4>2, <4>3, <4>4
    <3> QED
      BY <3>3, <3>4
  <2>10. CASE TerminalGet(w)
    <3>1. CASE catalog[JobDoc(w)].status = "absent"
      BY <1>0, <2>1, <2>10, <3>1 DEF TerminalGet, Release, TypeOK
    <3>2. CASE catalog[JobDoc(w)].status # "absent"
      BY <1>0, <2>2, <2>10, <3>2 DEF TerminalGet, TypeOK, TerminalLabel
    <3> QED
      BY <3>1, <3>2
  <2> QED
    BY <1>3, <2>3, <2>4, <2>5, <2>6, <2>7, <2>8, <2>9, <2>10
       DEF WorkerStep, FaultStep
<1>4. CASE UNCHANGED vars
  BY <1>1, <1>4 DEF vars
<1> QED
  BY <1>2, <1>3, <1>4 DEF Next

\* No job is ever in the hands of two live workers, provided a live worker
\* finishes within StaleAfter (Claim, RecoverStale).
THEOREM ExclusiveClaimHolds ==
  ASSUME "slow" \notin Faults
  PROVE  Spec => []ExclusiveClaim
<1>1. Init => HeldOK
  BY DEF Init, HeldOK, HeldRow, ExclusiveClaim
<1>2. IndInv /\ HeldOK /\ [Next]_vars => HeldOK'
  BY HeldStep DEF OneHolder
<1>3. HeldOK => ExclusiveClaim
  BY DEF HeldOK
<1> QED
  BY <1>1, <1>2, <1>3, Invariance, PTL DEF Spec

\* Every step of the ingest system is a step of the job queue, or leaves the
\* table alone.
LEMMA QueueStep ==
  ASSUME "slow" \notin Faults, IndInv, HeldOK, [Next]_vars
  PROVE  [Queue!QNext]_jobs
<1>0. /\ TypeOK
      /\ \A v \in Workers : HoldsJob(v) /\ HeldRow(v)
  BY DEF IndInv, HeldOK, WorkerOK
<1>1. ASSUME NEW d \in Docs, NEW k \in JobKind, Enqueue(d, k)
      PROVE  [Queue!QNext]_jobs
  <2>1. CASE ActiveJobs(d, k) # {}
    BY <1>1, <2>1 DEF Enqueue
  <2>2. CASE ActiveJobs(d, k) = {}
    <3>1. Queue!Add(d, k)
      BY <1>1, <2>2 DEF Enqueue, ActiveJobs, Active, Queue!Add, Queue!IsActive
    <3> QED
      BY <3>1 DEF Queue!QNext
  <2> QED
    BY <2>1, <2>2
<1>2. ASSUME NEW d \in Docs, SaveStep(d) PROVE [Queue!QNext]_jobs
  BY <1>1, <1>2 DEF SaveStep, SaveCatalog, SaveEnqueue, SaveAbort, JobKind
<1>3. ASSUME NEW x \in Deleters, DeleteStep(x) PROVE [Queue!QNext]_jobs
  <2>1. ddoc[x] \in Docs
    BY <1>0 DEF TypeOK
  <2> QED
    BY <1>1, <1>3, <2>1 DEF DeleteStep, DeleteGet, DeleteFlag, DeleteRemove,
       DeleteEnqueue, DeleteAbort, JobKind
<1>4. ASSUME NEW w \in Workers, WorkerStep(w) \/ FaultStep(w)
      PROVE  [Queue!QNext]_jobs
  <2>1. CASE WorkerStart(w)
    <3>1. PICK S \in SUBSET StaleRows :
            jobs' = [j \in DOMAIN jobs |->
                       IF j \in S THEN [jobs[j] EXCEPT !.status = "pending"]
                                  ELSE jobs[j]]
      BY <2>1 DEF WorkerStart, RecoverStale
    <3>2. Queue!PutBack(S)
      BY <3>1 DEF Queue!PutBack, StaleRows
    <3>3. S \in SUBSET DOMAIN jobs
      BY DEF StaleRows
    <3> QED
      BY <3>2, <3>3 DEF Queue!QNext
  <2>2. CASE Claim(w)
    <3>1. PICK j \in DOMAIN jobs :
            OldestClaimable(j) /\ jobs' = [jobs EXCEPT ![j] = Claimed(jobs[j])]
      BY <2>2 DEF Claim
    <3>2. Queue!Take(j)
      BY <3>1 DEF Queue!Take, OldestClaimable, Claimable, Claimed
    <3> QED
      BY <3>2 DEF Queue!QNext
  <2>3. ASSUME wpc[w] \in {"succeeded", "failing"}
        PROVE  /\ wjob[w] \in DOMAIN jobs
               /\ jobs[wjob[w]].status = "running"
               /\ jobs[wjob[w]].attempts = watt[w]
    BY <1>0, <2>3 DEF HoldsJob, HeldRow, TerminalLabel
  <2>4. CASE MarkCompleted(w)
    <3>1. Queue!Finish(wjob[w])
      BY <2>3, <2>4 DEF MarkCompleted, SetStatus, Queue!Finish
    <3> QED
      BY <2>3, <2>4, <3>1 DEF MarkCompleted, Queue!QNext
  <2>5. CASE MarkFailedTerminal(w)
    <3>1. watt[w] = MaxAttempts
      <4>1. watt[w] \in 0..MaxAttempts /\ watt[w] >= MaxAttempts
        BY <1>0, <2>5 DEF MarkFailedTerminal, TypeOK
      <4> QED
        BY SMT, <4>1, MaxAttemptsAssumption
    <3>2. Queue!GiveUp(wjob[w])
      BY <2>3, <2>5, <3>1 DEF MarkFailedTerminal, SetStatus, Queue!GiveUp
    <3> QED
      BY <2>3, <2>5, <3>2 DEF MarkFailedTerminal, Queue!QNext
  <2>6. CASE MarkFailedRetry(w)
    <3>1. CASE SetStatus(wjob[w], "pending")
      <4>1. jobs' = [j \in DOMAIN jobs |->
                       IF j \in {wjob[w]}
                         THEN [jobs[j] EXCEPT !.status = "pending"]
                         ELSE jobs[j]]
        BY <1>0, <2>3, <2>6, <3>1 DEF MarkFailedRetry, SetStatus, TypeOK
      <4>2. Queue!PutBack({wjob[w]})
        BY <2>3, <2>6, <4>1 DEF MarkFailedRetry, Queue!PutBack
      <4>3. {wjob[w]} \in SUBSET DOMAIN jobs
        BY <2>3, <2>6 DEF MarkFailedRetry
      <4> QED
        BY <4>2, <4>3 DEF Queue!QNext
    <3> QED
      BY <2>6, <3>1 DEF MarkFailedRetry
  <2> QED
    BY <1>4, <2>1, <2>2, <2>4, <2>5, <2>6 DEF WorkerStep, FaultStep, IngestGet,
       IngestSummary, IngestChunk, IngestSave, DeleteVectors, ProcessFails,
       TerminalGet, TerminalSave, MarkErrors, TerminalErrors, Crash
<1> QED
  BY <1>2, <1>3, <1>4 DEF Next, vars

\* The job table implements the abstract JobQueue for every number of servers,
\* documents, requests and attempts, provided a live worker finishes within
\* StaleAfter: an ended job never runs again and fails only after its last
\* attempt (Enqueue, Claim, MarkCompleted, MarkFailed, RecoverStale).
THEOREM Refinement ==
  ASSUME "slow" \notin Faults
  PROVE  Spec => ImplementsJobQueue
<1>1. Init => Queue!QInit
  BY DEF Init, Queue!QInit
<1>2. Init => HeldOK
  BY DEF Init, HeldOK, HeldRow, ExclusiveClaim
<1>3. IndInv /\ HeldOK /\ [Next]_vars => HeldOK'
  BY HeldStep DEF OneHolder
<1>4. IndInv /\ HeldOK /\ [Next]_vars => [Queue!QNext]_jobs
  BY QueueStep
<1> QED
  BY <1>1, <1>2, <1>3, <1>4, Invariance, PTL
     DEF Spec, ImplementsJobQueue, Queue!QSpec

-----------------------------------------------------------------------------
(* Deletion and terminal failure *)

\* A row that is new is pending; Save queued it if it is an ingest row, and a
\* Delete call that has removed the catalog row otherwise.
LEMMA NewRow ==
  ASSUME IndInv, [Next]_vars, NEW j \in DOMAIN jobs', j \notin DOMAIN jobs
  PROVE  /\ jobs'[j].status = "pending" /\ jobs'[j].attempts = 0
         /\ jobs'[j].kind = "ingest" => spc[jobs'[j].doc] = "enqueue"
         /\ jobs'[j].kind = "delete_vectors" =>
              /\ UNCHANGED catalog
              /\ \E x \in Deleters : dpc[x] = "enqueue" /\ ddoc[x] = jobs'[j].doc
<1>0. TypeOK
  BY DEF IndInv
<1>1. ASSUME NEW d \in Docs, SaveStep(d)
      PROVE  /\ jobs'[j].status = "pending" /\ jobs'[j].attempts = 0 /\ jobs'[j].kind = "ingest"
             /\ spc[jobs'[j].doc] = "enqueue"
  <2>1. SaveEnqueue(d)
    BY <1>1 DEF SaveStep, SaveCatalog, SaveAbort
  <2>2. Enqueue(d, "ingest") /\ spc[d] = "enqueue"
    BY <2>1 DEF SaveEnqueue
  <2>3. jobs'[j] = [doc |-> d, kind |-> "ingest", status |-> "pending", attempts |-> 0]
    BY <1>0, <2>2, EnqueueEffect DEF JobKind
  <2>4. /\ jobs'[j].status = "pending" /\ jobs'[j].attempts = 0 /\ jobs'[j].kind = "ingest"
        /\ jobs'[j].doc = d
    BY SMT, <2>3
  <2> QED
    BY <2>2, <2>4
<1>2. ASSUME NEW x \in Deleters, DeleteStep(x)
      PROVE  /\ jobs'[j].status = "pending" /\ jobs'[j].attempts = 0 /\ jobs'[j].kind = "delete_vectors"
             /\ UNCHANGED catalog /\ dpc[x] = "enqueue" /\ ddoc[x] = jobs'[j].doc
  <2>1. DeleteEnqueue(x)
    BY <1>2 DEF DeleteStep, DeleteGet, DeleteFlag, DeleteRemove, DeleteAbort
  <2>2. /\ Enqueue(ddoc[x], "delete_vectors") /\ dpc[x] = "enqueue" /\ UNCHANGED catalog
        /\ ddoc[x] \in Docs
    BY <1>0, <2>1 DEF DeleteEnqueue, TypeOK
  <2>3. jobs'[j] = [doc |-> ddoc[x], kind |-> "delete_vectors",
                    status |-> "pending", attempts |-> 0]
    BY <1>0, <2>2, EnqueueEffect DEF JobKind
  <2>4. /\ jobs'[j].status = "pending" /\ jobs'[j].attempts = 0 /\ jobs'[j].kind = "delete_vectors"
        /\ jobs'[j].doc = ddoc[x]
    BY SMT, <2>3
  <2> QED
    BY <2>2, <2>4
<1>3. ~(\E w \in Workers : WorkerStep(w) \/ FaultStep(w))
  BY WorkerStepRows
<1> QED
  BY <1>1, <1>2, <1>3 DEF Next, vars

\* Ended rows stay as they are, and a row is completed by the worker that
\* holds it.
LEMMA EndedRow ==
  ASSUME IndInv, HeldOK, [Next]_vars, NEW j \in DOMAIN jobs
  PROVE  /\ jobs[j].status \in {"completed", "failed"} => jobs'[j].status = jobs[j].status
         /\ jobs'[j].status = "completed" =>
              \/ jobs[j].status = "completed"
              \/ \E w \in Workers : wjob[w] = j /\ MarkCompleted(w)
<1>0. /\ TypeOK
      /\ \A v \in Workers : HoldsJob(v) /\ HeldRow(v)
  BY DEF IndInv, HeldOK, WorkerOK
<1>1. CASE jobs'[j] = jobs[j]
  BY <1>1
<1>2. ASSUME NEW d \in Docs, SaveStep(d) PROVE jobs'[j] = jobs[j]
  <2>1. CASE SaveEnqueue(d)
    BY <1>0, <2>1, EnqueueEffect DEF SaveEnqueue, JobKind
  <2> QED
    BY <1>2, <2>1 DEF SaveStep, SaveCatalog, SaveAbort
<1>3. ASSUME NEW x \in Deleters, DeleteStep(x) PROVE jobs'[j] = jobs[j]
  <2>1. CASE DeleteEnqueue(x)
    <3>1. ddoc[x] \in Docs
      BY <1>0 DEF TypeOK
    <3> QED
      BY <1>0, <2>1, <3>1, EnqueueEffect DEF DeleteEnqueue, JobKind
  <2> QED
    BY <1>3, <2>1 DEF DeleteStep, DeleteGet, DeleteFlag, DeleteRemove, DeleteAbort
<1>4. ASSUME NEW w \in Workers, WorkerStep(w) \/ FaultStep(w)
      PROVE  /\ jobs[j].status \in {"completed", "failed"} => jobs'[j].status = jobs[j].status
             /\ jobs'[j].status = "completed" =>
                  jobs[j].status = "completed" \/ (wjob[w] = j /\ MarkCompleted(w))
  <2>0. wpc[w] \in {"succeeded", "failing"} =>
          wjob[w] \in DOMAIN jobs /\ jobs[wjob[w]].status = "running"
    BY <1>0 DEF HoldsJob, HeldRow, TerminalLabel
  <2>1. CASE WorkerStart(w)
    <3>1. jobs'[j] = jobs[j] \/ (/\ jobs[j].status = "running"
                                 /\ jobs'[j] = [jobs[j] EXCEPT !.status = "pending"])
      BY <1>0, <2>1, RecoverEffect DEF WorkerStart, StaleRows
    <3>2. jobs[j] \in JobRow
      BY SMT, <1>0 DEF TypeOK
    <3> QED
      BY <3>1, <3>2 DEF JobRow
  <2>2. CASE Claim(w)
    BY <1>0, <2>2, ClaimEffect DEF Claimable
  <2>3. CASE MarkCompleted(w)
    BY <1>0, <2>0, <2>3, StatusRow DEF MarkCompleted, JobStatus
  <2>4. CASE MarkFailedRetry(w)
    <3>1. CASE SetStatus(wjob[w], "pending")
      BY <1>0, <2>0, <2>4, <3>1, StatusRow DEF MarkFailedRetry, JobStatus
    <3> QED
      BY <2>4, <3>1 DEF MarkFailedRetry
  <2>5. CASE MarkFailedTerminal(w)
    BY <1>0, <2>0, <2>5, StatusRow DEF MarkFailedTerminal, JobStatus
  <2>6. CASE UNCHANGED jobs
    BY <2>6
  <2> QED
    BY <1>4, <2>1, <2>2, <2>3, <2>4, <2>5, <2>6
       DEF WorkerStep, FaultStep, IngestGet, IngestSummary, IngestChunk, IngestSave,
           DeleteVectors, ProcessFails, TerminalGet, TerminalSave, MarkErrors,
           TerminalErrors, Crash
<1> QED
  BY <1>1, <1>2, <1>3, <1>4 DEF Next, vars

\* Who writes the row of document d in the catalog.
LEMMA CatalogStep ==
  ASSUME IndInv, [Next]_vars, NEW d \in Docs
  PROVE  \/ catalog'[d] = catalog[d]
         \/ /\ spc[d] = "new" /\ spc'[d] = "enqueue"
            /\ catalog'[d].status = "processing"
         \/ /\ \E x \in Deleters : dpc[x] = "flag" /\ ddoc[x] = d
            /\ catalog'[d].status = "deleting"
         \/ catalog'[d].status = "absent"
         \/ /\ \E w \in Workers : IngestSave(w) /\ JobDoc(w) = d
            /\ catalog'[d].status = "ready"
         \/ /\ \E w \in Workers : TerminalSave(w) /\ JobDoc(w) = d
            /\ catalog'[d].status = "failed"
<1>0. /\ catalog \in [Docs -> DocRow] /\ drow \in [Deleters -> DocRow]
      /\ wdoc \in [Workers -> DocRow] /\ spc \in [Docs -> {"new", "enqueue", "done", "aborted"}]
  BY DEF IndInv, TypeOK
<1>1. ASSUME NEW e \in Docs, SaveCatalog(e)
      PROVE  \/ catalog'[d] = catalog[d]
             \/ /\ spc[d] = "new" /\ spc'[d] = "enqueue"
                /\ catalog'[d].status = "processing"
  BY <1>0, <1>1 DEF SaveCatalog
<1>2. ASSUME NEW x \in Deleters, DeleteFlag(x)
      PROVE  \/ catalog'[d] = catalog[d]
             \/ dpc[x] = "flag" /\ ddoc[x] = d /\ catalog'[d].status = "deleting"
  <2>1. [drow[x] EXCEPT !.status = "deleting"].status = "deleting"
    BY <1>0 DEF DocRow
  <2> QED
    BY <1>0, <1>2, <2>1 DEF DeleteFlag
<1>3. ASSUME NEW x \in Deleters, DeleteRemove(x)
      PROVE  catalog'[d] = catalog[d] \/ catalog'[d].status = "absent"
  BY <1>0, <1>3 DEF DeleteRemove, NoRow
<1>4. ASSUME NEW w \in Workers, IngestSave(w)
      PROVE  \/ catalog'[d] = catalog[d]
             \/ JobDoc(w) = d /\ catalog'[d].status = "ready"
  <2>1. [wdoc[w] EXCEPT !.status = "ready", !.summary = watt[w]].status = "ready"
    BY <1>0 DEF DocRow
  <2> QED
    BY <1>0, <1>4, <2>1 DEF IngestSave
<1>5. ASSUME NEW w \in Workers, TerminalSave(w)
      PROVE  \/ catalog'[d] = catalog[d]
             \/ JobDoc(w) = d /\ catalog'[d].status = "failed"
  <2>1. [wdoc[w] EXCEPT !.status = "failed"].status = "failed"
    BY <1>0 DEF DocRow
  <2> QED
    BY <1>0, <1>5, <2>1 DEF TerminalSave
<1>6. \/ UNCHANGED catalog
      \/ \E e \in Docs : SaveCatalog(e)
      \/ \E x \in Deleters : DeleteFlag(x) \/ DeleteRemove(x)
      \/ \E w \in Workers : IngestSave(w) \/ TerminalSave(w)
  BY SMT DEF Next, vars, SaveStep, SaveEnqueue, SaveAbort, DeleteStep, DeleteGet,
         DeleteEnqueue, DeleteAbort, WorkerStep, FaultStep, WorkerStart, Claim, IngestGet,
         IngestSummary, IngestChunk, DeleteVectors, MarkCompleted, MarkFailedRetry,
         MarkFailedTerminal, TerminalGet, ProcessFails, MarkErrors, TerminalErrors, Crash
<1> QED
  BY <1>1, <1>2, <1>3, <1>4, <1>5, <1>6

\* Save writes the catalog row before anyone can delete it, and once a Delete
\* call has flagged the row nothing makes it "processing" again.
FlagInv ==
  /\ \A d \in Docs : catalog[d].status # "absent" => spc[d] # "new"
  /\ \A x \in Deleters :
       /\ dpc[x] \in {"flag", "remove", "enqueue"} => spc[ddoc[x]] # "new"
       /\ dpc[x] \in {"remove", "enqueue"} => catalog[ddoc[x]].status # "processing"
  /\ \A d \in Docs : JobsOf(d, "delete_vectors") # {} =>
       spc[d] # "new" /\ catalog[d].status # "processing"

\* Only its own steps move a Delete call.
LEMMA OnlyDeleteMoves ==
  ASSUME [Next]_vars
  PROVE  (\E y \in Deleters : DeleteStep(y)) \/ UNCHANGED <<dpc, ddoc>>
<1>1. ASSUME NEW d \in Docs, SaveStep(d)
      PROVE  UNCHANGED <<dpc, ddoc>>
  BY <1>1 DEF SaveStep, SaveCatalog, SaveEnqueue, SaveAbort, delVars
<1>2. ASSUME NEW w \in Workers, WorkerStep(w)
      PROVE  UNCHANGED <<dpc, ddoc>>
  BY <1>2 DEF WorkerStep, WorkerStart, Claim, IngestGet, IngestSummary, IngestChunk,
           IngestSave, DeleteVectors, MarkCompleted, MarkFailedRetry, MarkFailedTerminal,
           TerminalGet, TerminalSave, delVars
<1>3. ASSUME NEW w \in Workers, FaultStep(w)
      PROVE  UNCHANGED <<dpc, ddoc>>
  BY <1>3 DEF FaultStep, ProcessFails, MarkErrors, TerminalErrors, Crash, delVars
<1>4. UNCHANGED vars => UNCHANGED <<dpc, ddoc>>
  BY DEF vars
<1> QED
  BY <1>1, <1>2, <1>3, <1>4 DEF Next

\* Where a Delete call can be after a step.
LEMMA DeleteMoves ==
  ASSUME IndInv, [Next]_vars, NEW x \in Deleters
  PROVE  /\ ddoc'[x] = ddoc[x]
         /\ dpc'[x] \in {"flag", "remove", "enqueue"} =>
              \/ dpc'[x] = dpc[x]
              \/ dpc'[x] = "flag" /\ catalog[ddoc[x]].status # "absent"
              \/ /\ dpc'[x] = "remove" /\ dpc[x] = "flag"
                 /\ catalog'[ddoc[x]].status = "deleting"
              \/ /\ dpc'[x] = "enqueue" /\ dpc[x] = "remove"
                 /\ catalog'[ddoc[x]].status = "absent"
<1>0. /\ catalog \in [Docs -> DocRow] /\ drow \in [Deleters -> DocRow]
      /\ DOMAIN dpc = Deleters /\ ddoc \in [Deleters -> Docs]
  BY DEF IndInv, TypeOK
<1>1. CASE UNCHANGED <<dpc, ddoc>>
  BY <1>1
<1>2. ASSUME NEW y \in Deleters, DeleteStep(y)
      PROVE  /\ ddoc'[x] = ddoc[x]
             /\ dpc'[x] \in {"flag", "remove", "enqueue"} =>
                  \/ dpc'[x] = dpc[x]
                  \/ dpc'[x] = "flag" /\ catalog[ddoc[x]].status # "absent"
                  \/ /\ dpc'[x] = "remove" /\ dpc[x] = "flag"
                     /\ catalog'[ddoc[x]].status = "deleting"
                  \/ /\ dpc'[x] = "enqueue" /\ dpc[x] = "remove"
                     /\ catalog'[ddoc[x]].status = "absent"
  <2>1. ddoc' = ddoc
    BY <1>2 DEF DeleteStep, DeleteGet, DeleteFlag, DeleteRemove, DeleteEnqueue, DeleteAbort
  <2>2. CASE DeleteGet(y)
    BY <1>0, <2>1, <2>2 DEF DeleteGet
  <2>3. CASE DeleteFlag(y)
    <3>1. [drow[y] EXCEPT !.status = "deleting"].status = "deleting"
      BY <1>0 DEF DocRow
    <3> QED
      BY <1>0, <2>1, <2>3, <3>1 DEF DeleteFlag
  <2>4. CASE DeleteRemove(y)
    BY <1>0, <2>1, <2>4 DEF DeleteRemove, NoRow
  <2>5. CASE DeleteEnqueue(y) \/ DeleteAbort(y)
    BY <1>0, <2>1, <2>5 DEF DeleteEnqueue, DeleteAbort
  <2> QED
    BY <1>2, <2>2, <2>3, <2>4, <2>5 DEF DeleteStep
<1>3. (\E y \in Deleters : DeleteStep(y)) \/ UNCHANGED <<dpc, ddoc>>
  BY OnlyDeleteMoves
<1> QED
  BY <1>1, <1>2, <1>3

\* A document is saved once.
LEMMA NotNewAgain ==
  ASSUME IndInv, [Next]_vars, NEW d \in Docs, spc[d] # "new"
  PROVE  spc'[d] # "new"
<1>0. DOMAIN spc = Docs
  BY DEF IndInv, TypeOK
<1>1. ASSUME NEW e \in Docs, SaveStep(e) PROVE spc'[d] # "new"
  BY <1>0, <1>1 DEF SaveStep, SaveCatalog, SaveEnqueue, SaveAbort
<1>2. (\E e \in Docs : SaveStep(e)) \/ UNCHANGED spc
  <2>1. ASSUME NEW w \in Workers, WorkerStep(w) \/ FaultStep(w) PROVE UNCHANGED spc
    BY <2>1, WorkerStepLocal DEF OthersKept
  <2> QED
    BY <2>1 DEF Next, vars, saveVars, DeleteStep, DeleteGet, DeleteFlag, DeleteRemove,
                DeleteEnqueue, DeleteAbort
<1> QED
  BY <1>1, <1>2

\* Every step keeps FlagInv.
LEMMA FlagStep == IndInv /\ FlagInv /\ [Next]_vars => FlagInv'
<1> SUFFICES ASSUME IndInv, FlagInv, [Next]_vars PROVE FlagInv'
  OBVIOUS
<1>0. /\ spc \in [Docs -> {"new", "enqueue", "done", "aborted"}]
      /\ ddoc \in [Deleters -> Docs] /\ TypeOK
  BY DEF IndInv, TypeOK
<1>1. \A d \in Docs : spc[d] # "new" => spc'[d] # "new"
  BY NotNewAgain
<1>2. \A d \in Docs : catalog'[d].status = "processing" =>
        catalog[d].status = "processing" \/ spc[d] = "new"
  BY CatalogStep
<1>3. ASSUME NEW d \in Docs, catalog'[d].status # "absent" PROVE spc'[d] # "new"
  <2>1. CASE catalog'[d] = catalog[d]
    BY <1>1, <1>3, <2>1 DEF FlagInv
  <2>2. CASE spc'[d] = "enqueue"
    BY <2>2
  <2>3. ASSUME NEW x \in Deleters, dpc[x] = "flag" /\ ddoc[x] = d PROVE spc'[d] # "new"
    BY <1>1, <2>3 DEF FlagInv
  <2>4. ASSUME NEW w \in Workers, IngestSave(w) \/ TerminalSave(w), JobDoc(w) = d
        PROVE  spc'[d] # "new"
    <3>1. HoldsJob(w) /\ SaveOK
      BY DEF IndInv, WorkerOK
    <3>2. wjob[w] \in JobsOf(d, "ingest")
      BY <2>4, <3>1 DEF IngestSave, TerminalSave, HoldsJob, IngestLabel, TerminalLabel,
                        JobDoc, JobsOf
    <3>3. spc[d] = "done"
      BY <3>1, <3>2 DEF SaveOK
    <3> QED
      BY <1>1, <3>3
  <2> QED
    BY <1>3, <2>1, <2>2, <2>3, <2>4, CatalogStep
<1>4. ASSUME NEW x \in Deleters
      PROVE  /\ dpc'[x] \in {"flag", "remove", "enqueue"} => spc'[ddoc'[x]] # "new"
             /\ dpc'[x] \in {"remove", "enqueue"} => catalog'[ddoc'[x]].status # "processing"
  <2>1. ddoc'[x] = ddoc[x] /\ ddoc[x] \in Docs
    BY <1>0, DeleteMoves
  <2>2. dpc'[x] \in {"flag", "remove", "enqueue"} =>
          dpc[x] \in {"flag", "remove", "enqueue"} \/ catalog[ddoc[x]].status # "absent"
    BY DeleteMoves
  <2>3. dpc'[x] \in {"flag", "remove", "enqueue"} => spc[ddoc[x]] # "new"
    BY <2>1, <2>2 DEF FlagInv
  <2>4. dpc'[x] \in {"remove", "enqueue"} =>
          \/ dpc[x] \in {"remove", "enqueue"}
          \/ catalog'[ddoc[x]].status \in {"deleting", "absent"}
    BY DeleteMoves
  <2>5. dpc'[x] \in {"remove", "enqueue"} => catalog'[ddoc[x]].status # "processing"
    BY <1>2, <2>1, <2>3, <2>4 DEF FlagInv
  <2> QED
    BY <1>1, <2>1, <2>3, <2>5
<1>5. ASSUME NEW d \in Docs, JobsOf(d, "delete_vectors")' # {}
      PROVE  spc'[d] # "new" /\ catalog'[d].status # "processing"
  <2>1. PICK j \in DOMAIN jobs' : jobs'[j].doc = d /\ jobs'[j].kind = "delete_vectors"
    BY <1>5 DEF JobsOf
  <2>2. CASE j \in DOMAIN jobs
    <3>1. JobsKept
      BY RowsKept
    <3>2. j \in JobsOf(d, "delete_vectors")
      BY <2>1, <2>2, <3>1 DEF JobsKept, JobsOf
    <3> QED
      BY <1>1, <1>2, <3>2 DEF FlagInv
  <2>3. CASE j \notin DOMAIN jobs
    <3>1. PICK x \in Deleters : dpc[x] = "enqueue" /\ ddoc[x] = d /\ catalog' = catalog
      BY <2>1, <2>3, NewRow
    <3> QED
      BY <1>1, <3>1 DEF FlagInv
  <2> QED
    BY <2>2, <2>3
<1> QED
  BY <1>3, <1>4, <1>5 DEF FlagInv

\* A failed document has had its one ingest job given up.
FailedInv ==
  \A d \in Docs : catalog[d].status = "failed" =>
    /\ JobsOf(d, "ingest") # {}
    /\ \A j \in JobsOf(d, "ingest") : jobs[j].status = "failed"

\* The rows of a document that has an ingest row keep their identity, and no
\* second one comes.
LEMMA IngestRows ==
  ASSUME IndInv, [Next]_vars, NEW d \in Docs, JobsOf(d, "ingest") # {}
  PROVE  JobsOf(d, "ingest")' = JobsOf(d, "ingest")
<1>1. JobsKept
  BY RowsKept
<1>2. spc[d] = "done"
  BY DEF IndInv, SaveOK
<1>3. ASSUME NEW j \in JobsOf(d, "ingest")' PROVE j \in JobsOf(d, "ingest")
  <2>1. j \in DOMAIN jobs' /\ jobs'[j].doc = d /\ jobs'[j].kind = "ingest"
    BY <1>3 DEF JobsOf
  <2>2. j \in DOMAIN jobs
    BY <1>2, <2>1, NewRow
  <2> QED
    BY <1>1, <2>1, <2>2 DEF JobsKept, JobsOf
<1>4. ASSUME NEW j \in JobsOf(d, "ingest") PROVE j \in JobsOf(d, "ingest")'
  BY <1>1, <1>4 DEF JobsKept, JobsOf
<1> QED
  BY <1>3, <1>4

\* Every step keeps FailedInv: onJobTerminalFailure comes after the row is
\* failed, and a failed row stays failed.
LEMMA FailedStep ==
  ASSUME IndInv, HeldOK, FailedInv, [Next]_vars PROVE FailedInv'
<1> SUFFICES ASSUME NEW d \in Docs, catalog'[d].status = "failed"
             PROVE  /\ JobsOf(d, "ingest")' # {}
                    /\ \A j \in JobsOf(d, "ingest")' : jobs'[j].status = "failed"
  BY DEF FailedInv
<1>1. /\ JobsOf(d, "ingest") # {}
      /\ \A j \in JobsOf(d, "ingest") : jobs[j].status = "failed"
  <2>1. CASE catalog'[d] = catalog[d]
    BY <2>1 DEF FailedInv
  <2>2. ASSUME NEW w \in Workers, TerminalSave(w), JobDoc(w) = d
        PROVE  /\ JobsOf(d, "ingest") # {}
               /\ \A j \in JobsOf(d, "ingest") : jobs[j].status = "failed"
    <3>1. HoldsJob(w) /\ HeldRow(w) /\ OneActiveJob /\ wpc[w] = "terminal_save"
      BY <2>2 DEF IndInv, WorkerOK, HeldOK, TerminalSave
    <3>2. wjob[w] \in JobsOf(d, "ingest") /\ jobs[wjob[w]].status = "failed"
      BY <2>2, <3>1 DEF HoldsJob, HeldRow, TerminalLabel, JobDoc, JobsOf
    <3>3. \A j \in JobsOf(d, "ingest") : j = wjob[w]
      BY <3>1, <3>2 DEF OneActiveJob, JobsOf
    <3> QED
      BY <3>2, <3>3
  <2> QED
    BY <2>1, <2>2, CatalogStep
<1>2. JobsOf(d, "ingest")' = JobsOf(d, "ingest")
  BY <1>1, IngestRows
<1>3. \A j \in JobsOf(d, "ingest") : jobs'[j].status = "failed"
  BY <1>1, EndedRow DEF JobsOf
<1> QED
  BY <1>1, <1>2, <1>3

\* With one server: an attempt that is upserting chunks has no completed
\* delete_vectors job of its document beside it, and a delete_vectors job that
\* succeeded has left no chunk.
PurgeInv ==
  /\ \A w \in Workers : wpc[w] \in {"summary", "chunks"} =>
       \A j \in JobsOf(JobDoc(w), "delete_vectors") : jobs[j].status # "completed"
  /\ \A w \in Workers :
       wpc[w] = "succeeded" /\ jobs[wjob[w]].kind = "delete_vectors"
         => vectors[JobDoc(w)] = {}
  /\ CompletedDeletePurges

\* An attempt starts to upsert only when no deletion of its document is queued:
\* the row it read is "processing" until a Delete call flags it.
LEMMA UpsertsEarly ==
  ASSUME IndInv, HeldOK, FlagInv, FailedInv, NEW w \in Workers, IngestGet(w),
         wpc'[w] = "summary"
  PROVE  JobsOf(JobDoc(w), "delete_vectors") = {}
<1>1. HoldsJob(w) /\ HeldRow(w) /\ TypeOK /\ wpc[w] = "get"
  BY DEF IndInv, WorkerOK, HeldOK, IngestGet
<1>2. wjob[w] \in JobsOf(JobDoc(w), "ingest") /\ jobs[wjob[w]].status = "running"
  <2>1. /\ wjob[w] # 0 /\ wjob[w] \in DOMAIN jobs
        /\ jobs[wjob[w]].kind = "ingest"
    BY <1>1 DEF HoldsJob, IngestLabel
  <2>2. jobs[wjob[w]].status = "running"
    BY <1>1, <2>1 DEF HeldRow, TerminalLabel
  <2> QED
    BY <2>1, <2>2 DEF JobDoc, JobsOf
<1>3. JobDoc(w) \in Docs
  <2>1. jobs \in Seq(JobRow) /\ wjob[w] \in DOMAIN jobs
    BY <1>1, <1>2 DEF TypeOK, JobsOf
  <2>2. jobs[wjob[w]] \in JobRow
    BY SMT, <2>1
  <2> QED
    BY <2>2 DEF JobDoc, JobRow
<1>4. catalog[JobDoc(w)].status \notin {"absent", "ready", "deleting"}
  BY <1>1 DEF IngestGet, Goto, TypeOK
<1>5. catalog[JobDoc(w)].status \in DocStatus
  BY <1>1, <1>3 DEF TypeOK, DocRow
<1>6. catalog[JobDoc(w)].status # "failed"
  BY <1>2, <1>3 DEF FailedInv
<1>7. catalog[JobDoc(w)].status = "processing"
  BY <1>4, <1>5, <1>6 DEF DocStatus
<1> QED
  BY <1>3, <1>7 DEF FlagInv

\* Every step of a single server and of the requests keeps PurgeInv.
LEMMA PurgeStep ==
  ASSUME \A v, w \in Workers : v = w,
         IndInv, HeldOK, FlagInv, FailedInv, PurgeInv, [Next]_vars
  PROVE  PurgeInv'
<1>0. /\ TypeOK /\ JobsKept /\ vectors \in [Docs -> SUBSET ChunkId]
      /\ \A w \in Workers : HoldsJob(w)
      /\ \A j \in DOMAIN jobs : jobs[j].doc \in Docs
  <2>1. TypeOK /\ JobsKept /\ \A w \in Workers : HoldsJob(w)
    BY RowsKept DEF IndInv, WorkerOK
  <2>2. jobs \in Seq(JobRow) /\ vectors \in [Docs -> SUBSET ChunkId]
    BY <2>1 DEF TypeOK
  <2>3. \A j \in DOMAIN jobs : jobs[j] \in JobRow
    BY SMT, <2>2
  <2> QED
    BY <2>1, <2>2, <2>3 DEF JobRow
\* A deletion completed by this step was held by the server, which had
\* succeeded.
<1>1. ASSUME NEW j \in DOMAIN jobs', jobs'[j].status = "completed"
      PROVE  /\ j \in DOMAIN jobs /\ jobs'[j].doc = jobs[j].doc /\ jobs'[j].kind = jobs[j].kind
             /\ \/ jobs[j].status = "completed"
                \/ \E w \in Workers : wjob[w] = j /\ MarkCompleted(w)
  BY <1>0, <1>1, NewRow, EndedRow DEF JobsKept
<1>2. \A w \in Workers : wjob[w] # 0 =>
        /\ jobs'[wjob[w]].doc = jobs[wjob[w]].doc /\ jobs'[wjob[w]].kind = jobs[wjob[w]].kind
        /\ jobs[wjob[w]].doc \in Docs
  BY <1>0 DEF HoldsJob, JobsKept
\* When the chunks and the place of the worker stay as they are.
<1>3. ASSUME UNCHANGED <<vectors, wpc, wjob>> PROVE PurgeInv'
  <2>1. ASSUME NEW j \in DOMAIN jobs', jobs'[j].status = "completed"
        PROVE  j \in DOMAIN jobs /\ jobs[j].status = "completed"
                 /\ jobs'[j].doc = jobs[j].doc /\ jobs'[j].kind = jobs[j].kind
    <3>1. \A w \in Workers : ~MarkCompleted(w)
      BY <1>0, <1>3 DEF MarkCompleted, Goto, TypeOK
    <3> QED
      BY <1>1, <2>1, <3>1
  <2>2. CompletedDeletePurges'
    BY <1>3, <2>1 DEF PurgeInv, CompletedDeletePurges
  <2>3. ASSUME NEW w \in Workers, wpc[w] \in {"summary", "chunks", "succeeded"}
        PROVE  wjob[w] # 0 /\ JobDoc(w)' = JobDoc(w)
                 /\ jobs'[wjob[w]].kind = jobs[wjob[w]].kind
    BY <1>0, <1>2, <1>3, <2>3 DEF HoldsJob, JobDoc
  <2>4. ASSUME NEW w \in Workers, wpc'[w] \in {"summary", "chunks"},
               NEW j \in JobsOf(JobDoc(w), "delete_vectors")'
        PROVE  jobs'[j].status # "completed"
    <3>1. JobDoc(w)' = JobDoc(w) /\ wpc[w] \in {"summary", "chunks"}
      BY <1>3, <2>3, <2>4
    <3>2. j \in DOMAIN jobs' /\ jobs'[j].doc = JobDoc(w) /\ jobs'[j].kind = "delete_vectors"
      BY <2>4, <3>1 DEF JobsOf
    <3> QED
      BY SMT, <2>1, <3>1, <3>2 DEF PurgeInv, JobsOf
  <2>5. ASSUME NEW w \in Workers, wpc'[w] = "succeeded",
               jobs'[wjob'[w]].kind = "delete_vectors"
        PROVE  vectors'[JobDoc(w)'] = {}
    BY <1>3, <2>3, <2>5 DEF PurgeInv
  <2> QED
    BY <2>2, <2>4, <2>5 DEF PurgeInv
<1>4. CASE (\E d \in Docs : SaveStep(d)) \/ (\E x \in Deleters : DeleteStep(x))
  <2>1. UNCHANGED <<wpc, wjob>>
    BY <1>4, RequestStepLocal DEF wrkVars
  <2>2. UNCHANGED vectors
    BY <1>4 DEF SaveStep, SaveCatalog, SaveEnqueue, SaveAbort, DeleteStep, DeleteGet,
                DeleteFlag, DeleteRemove, DeleteEnqueue, DeleteAbort
  <2> QED
    BY <1>3, <2>1, <2>2
<1>5. CASE UNCHANGED vars
  BY <1>3, <1>5 DEF vars
<1>6. ASSUME NEW w \in Workers, WorkerStep(w) \/ FaultStep(w) PROVE PurgeInv'
  <2> USE DEF Goto
  <2>0. /\ \A v \in Workers : v = w
        /\ wpc \in [Workers -> WorkerLabel] /\ wjob \in [Workers -> Nat] /\ HoldsJob(w)
    BY <1>0 DEF TypeOK
  \* Once the worker upserts nothing, has not just succeeded and completes
  \* nothing, the chunks of deleted documents are as before.
  <2>1. ASSUME wpc'[w] \notin {"summary", "chunks", "succeeded"}, UNCHANGED vectors,
               ~MarkCompleted(w)
        PROVE  PurgeInv'
    <3>1. CompletedDeletePurges'
      BY SMT, <1>1, <2>0, <2>1 DEF PurgeInv, CompletedDeletePurges
    <3> QED
      BY <2>0, <2>1, <3>1 DEF PurgeInv
  <2>2. CASE WorkerStart(w) \/ Claim(w)
    <3>1. wpc'[w] \in {"idle", "get", "delete"} /\ UNCHANGED vectors /\ wpc[w] # "succeeded"
      BY <2>0, <2>2 DEF WorkerStart, Claim
    <3> QED
      BY <2>1, <3>1 DEF MarkCompleted
  <2>3. CASE IngestGet(w)
    <3>1. UNCHANGED <<vectors, jobs, wjob>> /\ wpc[w] = "get"
      BY <2>3 DEF IngestGet
    <3>2. JobDoc(w)' = JobDoc(w) /\ jobs[wjob[w]].kind = "ingest"
      BY <2>0, <3>1 DEF JobDoc, HoldsJob, IngestLabel
    <3>3. wpc'[w] \in {"failing", "succeeded", "summary"}
      BY <2>0, <2>3 DEF IngestGet
    <3>4. CompletedDeletePurges'
      BY <3>1 DEF PurgeInv, CompletedDeletePurges
    <3>5. wpc'[w] = "summary" => JobsOf(JobDoc(w), "delete_vectors")' = {}
      BY SMT, <2>3, <3>1, <3>2, UpsertsEarly DEF JobsOf
    <3> QED
      BY <2>0, <3>1, <3>2, <3>3, <3>4, <3>5 DEF PurgeInv
  <2>4. CASE IngestSummary(w) \/ IngestChunk(w)
    <3>1. /\ wpc[w] \in {"summary", "chunks"} /\ wpc'[w] \in {"chunks", "save"}
          /\ UNCHANGED <<jobs, wjob>>
          /\ \E chunk : vectors' = [vectors EXCEPT ![JobDoc(w)] = @ \cup {chunk}]
      BY <2>0, <2>4 DEF IngestSummary, IngestChunk
    <3>2. JobDoc(w)' = JobDoc(w)
      BY <3>1 DEF JobDoc
    <3>3. \A j \in JobsOf(JobDoc(w), "delete_vectors") : jobs[j].status # "completed"
      BY <3>1 DEF PurgeInv
    <3>4. CompletedDeletePurges'
      <4>1. ASSUME NEW j \in DOMAIN jobs, jobs[j].kind = "delete_vectors",
                   jobs[j].status = "completed"
            PROVE  vectors'[jobs[j].doc] = {}
        <5>1. jobs[j].doc # JobDoc(w) /\ jobs[j].doc \in Docs
          BY <1>0, <3>3, <4>1 DEF JobsOf
        <5>2. vectors[jobs[j].doc] = {}
          BY <4>1 DEF PurgeInv, CompletedDeletePurges
        <5> QED
          BY <1>0, <3>1, <5>1, <5>2
      <4> QED
        BY <3>1, <4>1 DEF CompletedDeletePurges
    <3>5. JobsOf(JobDoc(w), "delete_vectors")' = JobsOf(JobDoc(w), "delete_vectors")
      BY <3>1, <3>2 DEF JobsOf
    <3> QED
      BY SMT, <2>0, <3>1, <3>3, <3>4, <3>5 DEF PurgeInv
  <2>5. CASE IngestSave(w)
    <3>1. /\ UNCHANGED <<vectors, jobs, wjob>> /\ wpc[w] = "save" /\ wpc'[w] = "succeeded"
      BY <2>0, <2>5 DEF IngestSave
    <3>2. jobs[wjob[w]].kind = "ingest"
      BY <2>0, <3>1 DEF HoldsJob, IngestLabel
    <3>3. CompletedDeletePurges'
      BY <3>1 DEF PurgeInv, CompletedDeletePurges
    <3> QED
      BY <2>0, <3>1, <3>2, <3>3 DEF PurgeInv
  <2>6. CASE DeleteVectors(w)
    <3>1. /\ UNCHANGED <<jobs, wjob>> /\ wpc[w] = "delete" /\ wpc'[w] = "succeeded"
          /\ vectors' = [vectors EXCEPT ![JobDoc(w)] = {}]
      BY <2>0, <2>6 DEF DeleteVectors
    <3>2. JobDoc(w)' = JobDoc(w) /\ JobDoc(w) \in Docs
      BY <1>2, <2>0, <3>1 DEF JobDoc, HoldsJob
    <3>3. CompletedDeletePurges'
      BY <1>0, <3>1, <3>2 DEF PurgeInv, CompletedDeletePurges
    <3> QED
      BY SMT, <1>0, <2>0, <3>1, <3>2, <3>3 DEF PurgeInv
  <2>7. CASE MarkCompleted(w)
    <3>1. /\ wpc[w] = "succeeded" /\ wpc'[w] = "idle" /\ UNCHANGED vectors
      BY <2>0, <2>7 DEF MarkCompleted
    <3>2. ASSUME NEW j \in DOMAIN jobs', jobs'[j].kind = "delete_vectors",
                 jobs'[j].status = "completed"
          PROVE  vectors'[jobs'[j].doc] = {}
      <4>1. /\ j \in DOMAIN jobs /\ jobs'[j].doc = jobs[j].doc /\ jobs'[j].kind = jobs[j].kind
            /\ jobs[j].status = "completed" \/ wjob[w] = j
        BY <1>1, <2>0, <3>2
      <4>2. CASE jobs[j].status = "completed"
        BY <3>1, <3>2, <4>1, <4>2 DEF PurgeInv, CompletedDeletePurges
      <4>3. CASE wjob[w] = j
        BY <3>1, <3>2, <4>1, <4>3 DEF PurgeInv, JobDoc
      <4> QED
        BY <4>1, <4>2, <4>3
    <3> QED
      BY <2>0, <3>1, <3>2 DEF PurgeInv, CompletedDeletePurges
  <2>8. CASE \/ ProcessFails(w) \/ MarkFailedRetry(w) \/ MarkFailedTerminal(w)
             \/ MarkErrors(w) \/ TerminalGet(w) \/ TerminalSave(w) \/ TerminalErrors(w)
             \/ Crash(w)
    <3>1. /\ wpc'[w] \in {"failing", "idle", "terminal_get", "terminal_save", "down"}
          /\ UNCHANGED vectors
      BY <2>0, <2>8 DEF ProcessFails, MarkFailedRetry, MarkFailedTerminal, MarkErrors,
                        TerminalGet, TerminalSave, TerminalErrors, Crash
    <3>2. CASE ~MarkCompleted(w)
      BY <2>1, <3>1, <3>2
    <3> QED
      BY <2>7, <3>2
  <2> QED
    BY <1>6, <2>2, <2>3, <2>4, <2>5, <2>6, <2>7, <2>8 DEF WorkerStep, FaultStep
<1> QED
  BY <1>4, <1>5, <1>6 DEF Next

\* With one server, whatever fails, crashes or is cut short, a document whose
\* delete_vectors job is completed has no chunk left in the vector store, and
\* gets none later: an attempt queued, retried or recovered after the deletion
\* finds no row it would index (Service.Delete, ProcessIngest,
\* ProcessDeleteVectors).
THEOREM CompletedDeletePurgesHolds ==
  ASSUME \A v, w \in Workers : v = w
  PROVE  Spec => []CompletedDeletePurges
<1> DEFINE Inv == HeldOK /\ FlagInv /\ FailedInv /\ PurgeInv
<1>0. OneHolder
  BY DEF OneHolder
<1>1. ASSUME Init PROVE Inv
  <2>1. /\ \A w \in Workers : wjob[w] = 0 /\ wpc[w] = "down"
        /\ \A x \in Deleters : dpc[x] = "idle"
        /\ \A d \in Docs : catalog[d].status = "absent"
        /\ DOMAIN jobs = {} /\ \A d \in Docs, k \in JobKind : JobsOf(d, k) = {}
    BY SMT, <1>1 DEF Init, NoRow, JobsOf
  <2>2. HeldOK
    BY <2>1 DEF HeldOK, HeldRow, ExclusiveClaim
  <2>3. FlagInv /\ FailedInv
    BY <2>1 DEF FlagInv, FailedInv, JobKind
  <2>4. PurgeInv
    BY <2>1 DEF PurgeInv, CompletedDeletePurges
  <2> QED
    BY <2>2, <2>3, <2>4
<1>2. IndInv /\ Inv /\ [Next]_vars => Inv'
  BY <1>0, HeldStep, FlagStep, FailedStep, PurgeStep
<1>3. Inv => CompletedDeletePurges
  BY DEF PurgeInv
<1> QED
  BY <1>1, <1>2, <1>3, Invariance, PTL DEF Spec

\* A ready document has had its one ingest job completed, or its worker is
\* about to report it.
ReadyInv ==
  \A d \in Docs : catalog[d].status = "ready" =>
    /\ JobsOf(d, "ingest") # {}
    /\ \A j \in JobsOf(d, "ingest") :
         \/ jobs[j].status = "completed"
         \/ \E w \in Workers : wjob[w] = j /\ wpc[w] = "succeeded"

\* Every step keeps ReadyInv when the report of a job that succeeded is not
\* lost.
LEMMA ReadyInvStep ==
  ASSUME "crash" \notin Faults, "mark" \notin Faults,
         IndInv, HeldOK, ReadyInv, [Next]_vars
  PROVE  ReadyInv'
<1>0. /\ TypeOK /\ JobsKept /\ OneActiveJob
      /\ \A w \in Workers : HoldsJob(w) /\ HeldRow(w)
  BY RowsKept DEF IndInv, WorkerOK, HeldOK
<1>1. ASSUME NEW d \in Docs, JobsOf(d, "ingest") # {},
             NEW j \in JobsOf(d, "ingest"), jobs[j].status = "completed"
      PROVE  jobs'[j].status = "completed"
  BY <1>1, EndedRow DEF JobsOf
<1>2. ASSUME NEW v \in Workers, wpc[v] = "succeeded"
      PROVE  \/ jobs'[wjob[v]].status = "completed"
             \/ wjob'[v] = wjob[v] /\ wpc'[v] = "succeeded"
  <2>1. CASE (\E d \in Docs : SaveStep(d)) \/ (\E x \in Deleters : DeleteStep(x))
    BY <1>2, <2>1, RequestStepLocal DEF wrkVars
  <2>2. ASSUME NEW w \in Workers, WorkerStep(w) \/ FaultStep(w), w # v
        PROVE  wjob'[v] = wjob[v] /\ wpc'[v] = "succeeded"
    BY <1>2, <2>2, WorkerStepLocal DEF OthersKept
  <2>3. ASSUME WorkerStep(v) \/ FaultStep(v)
        PROVE  jobs'[wjob[v]].status = "completed"
    <3>1. MarkCompleted(v)
      BY <1>2, <2>3 DEF WorkerStep, FaultStep, WorkerStart, Claim, IngestGet, IngestSummary,
         IngestChunk, IngestSave, DeleteVectors, MarkFailedRetry, MarkFailedTerminal,
         TerminalGet, TerminalSave, ProcessFails, MarkErrors, TerminalErrors, Crash
    <3>2. wjob[v] \in DOMAIN jobs
      BY <1>0, <1>2 DEF HoldsJob
    <3> QED
      BY <1>0, <3>1, <3>2, StatusRow DEF MarkCompleted, JobStatus
  <2>4. CASE UNCHANGED vars
    BY <1>2, <2>4 DEF vars
  <2> QED
    BY <2>1, <2>2, <2>3, <2>4 DEF Next
<1>3. ASSUME NEW d \in Docs, catalog'[d].status = "ready"
      PROVE  /\ JobsOf(d, "ingest")' # {}
             /\ \A j \in JobsOf(d, "ingest")' :
                  \/ jobs'[j].status = "completed"
                  \/ \E w \in Workers : wjob'[w] = j /\ wpc'[w] = "succeeded"
  <2>1. CASE catalog'[d] = catalog[d]
    <3>1. /\ JobsOf(d, "ingest") # {}
          /\ \A j \in JobsOf(d, "ingest") :
               \/ jobs[j].status = "completed"
               \/ \E w \in Workers : wjob[w] = j /\ wpc[w] = "succeeded"
      BY SMT, <1>3, <2>1 DEF ReadyInv
    <3>2. JobsOf(d, "ingest")' = JobsOf(d, "ingest")
      BY <3>1, IngestRows
    <3>3. ASSUME NEW j \in JobsOf(d, "ingest"), jobs'[j].status # "completed"
          PROVE  \E w \in Workers : wjob'[w] = j /\ wpc'[w] = "succeeded"
      <4>1. jobs[j].status # "completed"
        BY <1>1, <3>1, <3>3
      <4>2. PICK w \in Workers : wjob[w] = j /\ wpc[w] = "succeeded"
        BY <3>1, <4>1
      <4> QED
        BY <1>2, <3>3, <4>2
    <3> QED
      BY SMT, <3>1, <3>2, <3>3
  <2>2. ASSUME NEW w \in Workers, IngestSave(w), JobDoc(w) = d
        PROVE  /\ JobsOf(d, "ingest")' # {}
               /\ \A j \in JobsOf(d, "ingest")' : wjob'[w] = j /\ wpc'[w] = "succeeded"
    <3>1. /\ wpc[w] = "save" /\ wpc'[w] = "succeeded" /\ UNCHANGED <<jobs, wjob>>
      BY <1>0, <2>2 DEF IngestSave, Goto, TypeOK
    <3>2. wjob[w] \in JobsOf(d, "ingest")
      BY <1>0, <2>2, <3>1 DEF HoldsJob, IngestLabel, JobDoc, JobsOf
    <3>3. \A j \in JobsOf(d, "ingest") : j = wjob[w]
      BY <1>0, <3>2 DEF OneActiveJob, JobsOf
    <3>4. JobsOf(d, "ingest")' = JobsOf(d, "ingest")
      BY <3>1 DEF JobsOf
    <3> QED
      BY <3>1, <3>2, <3>3, <3>4
  <2> QED
    BY <1>3, <2>1, <2>2, CatalogStep
<1> QED
  BY <1>3 DEF ReadyInv

\* For any number of servers: onJobTerminalFailure never turns a ready document
\* into a failed one, as long as no server crashes or outlives StaleAfter and
\* no report to the job table fails (handleJob, MarkCompleted, MarkFailed).
THEOREM ReadyNeverFailsHolds ==
  ASSUME "crash" \notin Faults, "mark" \notin Faults, "slow" \notin Faults
  PROVE  Spec => ReadyNeverFails
<1> DEFINE Inv == HeldOK /\ ReadyInv
<1>0. OneHolder
  BY DEF OneHolder
<1>1. ASSUME Init PROVE Inv
  <2>1. /\ \A w \in Workers : wjob[w] = 0
        /\ \A d \in Docs : catalog[d].status = "absent"
    BY <1>1 DEF Init, NoRow
  <2> QED
    BY <2>1 DEF HeldOK, HeldRow, ExclusiveClaim, ReadyInv
<1>2. IndInv /\ Inv /\ [Next]_vars => Inv'
  BY <1>0, HeldStep, ReadyInvStep
<1>3. ASSUME IndInv, Inv, [Next]_vars, NEW d \in Docs, catalog[d].status = "ready"
      PROVE  catalog'[d].status # "failed"
  <2>1. ASSUME NEW w \in Workers, TerminalSave(w), JobDoc(w) = d PROVE FALSE
    <3>1. HoldsJob(w) /\ (\A v \in Workers : HeldRow(v)) /\ wpc[w] = "terminal_save"
      BY <1>3, <2>1 DEF IndInv, WorkerOK, HeldOK, TerminalSave
    <3>2. wjob[w] \in JobsOf(d, "ingest") /\ jobs[wjob[w]].status = "failed"
      BY <2>1, <3>1 DEF HoldsJob, HeldRow, TerminalLabel, JobDoc, JobsOf
    <3>3. PICK v \in Workers : wjob[v] = wjob[w] /\ wpc[v] = "succeeded"
      BY <1>3, <3>2 DEF ReadyInv
    <3>4. jobs[wjob[v]].status = "running"
      BY <3>1, <3>3 DEF HeldRow, HoldsJob, TerminalLabel
    <3> QED
      BY <3>2, <3>3, <3>4
  <2> QED
    BY <1>3, <2>1, CatalogStep
<1>4. IndInv /\ Inv /\ [Next]_vars =>
        [\A d \in Docs : catalog[d].status = "ready" => catalog'[d].status # "failed"]_vars
  BY <1>3
<1> QED
  BY <1>1, <1>2, <1>4, Invariance, PTL DEF Spec, ReadyNeverFails

-----------------------------------------------------------------------------
(* What brings a deleted document back *)

\* Where a worker holds the catalog row it is going to write back.
RowLabel == {"summary", "chunks", "save", "terminal_save"}

\* A worker or another Delete call has read the catalog row of d and is going
\* to write it.
RowRead(d) ==
  \/ \E w \in Workers : wpc[w] \in RowLabel /\ JobDoc(w) = d
  \/ \E x \in Deleters : dpc[x] = "flag" /\ ddoc[x] = d

\* catalog.Delete is called only while nobody holds the row.
QuietRemoval == \A x \in Deleters : DeleteRemove(x) => ~RowRead(ddoc[x])

\* A removed row is gone, and nobody holds a copy of it.
RemovedInv ==
  \A x \in Deleters : dpc[x] \in {"enqueue", "ok"} =>
    /\ spc[ddoc[x]] # "new" /\ catalog[ddoc[x]].status = "absent"
    /\ ~RowRead(ddoc[x])

\* A worker that comes to hold a row has found it in the catalog.
LEMMA RowReader ==
  ASSUME IndInv, [Next]_vars, NEW w \in Workers, wpc'[w] \in RowLabel
  PROVE  /\ JobDoc(w)' = JobDoc(w)
         /\ wpc[w] \in RowLabel \/ catalog[JobDoc(w)].status # "absent"
<1>0. /\ JobsKept /\ HoldsJob(w) /\ DOMAIN wpc = Workers /\ DOMAIN wjob = Workers
  BY RowsKept DEF IndInv, WorkerOK, TypeOK
<1>1. ASSUME wjob'[w] = wjob[w], wpc[w] \notin {"down", "idle"}
      PROVE  JobDoc(w)' = JobDoc(w)
  BY <1>0, <1>1 DEF HoldsJob, JobsKept, JobDoc
<1>2. ASSUME wpc'[w] = wpc[w], wjob'[w] = wjob[w]
      PROVE  JobDoc(w)' = JobDoc(w) /\ wpc[w] \in RowLabel
  BY <1>1, <1>2 DEF RowLabel
<1>3. CASE (\E d \in Docs : SaveStep(d)) \/ (\E x \in Deleters : DeleteStep(x))
  BY <1>2, <1>3, RequestStepLocal DEF wrkVars
<1>4. ASSUME NEW v \in Workers, v # w, WorkerStep(v) \/ FaultStep(v)
      PROVE  wpc'[w] = wpc[w] /\ wjob'[w] = wjob[w]
  BY <1>4, WorkerStepLocal DEF OthersKept
<1>5. ASSUME WorkerStep(w) \/ FaultStep(w)
      PROVE  /\ JobDoc(w)' = JobDoc(w)
             /\ wpc[w] \in RowLabel \/ catalog[JobDoc(w)].status # "absent"
  <2>1. \/ IngestGet(w) \/ IngestSummary(w) \/ IngestChunk(w) \/ TerminalGet(w)
    BY <1>0, <1>5 DEF WorkerStep, FaultStep, WorkerStart, Claim, IngestSave, DeleteVectors,
         MarkCompleted, MarkFailedRetry, MarkFailedTerminal, TerminalSave, ProcessFails,
         MarkErrors, TerminalErrors, Crash, Goto, RowLabel
  <2>2. CASE IngestGet(w)
    BY <1>0, <1>1, <2>2 DEF IngestGet, Goto, RowLabel
  <2>3. CASE IngestSummary(w) \/ IngestChunk(w)
    BY <1>1, <2>3 DEF IngestSummary, IngestChunk, RowLabel
  <2>4. CASE TerminalGet(w)
    BY <1>0, <1>1, <2>4 DEF TerminalGet, Goto, RowLabel
  <2> QED
    BY <2>1, <2>2, <2>3, <2>4
<1>6. CASE UNCHANGED vars
  BY <1>2, <1>6 DEF vars, wrkVars
<1> QED
  BY <1>2, <1>3, <1>4, <1>5, <1>6 DEF Next

\* Where a Delete call that has removed the row comes from.
LEMMA RemovedMoves ==
  ASSUME IndInv, [Next]_vars, NEW x \in Deleters, dpc'[x] \in {"enqueue", "ok"}
  PROVE  dpc[x] \in {"enqueue", "ok"} \/ DeleteRemove(x)
<1>0. DOMAIN dpc = Deleters
  BY DEF IndInv, TypeOK
<1>1. ASSUME NEW y \in Deleters, DeleteStep(y)
      PROVE  dpc[x] \in {"enqueue", "ok"} \/ DeleteRemove(x)
  <2>1. CASE y = x
    BY <1>0, <1>1, <2>1 DEF DeleteStep, DeleteGet, DeleteFlag, DeleteEnqueue, DeleteAbort
  <2>2. CASE y # x
    BY <1>0, <1>1, <2>2 DEF DeleteStep, DeleteGet, DeleteFlag, DeleteRemove, DeleteEnqueue,
                            DeleteAbort
  <2> QED
    BY <2>1, <2>2
<1>2. (\E y \in Deleters : DeleteStep(y)) \/ UNCHANGED dpc
  BY OnlyDeleteMoves
<1> QED
  BY <1>1, <1>2

\* Every step keeps RemovedInv when catalog.Delete finds nobody holding the row.
LEMMA RemovedStep ==
  ASSUME IndInv, FlagInv, RemovedInv, [Next]_vars, [QuietRemoval]_vars
  PROVE  RemovedInv'
<1>0. /\ ddoc \in [Deleters -> Docs] /\ catalog \in [Docs -> DocRow]
      /\ DOMAIN dpc = Deleters
  BY DEF IndInv, TypeOK
<1>1. ASSUME NEW d \in Docs, spc[d] # "new", catalog[d].status = "absent", ~RowRead(d)
      PROVE  spc'[d] # "new" /\ catalog'[d].status = "absent" /\ ~RowRead(d)'
  <2>1. spc'[d] # "new"
    BY <1>1, NotNewAgain
  <2>2. /\ ~(\E x \in Deleters : dpc[x] = "flag" /\ ddoc[x] = d)
        /\ ~(\E w \in Workers : (IngestSave(w) \/ TerminalSave(w)) /\ JobDoc(w) = d)
    BY <1>1 DEF RowRead, RowLabel, IngestSave, TerminalSave
  <2>3. catalog'[d].status = "absent"
    BY <1>1, <2>2, CatalogStep
  <2>4. ASSUME NEW w \in Workers, wpc'[w] \in RowLabel, JobDoc(w)' = d PROVE FALSE
    BY <1>1, <2>4, RowReader DEF RowRead
  <2>5. ASSUME NEW y \in Deleters, dpc'[y] = "flag", ddoc'[y] = d PROVE FALSE
    <3>1. ddoc[y] = d /\ (dpc[y] = "flag" \/ catalog[d].status # "absent")
      BY <2>5, DeleteMoves
    <3> QED
      BY <1>1, <3>1 DEF RowRead
  <2> QED
    BY <2>1, <2>3, <2>4, <2>5 DEF RowRead
<1>2. ASSUME NEW x \in Deleters, DeleteRemove(x)
      PROVE  /\ spc'[ddoc[x]] # "new" /\ catalog'[ddoc[x]].status = "absent"
             /\ ~RowRead(ddoc[x])' /\ ddoc' = ddoc
  <2>1. /\ dpc[x] = "remove" /\ dpc' = [dpc EXCEPT ![x] = "enqueue"]
        /\ catalog' = [catalog EXCEPT ![ddoc[x]] = NoRow]
        /\ UNCHANGED <<jobs, spc, ddoc, wpc, wjob>>
    BY <1>2 DEF DeleteRemove, saveVars, wrkVars
  <2>2. vars' # vars
    BY <1>0, <2>1 DEF vars, delVars
  <2>3. ~RowRead(ddoc[x])
    BY <1>2, <2>2 DEF QuietRemoval
  <2>4. spc[ddoc[x]] # "new"
    BY <2>1 DEF FlagInv
  <2>5. catalog'[ddoc[x]].status = "absent"
    BY <1>0, <2>1 DEF NoRow
  <2>6. \A y \in Deleters : dpc'[y] = "flag" => dpc[y] = "flag"
    BY <1>0, <2>1
  <2>7. ~RowRead(ddoc[x])'
    BY <2>1, <2>3, <2>6 DEF RowRead, JobDoc
  <2> QED
    BY <2>1, <2>4, <2>5, <2>7
<1> SUFFICES ASSUME NEW x \in Deleters, dpc'[x] \in {"enqueue", "ok"}
             PROVE  /\ spc'[ddoc'[x]] # "new" /\ catalog'[ddoc'[x]].status = "absent"
                    /\ ~RowRead(ddoc[x])'
  BY DEF RemovedInv
<1>3. ddoc'[x] = ddoc[x] /\ ddoc[x] \in Docs
  BY <1>0, DeleteMoves
<1>4. CASE dpc[x] \in {"enqueue", "ok"}
  <2>1. PICK d \in Docs : d = ddoc[x]
    BY <1>3
  <2>2. spc[d] # "new" /\ catalog[d].status = "absent" /\ ~RowRead(d)
    BY <1>4, <2>1 DEF RemovedInv
  <2>3. spc'[d] # "new" /\ catalog'[d].status = "absent" /\ ~RowRead(d)'
    BY <1>1, <2>2
  <2> QED
    BY <1>3, <2>1, <2>3 DEF RowRead
<1>5. CASE DeleteRemove(x)
  BY <1>2, <1>3, <1>5 DEF RowRead
<1> QED
  BY <1>4, <1>5, RemovedMoves

\* A Delete call that has returned leaves its document deleted, under every set
\* of faults, provided catalog.Delete is called while no worker and no other
\* Delete call holds a copy of the row: a copy written back by the upsert of
\* catalog.Save is all that brings a deleted document back (service.go:253-256,
\* pipeline.go:88, 227, 260).
THEOREM DeletedStaysDeletedQuiet ==
  Spec /\ [][QuietRemoval]_vars => []DeletedStaysDeleted
<1> DEFINE Inv == FlagInv /\ RemovedInv
<1>1. ASSUME Init PROVE Inv
  <2>1. /\ \A x \in Deleters : dpc[x] = "idle"
        /\ \A d \in Docs : catalog[d].status = "absent"
        /\ \A d \in Docs, k \in JobKind : JobsOf(d, k) = {}
    BY SMT, <1>1 DEF Init, NoRow, JobsOf
  <2> QED
    BY <2>1 DEF FlagInv, RemovedInv, JobKind
<1>2. IndInv /\ Inv /\ [Next]_vars /\ [QuietRemoval]_vars => Inv'
  BY FlagStep, RemovedStep
<1>3. Inv => DeletedStaysDeleted
  BY DEF RemovedInv, DeletedStaysDeleted
<1> QED
  BY <1>1, <1>2, <1>3, Invariance, PTL DEF Spec

-----------------------------------------------------------------------------
(* Who will take a processing document further *)

\* Row j is to index a document that is still processing.
Open(j) == jobs[j].kind = "ingest" /\ catalog[jobs[j].doc].status = "processing"

\* The worker that made the latest claim of row j still has it.
InHand(j) == \E w \in Workers : wjob[w] = j /\ watt[w] = jobs[j].attempts

\* A document that is processing and queued can be claimed, or a worker has it.
NotStranded ==
  \A j \in DOMAIN jobs : Open(j) => Claimable(j) \/ \E w \in Workers : wjob[w] = j

\* A worker's attempt is the row's latest or an earlier one.
AttemptsOK ==
  \A w \in Workers : wjob[w] # 0 => watt[w] <= jobs[wjob[w]].attempts

\* A worker that reports an ingest job as completed has seen or made the
\* document something else than processing.
SucceededOK ==
  \A w \in Workers : wpc[w] = "succeeded" => ~Open(wjob[w])

HandOK == \A j \in DOMAIN jobs : Open(j) => Claimable(j) \/ InHand(j)

StrandInv == AttemptsOK /\ SucceededOK /\ HandOK

\* No step makes a document processing whose indexing is queued.
LEMMA OpenBefore ==
  ASSUME IndInv, [Next]_vars, NEW j \in DOMAIN jobs, Open(j)'
  PROVE  Open(j)
<1>1. jobs[j] \in JobRow
  BY SMT DEF IndInv, TypeOK
<1>2. /\ jobs'[j].doc = jobs[j].doc /\ jobs'[j].kind = jobs[j].kind
      /\ jobs[j].doc \in Docs
  BY <1>1, RowsKept DEF JobsKept, JobRow
<1>3. jobs[j].kind = "ingest" /\ catalog'[jobs[j].doc].status = "processing"
  BY <1>2 DEF Open
<1>4. spc[jobs[j].doc] = "done"
  BY <1>2, <1>3 DEF IndInv, SaveOK, JobsOf
<1>5. catalog'[jobs[j].doc] = catalog[jobs[j].doc]
  BY <1>2, <1>3, <1>4, CatalogStep
<1> QED
  BY <1>3, <1>5 DEF Open

\* Claim is the only step that raises the attempts of a row or gives it to a
\* worker.
LEMMA ClaimOnly ==
  ASSUME IndInv, NEW w \in Workers, WorkerStep(w) \/ FaultStep(w), ~Claim(w)
  PROVE  /\ \A j \in DOMAIN jobs : jobs'[j].attempts = jobs[j].attempts
         /\ wjob'[w] = 0 \/ (wjob'[w] = wjob[w] /\ watt'[w] = watt[w])
<1> USE DEF Goto
<1>0. /\ TypeOK /\ DOMAIN wjob = Workers
      /\ wpc[w] \notin {"down", "idle"} => wjob[w] \in DOMAIN jobs
  BY DEF IndInv, TypeOK, WorkerOK, HoldsJob
<1>1. ASSUME Release(w) PROVE wjob'[w] = 0
  BY <1>0, <1>1 DEF Release
<1>2. CASE WorkerStart(w)
  <2>1. \A j \in DOMAIN jobs :
          jobs'[j] = jobs[j] \/ jobs'[j] = [jobs[j] EXCEPT !.status = "pending"]
    BY <1>0, <1>2, RecoverEffect DEF WorkerStart
  <2>2. \A j \in DOMAIN jobs : jobs[j] \in JobRow
    BY SMT, <1>0 DEF TypeOK
  <2>3. \A j \in DOMAIN jobs : jobs'[j].attempts = jobs[j].attempts
    BY <2>1, <2>2 DEF JobRow
  <2> QED
    BY <1>2, <2>3 DEF WorkerStart
<1>3. ASSUME NEW st \in JobStatus, wpc[w] \in {"succeeded", "failing"},
             SetStatus(wjob[w], st)
      PROVE  \A j \in DOMAIN jobs : jobs'[j].attempts = jobs[j].attempts
  BY <1>0, <1>3, StatusRow
<1>4. CASE MarkCompleted(w) \/ MarkFailedRetry(w) \/ MarkFailedTerminal(w)
  <2>1. /\ wpc[w] \in {"succeeded", "failing"}
        /\ UNCHANGED jobs \/ \E st \in JobStatus : SetStatus(wjob[w], st)
        /\ Release(w) \/ UNCHANGED <<wjob, watt>>
    BY <1>4 DEF MarkCompleted, MarkFailedRetry, MarkFailedTerminal, JobStatus
  <2> QED
    BY <1>1, <1>3, <2>1
<1>5. CASE TerminalGet(w) \/ TerminalSave(w) \/ MarkErrors(w) \/ TerminalErrors(w) \/ Crash(w)
  BY <1>1, <1>5 DEF TerminalGet, TerminalSave, MarkErrors, TerminalErrors, Crash
<1> QED
  BY <1>2, <1>4, <1>5 DEF WorkerStep, FaultStep, IngestGet, IngestSummary, IngestChunk,
     IngestSave, DeleteVectors, ProcessFails

\* Save and Delete change no row of the job table, and no worker's place in it.
LEMMA RequestRows ==
  ASSUME IndInv,
         (\E d \in Docs : SaveStep(d)) \/ (\E x \in Deleters : DeleteStep(x)) \/ UNCHANGED vars
  PROVE  (\A j \in DOMAIN jobs : jobs'[j] = jobs[j]) /\ UNCHANGED <<wjob, watt>>
<1>1. ASSUME NEW d \in Docs, NEW k \in JobKind, Enqueue(d, k)
      PROVE  \A j \in DOMAIN jobs : jobs'[j] = jobs[j]
  BY <1>1, EnqueueEffect DEF IndInv
<1>2. \A x \in Deleters : ddoc[x] \in Docs
  BY DEF IndInv, TypeOK
<1>3. \A j \in DOMAIN jobs : jobs'[j] = jobs[j]
  BY <1>1, <1>2 DEF SaveStep, SaveCatalog, SaveEnqueue, SaveAbort, DeleteStep,
     DeleteGet, DeleteFlag, DeleteRemove, DeleteEnqueue, DeleteAbort, JobKind, vars
<1>4. UNCHANGED <<wjob, watt>>
  BY RequestStepLocal DEF wrkVars, vars
<1> QED
  BY <1>3, <1>4

\* Every step keeps AttemptsOK.
LEMMA AttemptsStep ==
  ASSUME IndInv, AttemptsOK, [Next]_vars PROVE AttemptsOK'
<1>0. /\ TypeOK /\ \A v \in Workers : wjob[v] # 0 => wjob[v] \in DOMAIN jobs
  BY DEF IndInv, WorkerOK, HoldsJob
<1>1. CASE (\E d \in Docs : SaveStep(d)) \/ (\E x \in Deleters : DeleteStep(x)) \/ UNCHANGED vars
  <2>1. /\ \A j \in DOMAIN jobs : jobs'[j] = jobs[j]
        /\ UNCHANGED <<wjob, watt>>
    BY <1>1, RequestRows
  <2> QED
    BY <1>0, <2>1 DEF AttemptsOK
<1>2. ASSUME NEW w \in Workers, WorkerStep(w) \/ FaultStep(w), ~Claim(w)
      PROVE  AttemptsOK'
  <2>1. /\ \A j \in DOMAIN jobs : jobs'[j].attempts = jobs[j].attempts
        /\ wjob'[w] = 0 \/ (wjob'[w] = wjob[w] /\ watt'[w] = watt[w])
        /\ \A v \in Workers : v # w => wjob'[v] = wjob[v] /\ watt'[v] = watt[v]
    BY <1>2, ClaimOnly, WorkerStepLocal DEF OthersKept
  <2>2. ASSUME NEW v \in Workers, wjob'[v] # 0
        PROVE  watt'[v] <= jobs'[wjob'[v]].attempts
    <3>1. wjob'[v] = wjob[v] /\ watt'[v] = watt[v]
      BY <2>1, <2>2
    <3>2. wjob[v] \in DOMAIN jobs /\ watt[v] <= jobs[wjob[v]].attempts
      BY <1>0, <2>2, <3>1 DEF AttemptsOK
    <3> QED
      BY <2>1, <3>1, <3>2
  <2> QED
    BY <2>2 DEF AttemptsOK
<1>3. ASSUME NEW w \in Workers, Claim(w) PROVE AttemptsOK'
  <2>1. PICK i \in DOMAIN jobs :
          /\ \A j \in DOMAIN jobs : j # i => jobs'[j] = jobs[j]
          /\ jobs'[i].attempts = jobs[i].attempts + 1
          /\ jobs[i].attempts + 1 \in 1..MaxAttempts
          /\ wjob' = [wjob EXCEPT ![w] = i]
          /\ watt' = [watt EXCEPT ![w] = jobs[i].attempts + 1]
    BY <1>0, <1>3, ClaimEffect
  <2>2. jobs[i] \in JobRow
    BY SMT, <1>0 DEF TypeOK
  <2>3. ASSUME NEW v \in Workers, v # w, wjob'[v] # 0
        PROVE  watt'[v] <= jobs'[wjob'[v]].attempts
    <3>1. wjob'[v] = wjob[v] /\ watt'[v] = watt[v] /\ watt[v] \in 0..MaxAttempts
      BY <1>0, <2>1, <2>3 DEF TypeOK
    <3>2. wjob[v] \in DOMAIN jobs /\ watt[v] <= jobs[wjob[v]].attempts
      BY <1>0, <2>3, <3>1 DEF AttemptsOK
    <3> QED
      BY SMT, <2>1, <2>2, <3>1, <3>2, MaxAttemptsAssumption DEF JobRow
  <2>4. wjob'[w] = i /\ watt'[w] = jobs'[i].attempts
    BY <1>0, <2>1 DEF TypeOK
  <2>5. watt'[w] <= jobs'[wjob'[w]].attempts
    BY SMT, <2>1, <2>4, MaxAttemptsAssumption
  <2> QED
    BY <2>3, <2>5 DEF AttemptsOK
<1> QED
  BY <1>1, <1>2, <1>3 DEF Next

\* Every step keeps SucceededOK: the success of an ingest job is decided by a
\* row that is ready or deleting, or follows the save of a ready one.
LEMMA SucceededStep ==
  ASSUME IndInv, SucceededOK, [Next]_vars PROVE SucceededOK'
<1>0. /\ TypeOK /\ JobsKept /\ DOMAIN wpc = Workers
      /\ \A v \in Workers : HoldsJob(v)
  BY RowsKept DEF IndInv, WorkerOK, TypeOK
<1>1. ASSUME NEW v \in Workers, wpc[v] = "succeeded", wjob'[v] = wjob[v]
      PROVE  ~Open(wjob[v])'
  <2>1. wjob[v] \in DOMAIN jobs
    BY <1>0, <1>1 DEF HoldsJob
  <2>2. \A i \in DOMAIN jobs : Open(i)' => Open(i)
    BY OpenBefore
  <2>3. ~Open(wjob[v])
    BY <1>1 DEF SucceededOK
  <2> QED
    BY <1>1, <2>1, <2>2, <2>3 DEF Open
<1>2. ASSUME NEW w \in Workers, WorkerStep(w) \/ FaultStep(w), wpc'[w] = "succeeded"
      PROVE  ~Open(wjob[w])'
  <2>1. IngestGet(w) \/ IngestSave(w) \/ DeleteVectors(w)
    BY <1>0, <1>2 DEF WorkerStep, FaultStep, WorkerStart, Claim, IngestSummary, IngestChunk,
       MarkCompleted, MarkFailedRetry, MarkFailedTerminal, TerminalGet, TerminalSave,
       ProcessFails, MarkErrors, TerminalErrors, Crash, Goto
  <2>2. CASE IngestGet(w)
    <3>1. /\ catalog[JobDoc(w)].status \in {"ready", "deleting"}
          /\ UNCHANGED <<catalog, jobs, wjob>>
      BY <1>0, <1>2, <2>2 DEF IngestGet, Goto
    <3> QED
      BY <3>1 DEF Open, JobDoc
  <2>3. CASE IngestSave(w)
    <3>1. wjob[w] \in DOMAIN jobs
      BY <1>0, <2>3 DEF IngestSave, HoldsJob
    <3>2. jobs[wjob[w]] \in JobRow
      BY SMT, <1>0, <3>1 DEF TypeOK
    <3>3. JobDoc(w) \in Docs /\ wdoc[w] \in DocRow /\ DOMAIN catalog = Docs
      BY <1>0, <3>2 DEF JobDoc, JobRow, TypeOK
    <3>4. [wdoc[w] EXCEPT !.status = "ready", !.summary = watt[w]].status = "ready"
      BY <3>3 DEF DocRow
    <3>5. catalog'[JobDoc(w)].status = "ready" /\ UNCHANGED <<jobs, wjob>>
      BY <2>3, <3>3, <3>4 DEF IngestSave
    <3> QED
      BY <3>5 DEF Open, JobDoc
  <2>4. CASE DeleteVectors(w)
    <3>1. jobs[wjob[w]].kind = "delete_vectors" /\ UNCHANGED <<jobs, wjob>>
      BY <1>0, <2>4 DEF DeleteVectors, HoldsJob
    <3> QED
      BY <3>1 DEF Open
  <2> QED
    BY <2>1, <2>2, <2>3, <2>4
<1>3. ASSUME NEW v \in Workers, wpc'[v] = "succeeded" PROVE ~Open(wjob[v])'
  <2>1. CASE (\E d \in Docs : SaveStep(d)) \/ (\E x \in Deleters : DeleteStep(x)) \/ UNCHANGED vars
    <3>1. UNCHANGED <<wpc, wjob>>
      BY <2>1, RequestStepLocal DEF wrkVars, vars
    <3> QED
      BY <1>1, <1>3, <3>1
  <2>2. ASSUME NEW w \in Workers, WorkerStep(w) \/ FaultStep(w), v # w
        PROVE  ~Open(wjob[v])'
    <3>1. wpc'[v] = wpc[v] /\ wjob'[v] = wjob[v]
      BY <2>2, WorkerStepLocal DEF OthersKept
    <3> QED
      BY <1>1, <1>3, <3>1
  <2> QED
    BY <1>2, <1>3, <2>1, <2>2 DEF Next
<1> QED
  BY <1>3 DEF SucceededOK

\* A worker's step keeps an open row claimable or in the hands of its latest
\* claimer, when servers do not crash and their reports arrive.
LEMMA HandWorker ==
  ASSUME "crash" \notin Faults, "mark" \notin Faults, "terminal" \notin Faults,
         IndInv, StrandInv, NEW w \in Workers, WorkerStep(w) \/ FaultStep(w),
         NEW j \in DOMAIN jobs, Open(j), Open(j)'
  PROVE  Claimable(j)' \/ InHand(j)'
<1>0. /\ TypeOK /\ OneActiveJob /\ HoldsJob(w) /\ OthersKept(w) /\ JobsKept
      /\ Claimable(j) \/ InHand(j)
      /\ DOMAIN wjob = Workers /\ DOMAIN watt = Workers
  BY WorkerStepLocal DEF IndInv, WorkerOK, StrandInv, HandOK, TypeOK
<1>1. jobs[j] \in JobRow /\ j # 0
  BY SMT, <1>0 DEF TypeOK
<1>2. jobs[j].doc \in Docs /\ jobs[j].attempts \in 0..MaxAttempts
  BY <1>1 DEF JobRow
<1>3. ASSUME jobs'[j] = jobs[j], wjob[w] # j \/ (wjob'[w] = wjob[w] /\ watt'[w] = watt[w])
      PROVE  Claimable(j)' \/ InHand(j)'
  <2>1. CASE Claimable(j)
    BY <1>3, <2>1 DEF Claimable
  <2>2. ASSUME NEW v \in Workers, wjob[v] = j, watt[v] = jobs[j].attempts
        PROVE  wjob'[v] = j /\ watt'[v] = jobs'[j].attempts
    BY <1>0, <1>3, <2>2 DEF OthersKept
  <2> QED
    BY <1>0, <2>1, <2>2 DEF InHand
<1>4. CASE WorkerStart(w)
  <2>1. /\ \/ jobs'[j] = jobs[j]
           \/ /\ jobs[j].status = "running"
              /\ jobs'[j] = [jobs[j] EXCEPT !.status = "pending"]
        /\ UNCHANGED <<wjob, watt>>
    BY <1>0, <1>4, RecoverEffect DEF WorkerStart, StaleRows
  <2>2. CASE jobs[j].status = "running" /\ jobs'[j] = [jobs[j] EXCEPT !.status = "pending"]
    <3>1. jobs'[j].attempts = jobs[j].attempts
      BY <1>1, <2>2 DEF JobRow
    <3> QED
      BY <1>0, <2>1, <2>2, <3>1 DEF Claimable, InHand
  <2> QED
    BY <1>3, <2>1, <2>2
<1>5. CASE Claim(w)
  <2>1. PICK i \in DOMAIN jobs :
          /\ \A k \in DOMAIN jobs : k # i => jobs'[k] = jobs[k]
          /\ jobs'[i].attempts = jobs[i].attempts + 1
          /\ wjob' = [wjob EXCEPT ![w] = i]
          /\ watt' = [watt EXCEPT ![w] = jobs[i].attempts + 1]
    BY <1>0, <1>5, ClaimEffect
  <2>2. wjob[w] = 0
    BY <1>0, <1>5 DEF Claim, HoldsJob
  <2>3. CASE i = j
    BY <1>0, <2>1, <2>3 DEF InHand
  <2>4. CASE i # j
    BY <1>1, <1>3, <2>1, <2>2, <2>4
  <2> QED
    BY <2>3, <2>4
<1>6. CASE MarkCompleted(w)
  <2>1. /\ wpc[w] = "succeeded" /\ wjob[w] \in DOMAIN jobs
        /\ SetStatus(wjob[w], "completed")
    BY <1>0, <1>6 DEF MarkCompleted, HoldsJob
  <2>2. wjob[w] # j
    BY <2>1 DEF StrandInv, SucceededOK
  <2>3. jobs'[j] = jobs[j]
    BY <1>0, <2>1, <2>2, StatusRow DEF JobStatus
  <2> QED
    BY <1>3, <2>2, <2>3
<1>7. CASE MarkFailedRetry(w)
  <2>1. /\ wjob[w] \in DOMAIN jobs /\ watt[w] < MaxAttempts
        /\ \/ SetStatus(wjob[w], "pending")
           \/ /\ UNCHANGED jobs
              /\ ~(ActiveJobs(JobDoc(w), jobs[wjob[w]].kind) \subseteq {wjob[w]})
    BY <1>0, <1>7 DEF MarkFailedRetry, HoldsJob
  <2>2. CASE wjob[w] # j
    <3>1. jobs'[j] = jobs[j]
      BY <1>0, <2>1, <2>2, StatusRow DEF JobStatus
    <3> QED
      BY <1>3, <2>2, <3>1
  <2>3. CASE wjob[w] = j
    <3>1. ActiveJobs(JobDoc(w), jobs[wjob[w]].kind) \subseteq {wjob[w]}
      BY <1>0, <2>3 DEF ActiveJobs, JobDoc, OneActiveJob, Open
    <3>2. jobs'[j].status = "pending" /\ jobs'[j].attempts = jobs[j].attempts
      BY <1>0, <2>1, <2>3, <3>1, StatusRow DEF JobStatus
    <3>3. CASE Claimable(j)
      BY <3>2, <3>3 DEF Claimable
    <3>4. ASSUME NEW v \in Workers, wjob[v] = j, watt[v] = jobs[j].attempts
          PROVE  Claimable(j)' \/ InHand(j)'
      <4>1. CASE v = w
        BY <2>1, <3>2, <3>4, <4>1 DEF Claimable
      <4>2. CASE v # w
        BY <1>0, <3>2, <3>4, <4>2 DEF OthersKept, InHand
      <4> QED
        BY <4>1, <4>2
    <3> QED
      BY <1>0, <3>3, <3>4 DEF InHand
  <2> QED
    BY <2>2, <2>3
<1>8. CASE MarkFailedTerminal(w)
  <2>1. /\ wjob[w] \in DOMAIN jobs /\ watt[w] >= MaxAttempts /\ wjob[w] # 0
        /\ SetStatus(wjob[w], "failed")
        /\ jobs[wjob[w]].kind = "ingest" => UNCHANGED <<wjob, watt>>
    BY <1>0, <1>8 DEF MarkFailedTerminal, HoldsJob
  <2>2. CASE wjob[w] # j
    <3>1. jobs'[j] = jobs[j]
      BY <1>0, <2>1, <2>2, StatusRow DEF JobStatus
    <3> QED
      BY <1>3, <2>2, <3>1
  <2>3. CASE wjob[w] = j
    <3>1. UNCHANGED <<wjob, watt>> /\ watt[w] <= jobs[j].attempts
      BY <2>1, <2>3 DEF Open, StrandInv, AttemptsOK
    <3>2. watt[w] \in 0..MaxAttempts
      BY <1>0 DEF TypeOK
    <3>3. watt[w] = jobs[j].attempts
      BY SMT, <1>2, <2>1, <3>1, <3>2, MaxAttemptsAssumption
    <3>4. jobs'[j].attempts = jobs[j].attempts
      BY <1>0, <2>1, <2>3, StatusRow DEF JobStatus
    <3> QED
      BY <2>3, <3>1, <3>3, <3>4 DEF InHand
  <2> QED
    BY <2>2, <2>3
<1>9. CASE TerminalGet(w)
  <2>1. /\ UNCHANGED jobs
        /\ wjob[w] = j => UNCHANGED <<wjob, watt>>
    BY <1>9 DEF TerminalGet, Open, JobDoc
  <2> QED
    BY <1>3, <2>1
<1>10. CASE TerminalSave(w)
  <2>1. wjob[w] # j
    <3> SUFFICES ASSUME wjob[w] = j PROVE FALSE
      OBVIOUS
    <3>1. JobDoc(w) = jobs[j].doc /\ wdoc[w] \in DocRow /\ DOMAIN catalog = Docs
      BY <1>0 DEF JobDoc, TypeOK
    <3>2. [wdoc[w] EXCEPT !.status = "failed"].status = "failed"
      BY <3>1 DEF DocRow
    <3>3. catalog'[jobs[j].doc].status = "failed"
      BY <1>2, <1>10, <3>1, <3>2 DEF TerminalSave
    <3> QED
      BY <1>0, <3>3 DEF Open, JobsKept
  <2> QED
    BY <1>3, <1>10, <2>1 DEF TerminalSave
<1>11. CASE \/ IngestGet(w) \/ IngestSummary(w) \/ IngestChunk(w) \/ IngestSave(w)
            \/ DeleteVectors(w) \/ ProcessFails(w)
  BY <1>3, <1>11 DEF IngestGet, IngestSummary, IngestChunk, IngestSave, DeleteVectors,
     ProcessFails
<1> QED
  BY <1>4, <1>5, <1>6, <1>7, <1>8, <1>9, <1>10, <1>11
     DEF WorkerStep, FaultStep, MarkErrors, TerminalErrors, Crash

\* Every step keeps StrandInv.
LEMMA StrandStep ==
  ASSUME "crash" \notin Faults, "mark" \notin Faults, "terminal" \notin Faults,
         IndInv, StrandInv, [Next]_vars
  PROVE  StrandInv'
<1>0. TypeOK
  BY DEF IndInv
<1>1. ASSUME NEW j \in DOMAIN jobs', j \notin DOMAIN jobs PROVE Claimable(j)'
  <2>1. jobs'[j].status = "pending" /\ jobs'[j].attempts = 0
    BY <1>1, NewRow
  <2>2. 0 < MaxAttempts
    BY SMT, MaxAttemptsAssumption
  <2> QED
    BY <2>1, <2>2 DEF Claimable
<1>2. ASSUME NEW j \in DOMAIN jobs, Open(j)' PROVE Claimable(j)' \/ InHand(j)'
  <2>1. Open(j)
    BY <1>2, OpenBefore
  <2>2. CASE (\E d \in Docs : SaveStep(d)) \/ (\E x \in Deleters : DeleteStep(x)) \/ UNCHANGED vars
    <3>1. jobs'[j] = jobs[j] /\ UNCHANGED <<wjob, watt>>
      BY <2>2, RequestRows
    <3> QED
      <4>1. CASE Claimable(j)
        BY <3>1, <4>1 DEF Claimable
      <4>2. CASE InHand(j)
        BY <3>1, <4>2 DEF InHand
      <4> QED
        BY <2>1, <4>1, <4>2 DEF StrandInv, HandOK
  <2>3. ASSUME NEW w \in Workers, WorkerStep(w) \/ FaultStep(w)
        PROVE  Claimable(j)' \/ InHand(j)'
    BY <1>2, <2>1, <2>3, HandWorker
  <2> QED
    BY <2>2, <2>3 DEF Next
<1>3. HandOK'
  BY <1>1, <1>2 DEF HandOK
<1> QED
  BY <1>3, AttemptsStep, SucceededStep DEF StrandInv

\* For any number of servers, slow ones and failing attempts included: a
\* document that is processing and queued can be claimed or is in the hands of
\* a worker, as long as no server crashes and no report of a job or of its
\* terminal failure is lost (handleJob, MarkFailed, onJobTerminalFailure). It is
\* what IngestSettles needs of the tables before any fairness.
THEOREM NotStrandedHolds ==
  ASSUME "crash" \notin Faults, "mark" \notin Faults, "terminal" \notin Faults
  PROVE  Spec => []NotStranded
<1>1. ASSUME Init PROVE StrandInv
  <2>1. /\ \A w \in Workers : wjob[w] = 0 /\ wpc[w] = "down"
        /\ DOMAIN jobs = {}
    BY SMT, <1>1 DEF Init
  <2> QED
    BY <2>1 DEF StrandInv, AttemptsOK, SucceededOK, HandOK
<1>2. IndInv /\ StrandInv /\ [Next]_vars => StrandInv'
  BY StrandStep
<1>3. StrandInv => NotStranded
  BY DEF StrandInv, HandOK, InHand, NotStranded
<1> QED
  BY <1>1, <1>2, <1>3, Invariance, PTL DEF Spec

=============================================================================
