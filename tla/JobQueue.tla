------------------------------ MODULE JobQueue ------------------------------
(***************************************************************************)
(* What the ingest job table promises to the rest of the server, whoever    *)
(* crashes: a (doc, kind) has at most one active job, a job is attempted at *)
(* most MaxAttempts times, it fails only after the last attempt, and a job  *)
(* that has ended never runs again.                                         *)
(***************************************************************************)
EXTENDS Naturals, Sequences

CONSTANTS Docs, Kinds, MaxAttempts

VARIABLE queue

IsActive(j) == queue[j].status \in {"pending", "running"}

QInit == queue = <<>>

\* A new job; refused while the (doc, kind) has an active one.
Add(d, k) ==
  /\ \A j \in DOMAIN queue :
       queue[j].doc = d /\ queue[j].kind = k => ~IsActive(j)
  /\ queue' = Append(queue, [doc |-> d, kind |-> k,
                             status |-> "pending", attempts |-> 0])

Take(j) ==
  /\ queue[j].status = "pending"
  /\ queue[j].attempts < MaxAttempts
  /\ queue' = [queue EXCEPT
                 ![j] = [doc |-> queue[j].doc, kind |-> queue[j].kind,
                         status |-> "running",
                         attempts |-> queue[j].attempts + 1]]

Finish(j) ==
  /\ queue[j].status = "running"
  /\ queue' = [queue EXCEPT ![j].status = "completed"]

GiveUp(j) ==
  /\ queue[j].status = "running"
  /\ queue[j].attempts = MaxAttempts
  /\ queue' = [queue EXCEPT ![j].status = "failed"]

\* Running jobs go back: one after a failed attempt, any number after crashes.
PutBack(S) ==
  /\ \A j \in S : queue[j].status = "running"
  /\ queue' = [j \in DOMAIN queue |->
                 IF j \in S THEN [queue[j] EXCEPT !.status = "pending"]
                            ELSE queue[j]]

QNext ==
  \/ \E d \in Docs, k \in Kinds : Add(d, k)
  \/ \E j \in DOMAIN queue : Take(j) \/ Finish(j) \/ GiveUp(j)
  \/ \E S \in SUBSET DOMAIN queue : PutBack(S)

QSpec == QInit /\ [][QNext]_queue

=============================================================================
