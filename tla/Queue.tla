------------------------------- MODULE Queue -------------------------------
(***************************************************************************)
(* A queue object (queue.Service) on its three backends: the table         *)
(* queue_messages, the slice in the memory of a process, and RabbitMQ.     *)
(* Messages are numbered in the order of their INSERTs and publications.   *)
(***************************************************************************)
EXTENDS Naturals, Sequences, FiniteSets

CONSTANTS Senders, Takers,  \* requests of enqueue, and of dequeue or peek
          MaxMessages       \* bound on the messages posted

ASSUME QueueAssumption == MaxMessages \in Nat

VARIABLES backend,   \* "postgres", "memory" or "rabbitmq"
          posted,    \* how many messages have a number
          rows,      \* the committed rows
          line,      \* the slice, or the broker's queue
          sending,   \* the row a sender has inserted and not committed, or 0
          taking,    \* the row a taker has locked and deleted, or 0
          aside,     \* the message a peek holds at the broker, or 0
          got        \* what each taker was answered

queueVars == <<backend, posted, rows, line, sending, taking, aside, got>>

QueueInit == /\ backend \in {"postgres", "memory", "rabbitmq"}
             /\ posted = 0
             /\ rows = {}
             /\ line = <<>>
             /\ sending = [s \in Senders |-> 0]
             /\ taking = [t \in Takers |-> 0]
             /\ aside = [t \in Takers |-> 0]
             /\ got = [t \in Takers |-> {}]

Table == backend = "postgres"
Gets(t, m) == got' = [got EXCEPT ![t] = @ \cup {m}]

-----------------------------------------------------------------------------
\* INSERT takes the number; the row counts when the transaction commits.
EnqueueInsert(s) ==
  /\ Table /\ sending[s] = 0 /\ posted < MaxMessages
  /\ posted' = posted + 1
  /\ sending' = [sending EXCEPT ![s] = posted + 1]
  /\ UNCHANGED <<backend, rows, line, taking, aside, got>>

EnqueueCommit(s) ==
  /\ sending[s] # 0
  /\ rows' = rows \cup {sending[s]}
  /\ sending' = [sending EXCEPT ![s] = 0]
  /\ UNCHANGED <<backend, posted, line, taking, aside, got>>

EnqueueFails(s) ==
  /\ sending[s] # 0
  /\ sending' = [sending EXCEPT ![s] = 0]
  /\ UNCHANGED <<backend, posted, rows, line, taking, aside, got>>

\* A SELECT without FOR UPDATE SKIP LOCKED.
Unlocked_NoLock == rows

\* The rows SKIP LOCKED leaves to a dequeue.
Unlocked == {m \in rows : \A t \in Takers : taking[t] # m}

\* The lowest of them is locked and deleted in the taker's transaction.
DequeueTake(t) == \E m \in Unlocked :
  /\ Table /\ taking[t] = 0
  /\ \A n \in Unlocked : m <= n
  /\ taking' = [taking EXCEPT ![t] = m]
  /\ UNCHANGED <<backend, posted, rows, line, sending, aside, got>>

DequeueCommit(t) ==
  /\ taking[t] # 0
  /\ rows' = rows \ {taking[t]}
  /\ Gets(t, taking[t])
  /\ taking' = [taking EXCEPT ![t] = 0]
  /\ UNCHANGED <<backend, posted, line, sending, aside>>

\* The transaction is rolled back, as after a DELETE that failed, or its
\* COMMIT is done and the answer lost.
DequeueFails(t) ==
  /\ taking[t] # 0
  /\ rows' \in {rows, rows \ {taking[t]}}
  /\ taking' = [taking EXCEPT ![t] = 0]
  /\ UNCHANGED <<backend, posted, line, sending, aside, got>>

-----------------------------------------------------------------------------
\* The slice under its mutex; a publication, which is not confirmed.
Enqueue ==
  /\ ~Table /\ posted < MaxMessages
  /\ posted' = posted + 1
  /\ \/ line' = Append(line, posted + 1)
     \/ backend = "rabbitmq" /\ UNCHANGED line
  /\ UNCHANGED <<backend, rows, sending, taking, aside, got>>

\* The head of the slice; a Get that acknowledges by itself, whose answer
\* may be lost.
Dequeue(t) ==
  /\ ~Table /\ line # <<>>
  /\ line' = Tail(line)
  /\ Gets(t, Head(line)) \/ (backend = "rabbitmq" /\ UNCHANGED got)
  /\ UNCHANGED <<backend, posted, rows, sending, taking, aside>>

\* RabbitMQ has no peek: Get without acknowledging ...
PeekGet(t) ==
  /\ backend = "rabbitmq" /\ line # <<>> /\ aside[t] = 0
  /\ aside' = [aside EXCEPT ![t] = Head(line)]
  /\ line' = Tail(line)
  /\ UNCHANGED <<backend, posted, rows, sending, taking, got>>

\* ... and Nack, or the channel's end, which puts the message back.
PeekNack(t) ==
  /\ aside[t] # 0
  /\ line' = <<aside[t]>> \o line
  /\ aside' = [aside EXCEPT ![t] = 0]
  /\ UNCHANGED <<backend, posted, rows, sending, taking, got>>

\* The process stops: open transactions end, and the slice is gone.
StopProcess ==
  /\ backend = "memory"
  /\ line' = <<>>
  /\ UNCHANGED <<backend, posted, rows, sending, taking, aside, got>>

QueueNext ==
  \/ Enqueue \/ StopProcess
  \/ \E s \in Senders : EnqueueInsert(s) \/ EnqueueCommit(s) \/ EnqueueFails(s)
  \/ \E t \in Takers : \/ DequeueTake(t) \/ DequeueCommit(t) \/ DequeueFails(t)
                       \/ Dequeue(t) \/ PeekGet(t) \/ PeekNack(t)

QueueSpec == QueueInit /\ [][QueueNext]_queueVars

-----------------------------------------------------------------------------
Elems(seq) == {seq[i] : i \in DOMAIN seq}

Waiting == IF Table THEN rows
           ELSE Elems(line) \cup ({aside[t] : t \in Takers} \ {0})

MQ == INSTANCE MessageQueue
        WITH Msgs <- 1 .. MaxMessages, Receivers <- Takers,
             waiting <- Waiting, delivered <- got

\* Whatever the backend and however its requests interleave and fail, a
\* message goes to one taker and is then gone (service.go:79).
ImplementsQueue == MQ!MQSpec
=============================================================================
