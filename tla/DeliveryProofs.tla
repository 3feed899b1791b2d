--------------------------- MODULE DeliveryProofs ---------------------------
(***************************************************************************)
(* What is handed over once, for any number of callers, servers, messages  *)
(* and firings.                                                            *)
(*                                                                         *)
(* Each of the three backends of a queue object implements MessageQueue.   *)
(* The step that needs an invariant is acceptance: a number a sender holds *)
(* is nowhere else, so a message that has been got never waits again.      *)
(*                                                                         *)
(* Neither copy of a firing of a schedule answers two waiters.  The row    *)
(* and the copy in memory are followed separately: a firing is in one      *)
(* tick, then at one place of one queue (or in the table), and only then   *)
(* claimed.                                                                *)
(***************************************************************************)
EXTENDS Queue, Schedule, SequenceTheorems, TLAPS

\* The leaves are first-order unless they name the SMT solver.
USE Zenon

-----------------------------------------------------------------------------
(* Queues *)

Numbers == 1 .. MaxMessages
Holding(t) == aside[t] # 0

QueueTypeOK ==
  /\ posted \in 0 .. MaxMessages
  /\ rows \in SUBSET (1 .. posted)
  /\ line \in Seq(Numbers) /\ Elems(line) \subseteq 1 .. posted
  /\ sending \in [Senders -> 0 .. posted]
  /\ taking \in [Takers -> {0} \cup rows]
  /\ aside \in [Takers -> 0 .. posted]
  /\ got \in [Takers -> SUBSET (1 .. posted)]

\* A backend uses its own part of the state.
OwnPart == /\ Table => line = <<>> /\ \A t \in Takers : aside[t] = 0
           /\ ~Table => /\ rows = {}
                        /\ \A s \in Senders : sending[s] = 0
                        /\ \A t \in Takers : taking[t] = 0

\* A row that is not committed is one sender's, and nobody has it.
SendingFresh == \A s \in Senders : sending[s] # 0 =>
  /\ sending[s] \notin rows
  /\ \A t \in Takers : sending[s] \notin got[t]
  /\ \A r \in Senders : sending[r] = sending[s] => r = s

\* One dequeue has locked a row.
TakingApart == \A t, u \in Takers : taking[t] # 0 /\ taking[t] = taking[u] => t = u

NoRepeats(seq) == \A i, j \in 1 .. Len(seq) : seq[i] = seq[j] => i = j

\* A message is at one place of the line, or held by one peek.
LineApart ==
  /\ NoRepeats(line)
  /\ \A t \in Takers : Holding(t) => aside[t] \notin Elems(line)
  /\ \A t, u \in Takers : Holding(t) /\ aside[t] = aside[u] => t = u

QueueInv == QueueTypeOK /\ OwnPart /\ SendingFresh /\ TakingApart /\ LineApart

-----------------------------------------------------------------------------
\* The elements of a line are its entries.
LEMMA ElemsAre ==
  ASSUME NEW S, NEW seq \in Seq(S)
  PROVE  Elems(seq) = {seq[i] : i \in 1 .. Len(seq)} /\ Len(seq) \in Nat
  BY LenProperties DEF Elems

\* Appending, as Enqueue does.
LEMMA AppendElems ==
  ASSUME NEW S, NEW seq \in Seq(S), NEW x \in S
  PROVE  /\ Append(seq, x) \in Seq(S)
         /\ Elems(Append(seq, x)) = Elems(seq) \cup {x}
         /\ NoRepeats(seq) /\ x \notin Elems(seq) => NoRepeats(Append(seq, x))
<1> DEFINE new == Append(seq, x)
<1>1. /\ new \in Seq(S) /\ Len(new) = Len(seq) + 1 /\ Len(seq) \in Nat
      /\ new[Len(seq) + 1] = x
      /\ \A i \in 1 .. Len(seq) : new[i] = seq[i]
  BY SMT, AppendProperties, LenProperties
<1>2. /\ Elems(new) = {new[i] : i \in 1 .. Len(new)}
      /\ Elems(seq) = {seq[i] : i \in 1 .. Len(seq)}
  BY <1>1, ElemsAre
<1> HIDE DEF new
<1>3. Elems(new) = Elems(seq) \cup {x}
  <2>1. \A y \in Elems(new) : y \in Elems(seq) \cup {x}
    BY SMT, <1>1, <1>2
  <2>2. \A y \in Elems(seq) \cup {x} : y \in Elems(new)
    BY SMT, <1>1, <1>2
  <2> QED
    BY <2>1, <2>2
<1>4. ASSUME NoRepeats(seq), x \notin Elems(seq) PROVE NoRepeats(new)
  BY SMT, <1>1, <1>2, <1>4 DEF NoRepeats
<1> QED
  BY <1>1, <1>3, <1>4 DEF new

\* Taking the head, as Dequeue and Peek do.
LEMMA TailElems ==
  ASSUME NEW S, NEW seq \in Seq(S), seq # <<>>
  PROVE  /\ Head(seq) \in S /\ Tail(seq) \in Seq(S)
         /\ Elems(seq) = Elems(Tail(seq)) \cup {Head(seq)}
         /\ NoRepeats(seq) => NoRepeats(Tail(seq)) /\ Head(seq) \notin Elems(Tail(seq))
<1> DEFINE new == Tail(seq)
<1>1. /\ new \in Seq(S) /\ Head(seq) \in S /\ Len(new) = Len(seq) - 1
      /\ \A i \in 1 .. Len(new) : new[i] = seq[i + 1]
  BY HeadTailProperties
<1>2. Len(seq) \in Nat \ {0} /\ Head(seq) = seq[1]
  BY SMT, EmptySeq
<1>3. /\ Elems(new) = {new[i] : i \in 1 .. Len(new)}
      /\ Elems(seq) = {seq[i] : i \in 1 .. Len(seq)}
  BY <1>1, ElemsAre
<1> HIDE DEF new
<1>4. Elems(seq) = Elems(new) \cup {Head(seq)}
  <2>1. \A y \in Elems(new) : y \in Elems(seq)
    BY SMT, <1>1, <1>2, <1>3
  <2>2. Head(seq) \in Elems(seq)
    BY SMT, <1>2, <1>3
  <2>3. \A i \in 1 .. Len(seq) : i = 1 \/ (i - 1 \in 1 .. Len(new) /\ new[i - 1] = seq[i])
    BY SMT, <1>1, <1>2
  <2>4. \A y \in Elems(seq) : y \in Elems(new) \cup {Head(seq)}
    BY SMT, <1>2, <1>3, <2>3
  <2> QED
    BY <2>1, <2>2, <2>4
<1>5. ASSUME NoRepeats(seq) PROVE NoRepeats(new) /\ Head(seq) \notin Elems(new)
  <2>1. \A i \in 1 .. Len(new) : i + 1 \in 1 .. Len(seq) /\ i + 1 # 1
    BY SMT, <1>1, <1>2
  <2>2. NoRepeats(new)
    BY SMT, <1>1, <1>5, <2>1 DEF NoRepeats
  <2>3. \A i \in 1 .. Len(new) : seq[i + 1] # seq[1]
    BY SMT, <1>2, <1>5, <2>1 DEF NoRepeats
  <2> QED
    BY <1>1, <1>2, <1>3, <2>2, <2>3
<1> QED
  BY <1>1, <1>4, <1>5 DEF new

\* Putting a message back in front, as Nack does.
LEMMA FrontElems ==
  ASSUME NEW S, NEW seq \in Seq(S), NEW x \in S
  PROVE  /\ <<x>> \o seq \in Seq(S)
         /\ Elems(<<x>> \o seq) = Elems(seq) \cup {x}
         /\ NoRepeats(seq) /\ x \notin Elems(seq) => NoRepeats(<<x>> \o seq)
<1> DEFINE new == <<x>> \o seq
<1>0. <<x>> \in Seq(S) /\ Len(<<x>>) = 1 /\ <<x>>[1] = x
  BY SMT
<1>1. /\ new \in Seq(S) /\ Len(new) = Len(seq) + 1 /\ Len(seq) \in Nat
      /\ \A i \in 1 .. 1 + Len(seq) : new[i] = IF i <= 1 THEN <<x>>[i] ELSE seq[i - 1]
  <2>1. Len(seq) \in Nat
    BY LenProperties
  <2>2. /\ new \in Seq(S) /\ Len(new) = 1 + Len(seq)
        /\ \A i \in 1 .. 1 + Len(seq) :
             new[i] = IF i <= 1 THEN <<x>>[i] ELSE seq[i - 1]
    BY SMT, <1>0, ConcatProperties
  <2> QED
    BY SMT, <2>1, <2>2
<1> HIDE DEF new
<1>a. /\ 1 \in 1 .. Len(new) /\ new[1] = x
      /\ \A i \in 1 .. Len(seq) : i + 1 \in 1 .. Len(new) /\ new[i + 1] = seq[i]
  BY SMT, <1>0, <1>1
<1>2. /\ Elems(new) = {new[i] : i \in 1 .. Len(new)}
      /\ Elems(seq) = {seq[i] : i \in 1 .. Len(seq)}
  BY <1>1, ElemsAre
<1>b. \A i \in 1 .. Len(new) : i = 1 \/ (i - 1 \in 1 .. Len(seq) /\ new[i] = seq[i - 1])
  BY SMT, <1>1
<1>3. Elems(new) = Elems(seq) \cup {x}
  <2>1. \A y \in Elems(new) : y \in Elems(seq) \cup {x}
    BY SMT, <1>a, <1>b, <1>2
  <2>2. x \in Elems(new)
    BY <1>1, <1>a, <1>2
  <2>3. \A y \in Elems(seq) : y \in Elems(new)
    BY <1>1, <1>a, <1>2
  <2> QED
    BY <2>1, <2>2, <2>3
<1>4. ASSUME NoRepeats(seq), x \notin Elems(seq) PROVE NoRepeats(new)
  <2> SUFFICES ASSUME NEW i \in 1 .. Len(new), NEW j \in 1 .. Len(new),
                      new[i] = new[j]
               PROVE  i = j
    BY DEF NoRepeats
  <2>1. CASE i = 1
    BY <1>a, <1>b, <1>2, <1>4, <2>1
  <2>2. CASE j = 1
    BY <1>a, <1>b, <1>2, <1>4, <2>2
  <2>3. CASE i # 1 /\ j # 1
    <3>1. /\ i - 1 \in 1 .. Len(seq) /\ j - 1 \in 1 .. Len(seq)
          /\ seq[i - 1] = seq[j - 1]
      BY <1>b, <2>3
    <3>2. i - 1 = j - 1
      BY <1>4, <3>1 DEF NoRepeats
    <3> QED
      BY SMT, <3>2
  <2> QED
    BY <2>1, <2>2, <2>3
<1> QED
  BY <1>1, <1>3, <1>4 DEF new

-----------------------------------------------------------------------------
\* At the start there are no messages.
LEMMA QueueInitInv == QueueInit => QueueInv
<1> SUFFICES ASSUME QueueInit PROVE QueueInv
  OBVIOUS
<1>1. line = <<>> /\ line \in Seq(Numbers) /\ Elems(line) = {} /\ Len(line) = 0
  <2>1. line = <<>> /\ line \in Seq(Numbers) /\ Len(line) = 0
    BY EmptySeq DEF QueueInit
  <2>2. line \in Seq(Numbers) /\ Len(line) = 0
    BY <2>1
  <2>3. Elems(line) = {line[i] : i \in 1 .. 0}
    BY <2>2, ElemsAre
  <2> QED
    BY SMT, <2>1, <2>3
<1>2. QueueTypeOK
  BY SMT, <1>1, QueueAssumption DEF QueueInit, QueueTypeOK
<1>3. OwnPart /\ SendingFresh /\ TakingApart
  BY DEF QueueInit, OwnPart, Table, SendingFresh, TakingApart
<1>4. LineApart
  BY SMT, <1>1 DEF QueueInit, LineApart, NoRepeats, Holding
<1> QED
  BY <1>2, <1>3, <1>4 DEF QueueInv

\* The transactions on the table leave the line alone.
LEMMA TableStep ==
  ASSUME QueueInv, Table, UNCHANGED <<backend, line, aside>>,
         posted' \in Nat, posted <= posted', posted' <= MaxMessages,
         rows' \in SUBSET (1 .. posted'),
         sending' \in [Senders -> 0 .. posted'],
         taking' \in [Takers -> {0} \cup rows'],
         got' \in [Takers -> SUBSET (1 .. posted')],
         SendingFresh', TakingApart'
  PROVE  QueueInv'
<1>1. /\ posted \in Nat /\ line \in Seq(Numbers) /\ Elems(line) \subseteq 1 .. posted
      /\ aside \in [Takers -> 0 .. posted] /\ OwnPart /\ LineApart
  BY SMT, QueueAssumption DEF QueueInv, QueueTypeOK
<1>2. Elems(line) \subseteq 1 .. posted' /\ aside \in [Takers -> 0 .. posted']
  BY SMT, <1>1
<1>3. QueueTypeOK'
  BY SMT, <1>1, <1>2, QueueAssumption DEF QueueTypeOK
<1>4. OwnPart' /\ LineApart'
  BY <1>1 DEF OwnPart, Table, LineApart, Holding
<1> QED
  BY <1>3, <1>4 DEF QueueInv

\* INSERT, COMMIT and the failures of both keep the invariant.
LEMMA EnqueueTableInv ==
  ASSUME QueueInv, NEW s \in Senders,
         EnqueueInsert(s) \/ EnqueueCommit(s) \/ EnqueueFails(s)
  PROVE  QueueInv'
<1>0. /\ posted \in 0 .. MaxMessages /\ rows \in SUBSET (1 .. posted)
      /\ sending \in [Senders -> 0 .. posted]
      /\ taking \in [Takers -> {0} \cup rows]
      /\ got \in [Takers -> SUBSET (1 .. posted)]
      /\ OwnPart /\ SendingFresh /\ TakingApart
  BY DEF QueueInv, QueueTypeOK
<1>1. Table
  BY <1>0 DEF OwnPart, EnqueueInsert, EnqueueCommit, EnqueueFails
<1>2. CASE EnqueueInsert(s)
  <2>1. /\ posted < MaxMessages /\ posted' = posted + 1
        /\ sending' = [sending EXCEPT ![s] = posted + 1]
        /\ UNCHANGED <<backend, rows, line, taking, aside, got>>
    BY <1>2 DEF EnqueueInsert
  <2>2. /\ posted' \in Nat /\ posted <= posted' /\ posted' <= MaxMessages
        /\ 1 .. posted \subseteq 1 .. posted' /\ 0 .. posted \subseteq 0 .. posted'
        /\ posted + 1 \in 0 .. posted' /\ posted + 1 \notin 1 .. posted
        /\ posted + 1 \notin 0 .. posted
    BY SMT, <1>0, <2>1, QueueAssumption
  <2>3. /\ rows' \in SUBSET (1 .. posted') /\ sending' \in [Senders -> 0 .. posted']
        /\ taking' \in [Takers -> {0} \cup rows']
        /\ got' \in [Takers -> SUBSET (1 .. posted')]
    BY <1>0, <2>1, <2>2
  <2>4. \A r \in Senders : sending'[r] = IF r = s THEN posted + 1 ELSE sending[r]
    BY <1>0, <2>1
  <2>5. SendingFresh'
    BY SMT, <1>0, <2>1, <2>2, <2>4 DEF SendingFresh
  <2>6. TakingApart'
    BY <1>0, <2>1 DEF TakingApart
  <2> QED
    BY <1>1, <2>1, <2>2, <2>3, <2>5, <2>6, TableStep
<1>3. CASE EnqueueCommit(s) \/ EnqueueFails(s)
  <2>1. /\ sending[s] # 0 /\ rows' \in {rows, rows \cup {sending[s]}}
        /\ sending' = [sending EXCEPT ![s] = 0]
        /\ UNCHANGED <<backend, posted, line, taking, aside, got>>
    BY <1>3 DEF EnqueueCommit, EnqueueFails
  <2>2. /\ posted' \in Nat /\ posted <= posted' /\ posted' <= MaxMessages
        /\ sending[s] \in 1 .. posted
    BY SMT, <1>0, <2>1, QueueAssumption
  <2>3. /\ rows' \in SUBSET (1 .. posted') /\ sending' \in [Senders -> 0 .. posted']
        /\ taking' \in [Takers -> {0} \cup rows']
        /\ got' \in [Takers -> SUBSET (1 .. posted')]
    BY SMT, <1>0, <2>1, <2>2
  <2>4. \A r \in Senders : sending'[r] = IF r = s THEN 0 ELSE sending[r]
    BY <1>0, <2>1
  <2>5. SendingFresh'
    BY <1>0, <2>1, <2>4 DEF SendingFresh
  <2>6. TakingApart'
    BY <1>0, <2>1 DEF TakingApart
  <2> QED
    BY <1>1, <2>1, <2>2, <2>3, <2>5, <2>6, TableStep
<1> QED
  BY <1>2, <1>3

\* SELECT ... FOR UPDATE SKIP LOCKED, DELETE, COMMIT and the failures of them
\* keep the invariant.
LEMMA DequeueTableInv ==
  ASSUME QueueInv, NEW t \in Takers,
         DequeueTake(t) \/ DequeueCommit(t) \/ DequeueFails(t)
  PROVE  QueueInv'
<1>0. /\ posted \in 0 .. MaxMessages /\ rows \in SUBSET (1 .. posted)
      /\ sending \in [Senders -> 0 .. posted]
      /\ taking \in [Takers -> {0} \cup rows]
      /\ got \in [Takers -> SUBSET (1 .. posted)]
      /\ OwnPart /\ SendingFresh /\ TakingApart
  BY DEF QueueInv, QueueTypeOK
<1>1. Table
  BY <1>0 DEF OwnPart, DequeueTake, DequeueCommit, DequeueFails
<1>2. CASE DequeueTake(t)
  <2>1. PICK m \in Unlocked :
          /\ taking' = [taking EXCEPT ![t] = m]
          /\ UNCHANGED <<backend, posted, rows, line, sending, aside, got>>
    BY <1>2 DEF DequeueTake
  <2>2. m \in rows /\ \A u \in Takers : taking[u] # m
    BY <2>1 DEF Unlocked
  <2>3. \A u \in Takers : taking'[u] = IF u = t THEN m ELSE taking[u]
    BY <1>0, <2>1
  <2>4. taking' \in [Takers -> {0} \cup rows']
    BY <1>0, <2>1, <2>2
  <2>5. SendingFresh' /\ TakingApart'
    BY <1>0, <2>1, <2>2, <2>3 DEF SendingFresh, TakingApart
  <2> QED
    BY SMT, <1>0, <1>1, <2>1, <2>4, <2>5, TableStep, QueueAssumption
<1>3. CASE DequeueCommit(t) \/ DequeueFails(t)
  <2>1. /\ taking[t] # 0 /\ rows' \in {rows, rows \ {taking[t]}}
        /\ got' = [got EXCEPT ![t] = @ \cup {taking[t]}] \/ UNCHANGED got
        /\ taking' = [taking EXCEPT ![t] = 0]
        /\ UNCHANGED <<backend, posted, line, sending, aside>>
    BY <1>3 DEF DequeueCommit, DequeueFails, Gets
  <2>2. taking[t] \in rows /\ taking[t] \in 1 .. posted
    BY <1>0, <2>1
  <2>3. /\ got' \in [Takers -> SUBSET (1 .. posted')]
        /\ \A u \in Takers : got'[u] \subseteq got[u] \cup {taking[t]}
    BY SMT, <1>0, <2>1, <2>2
  <2>4. \A u \in Takers : taking'[u] = IF u = t THEN 0 ELSE taking[u]
    BY <1>0, <2>1
  <2>5. taking' \in [Takers -> {0} \cup rows']
    BY <1>0, <2>1, <2>4 DEF TakingApart
  <2>6. SendingFresh'
    BY <1>0, <2>1, <2>2, <2>3 DEF SendingFresh
  <2>7. TakingApart'
    BY <1>0, <2>4 DEF TakingApart
  <2>8. rows' \in SUBSET (1 .. posted')
    BY <1>0, <2>1
  <2> QED
    BY SMT, <1>0, <1>1, <2>1, <2>3, <2>5, <2>6, <2>7, <2>8, TableStep, QueueAssumption
<1> QED
  BY <1>2, <1>3

\* The steps on the slice and at the broker leave the table alone.
LEMMA LineStep ==
  ASSUME QueueInv, ~Table, UNCHANGED <<backend, rows, sending, taking>>,
         posted' \in Nat, posted <= posted', posted' <= MaxMessages,
         line' \in Seq(Numbers), Elems(line') \subseteq 1 .. posted',
         aside' \in [Takers -> 0 .. posted'],
         got' \in [Takers -> SUBSET (1 .. posted')],
         LineApart'
  PROVE  QueueInv'
<1>1. /\ posted \in Nat /\ rows \in SUBSET (1 .. posted)
      /\ sending \in [Senders -> 0 .. posted]
      /\ taking \in [Takers -> {0} \cup rows] /\ OwnPart /\ TakingApart
  BY SMT, QueueAssumption DEF QueueInv, QueueTypeOK
<1>2. rows \in SUBSET (1 .. posted') /\ sending \in [Senders -> 0 .. posted']
  BY SMT, <1>1
<1>3. QueueTypeOK'
  BY SMT, <1>1, <1>2, QueueAssumption DEF QueueTypeOK
<1>4. \A s \in Senders : sending'[s] = 0
  BY <1>1 DEF OwnPart
<1>5. OwnPart' /\ TakingApart' /\ SendingFresh'
  BY <1>1, <1>4 DEF OwnPart, Table, TakingApart, SendingFresh
<1> QED
  BY <1>3, <1>5 DEF QueueInv

\* A message enters the line with a new number.
LEMMA EnqueueLineInv ==
  ASSUME QueueInv, Enqueue
  PROVE  QueueInv'
<1>0. /\ posted \in 0 .. MaxMessages /\ line \in Seq(Numbers)
      /\ Elems(line) \subseteq 1 .. posted /\ aside \in [Takers -> 0 .. posted]
      /\ got \in [Takers -> SUBSET (1 .. posted)] /\ LineApart
  BY DEF QueueInv, QueueTypeOK
<1>1. /\ ~Table /\ posted < MaxMessages /\ posted' = posted + 1
      /\ line' = Append(line, posted + 1) \/ UNCHANGED line
      /\ UNCHANGED <<backend, rows, sending, taking, aside, got>>
  BY DEF Enqueue
<1>2. /\ posted' \in Nat /\ posted <= posted' /\ posted' <= MaxMessages
      /\ 1 .. posted \subseteq 1 .. posted' /\ 0 .. posted \subseteq 0 .. posted'
      /\ posted + 1 \in Numbers /\ posted + 1 \in 1 .. posted'
      /\ posted + 1 \notin 0 .. posted /\ posted + 1 \notin Elems(line)
  BY SMT, <1>0, <1>1, QueueAssumption DEF Numbers
<1>3. /\ aside' \in [Takers -> 0 .. posted'] /\ got' \in [Takers -> SUBSET (1 .. posted')]
      /\ \A t \in Takers : aside[t] # posted + 1
  BY <1>0, <1>1, <1>2
<1>4. /\ line' \in Seq(Numbers)
      /\ Elems(line') \subseteq Elems(line) \cup {posted + 1}
      /\ NoRepeats(line')
  <2>1. NoRepeats(line)
    BY <1>0 DEF LineApart
  <2>2. CASE line' = Append(line, posted + 1)
    BY SMT, <1>0, <1>2, <2>1, <2>2, AppendElems
  <2> QED
    BY <1>0, <1>1, <2>1, <2>2
<1>5. LineApart'
  BY <1>0, <1>1, <1>3, <1>4 DEF LineApart, Holding
<1>6. Elems(line') \subseteq 1 .. posted'
  BY <1>0, <1>2, <1>4
<1> QED
  BY <1>1, <1>2, <1>3, <1>4, <1>5, <1>6, LineStep

\* A message leaves the line, to a taker or to a peek, comes back from a peek,
\* or is gone with the process.
LEMMA LeaveLineInv ==
  ASSUME QueueInv,
         StopProcess \/ \E t \in Takers : Dequeue(t) \/ PeekGet(t) \/ PeekNack(t)
  PROVE  QueueInv'
<1>0. /\ posted \in 0 .. MaxMessages /\ line \in Seq(Numbers)
      /\ Elems(line) \subseteq 1 .. posted /\ aside \in [Takers -> 0 .. posted]
      /\ got \in [Takers -> SUBSET (1 .. posted)] /\ OwnPart /\ LineApart
  BY DEF QueueInv, QueueTypeOK
<1>a. posted \in Nat /\ posted <= posted /\ posted <= MaxMessages /\ NoRepeats(line)
  BY SMT, <1>0, QueueAssumption DEF LineApart
<1>b. line # <<>> => /\ Tail(line) \in Seq(Numbers) /\ NoRepeats(Tail(line))
                     /\ Elems(line) = Elems(Tail(line)) \cup {Head(line)}
                     /\ Head(line) \notin Elems(Tail(line))
                     /\ Head(line) \in 1 .. posted
  BY SMT, <1>0, <1>a, TailElems
<1>1. CASE StopProcess
  <2>1. /\ ~Table /\ line' = <<>>
        /\ UNCHANGED <<backend, posted, rows, sending, taking, aside, got>>
    BY <1>1 DEF StopProcess, Table
  <2>2. line' \in Seq(Numbers) /\ Len(line') = 0
    BY <2>1, EmptySeq
  <2>3. Elems(line') = {line'[i] : i \in 1 .. 0}
    BY <2>2, ElemsAre
  <2>4. Elems(line') = {} /\ NoRepeats(line')
    BY SMT, <2>2, <2>3 DEF NoRepeats
  <2>5. LineApart'
    BY <1>0, <2>1, <2>4 DEF LineApart, Holding
  <2> QED
    BY <1>0, <1>a, <2>1, <2>2, <2>4, <2>5, LineStep
<1>2. ASSUME NEW t \in Takers, Dequeue(t) PROVE QueueInv'
  <2>1. /\ ~Table /\ line # <<>> /\ line' = Tail(line)
        /\ got' = [got EXCEPT ![t] = @ \cup {Head(line)}] \/ UNCHANGED got
        /\ UNCHANGED <<backend, posted, rows, sending, taking, aside>>
    BY <1>2 DEF Dequeue, Gets
  <2>2. got' \in [Takers -> SUBSET (1 .. posted)]
    BY <1>0, <1>b, <2>1
  <2>3. LineApart'
    BY <1>0, <1>b, <2>1 DEF LineApart, Holding
  <2> QED
    BY <1>0, <1>a, <1>b, <2>1, <2>2, <2>3, LineStep
<1>3. ASSUME NEW t \in Takers, PeekGet(t) PROVE QueueInv'
  <2>1. /\ ~Table /\ line # <<>> /\ aside[t] = 0 /\ line' = Tail(line)
        /\ aside' = [aside EXCEPT ![t] = Head(line)]
        /\ UNCHANGED <<backend, posted, rows, sending, taking, got>>
    BY <1>3 DEF PeekGet, Table
  <2>2. /\ aside' \in [Takers -> 0 .. posted]
        /\ \A u \in Takers : aside'[u] = IF u = t THEN Head(line) ELSE aside[u]
    BY SMT, <1>0, <1>b, <2>1
  <2>3. \A u \in Takers : Holding(u) => aside[u] # Head(line)
    BY <1>0, <1>b, <2>1 DEF LineApart
  <2>4. LineApart'
    BY <1>0, <1>b, <2>1, <2>2, <2>3 DEF LineApart, Holding
  <2> QED
    BY <1>0, <1>a, <1>b, <2>1, <2>2, <2>4, LineStep
<1>4. ASSUME NEW t \in Takers, PeekNack(t) PROVE QueueInv'
  <2>1. /\ aside[t] # 0 /\ line' = <<aside[t]>> \o line
        /\ aside' = [aside EXCEPT ![t] = 0]
        /\ UNCHANGED <<backend, posted, rows, sending, taking, got>>
    BY <1>4 DEF PeekNack
  <2>2. ~Table /\ aside[t] \in 1 .. posted /\ aside[t] \in Numbers
    BY SMT, <1>0, <2>1, QueueAssumption DEF OwnPart, Numbers
  <2>3. aside[t] \notin Elems(line)
    BY <1>0, <2>1 DEF LineApart, Holding
  <2>4. /\ line' \in Seq(Numbers) /\ Elems(line') = Elems(line) \cup {aside[t]}
        /\ NoRepeats(line')
    BY SMT, <1>0, <1>a, <2>1, <2>2, <2>3, FrontElems
  <2>5. /\ aside' \in [Takers -> 0 .. posted]
        /\ \A u \in Takers : aside'[u] = IF u = t THEN 0 ELSE aside[u]
    BY SMT, <1>0, <1>a, <2>1
  <2>6. LineApart'
    BY <1>0, <2>1, <2>4, <2>5 DEF LineApart, Holding
  <2> QED
    BY <1>0, <1>a, <2>1, <2>2, <2>4, <2>5, <2>6, LineStep
<1> QED
  BY <1>1, <1>2, <1>3, <1>4

\* Every step keeps the invariant.
LEMMA QueueStep == QueueInv /\ [QueueNext]_queueVars => QueueInv'
<1>1. ASSUME QueueInv, UNCHANGED queueVars PROVE QueueInv'
  BY <1>1 DEF queueVars, QueueInv, QueueTypeOK, OwnPart, Table, SendingFresh,
              TakingApart, LineApart, Holding
<1> QED
  BY <1>1, EnqueueTableInv, DequeueTableInv, EnqueueLineInv, LeaveLineInv DEF QueueNext

-----------------------------------------------------------------------------
\* What waits, on the table and on the line, after a step.
LEMMA WaitingIs ==
  ASSUME UNCHANGED backend
  PROVE  /\ Table => Waiting = rows /\ Waiting' = rows'
         /\ ~Table =>
              /\ Waiting = Elems(line) \cup ({aside[t] : t \in Takers} \ {0})
              /\ Waiting' = Elems(line') \cup ({aside'[t] : t \in Takers} \ {0})
  BY DEF Waiting, Table

\* Every step of every backend accepts, delivers or loses messages as
\* MessageQueue does, or changes nothing it shows.
LEMMA QueueRefines ==
  QueueInv /\ [QueueNext]_queueVars => [MQ!MQNext]_<<Waiting, got>>
<1> SUFFICES ASSUME QueueInv, [QueueNext]_queueVars
             PROVE  MQ!MQNext \/ UNCHANGED <<Waiting, got>>
  OBVIOUS
<1>0. QueueTypeOK /\ OwnPart /\ SendingFresh /\ TakingApart /\ LineApart
  BY DEF QueueInv
<1>a. /\ posted \in 0 .. MaxMessages /\ rows \in SUBSET (1 .. posted)
      /\ sending \in [Senders -> 0 .. posted]
      /\ taking \in [Takers -> {0} \cup rows] /\ line \in Seq(Numbers)
      /\ Elems(line) \subseteq 1 .. posted /\ aside \in [Takers -> 0 .. posted]
      /\ got \in [Takers -> SUBSET (1 .. posted)]
  BY <1>0 DEF QueueTypeOK
<1>b. 1 .. posted \subseteq 1 .. MaxMessages
  BY SMT, <1>a, QueueAssumption
<1>c. line # <<>> => /\ Elems(line) = Elems(Tail(line)) \cup {Head(line)}
                     /\ Head(line) \notin Elems(Tail(line))
                     /\ Head(line) \in 1 .. MaxMessages
  BY SMT, <1>0, <1>a, <1>b, TailElems DEF LineApart
<1>1. ASSUME NEW s \in Senders, EnqueueCommit(s) PROVE MQ!MQNext
  <2>1. /\ sending[s] # 0 /\ rows' = rows \cup {sending[s]}
        /\ UNCHANGED <<backend, got>>
    BY <1>1 DEF EnqueueCommit
  <2>2. Table /\ sending[s] \in 1 .. MaxMessages
    BY SMT, <1>0, <1>a, <1>b, <2>1 DEF OwnPart
  <2>3. sending[s] \notin rows /\ \A t \in Takers : sending[s] \notin got[t]
    BY <1>0, <2>1 DEF SendingFresh
  <2>4. MQ!Accept(sending[s])
    BY <2>1, <2>2, <2>3, WaitingIs DEF MQ!Accept
  <2> QED
    BY <2>2, <2>4 DEF MQ!MQNext
<1>2. ASSUME NEW t \in Takers, DequeueCommit(t) PROVE MQ!MQNext
  <2>1. /\ taking[t] # 0 /\ rows' = rows \ {taking[t]} /\ UNCHANGED backend
        /\ got' = [got EXCEPT ![t] = @ \cup {taking[t]}]
    BY <1>2 DEF DequeueCommit, Gets
  <2>2. Table /\ taking[t] \in rows /\ taking[t] \in 1 .. MaxMessages
    BY <1>0, <1>a, <1>b, <2>1 DEF OwnPart
  <2>3. MQ!Deliver(t, taking[t])
    BY <2>1, <2>2, WaitingIs DEF MQ!Deliver
  <2> QED
    BY <2>2, <2>3 DEF MQ!MQNext
<1>3. ASSUME NEW t \in Takers, DequeueFails(t) PROVE MQ!MQNext
  <2>1. /\ taking[t] # 0 /\ rows' \in SUBSET rows /\ UNCHANGED <<backend, got>>
    BY <1>3 DEF DequeueFails
  <2>2. Table
    BY <1>0, <2>1 DEF OwnPart
  <2>3. MQ!Lose
    BY <2>1, <2>2, WaitingIs DEF MQ!Lose
  <2> QED
    BY <2>3 DEF MQ!MQNext
<1>4. CASE Enqueue
  <2>1. /\ ~Table /\ posted < MaxMessages
        /\ line' = Append(line, posted + 1) \/ UNCHANGED line
        /\ UNCHANGED <<backend, aside, got>>
    BY <1>4 DEF Enqueue
  <2>2. CASE UNCHANGED line
    BY <2>1, <2>2, WaitingIs
  <2>3. CASE line' = Append(line, posted + 1)
    <3>1. /\ posted + 1 \in 1 .. MaxMessages /\ posted + 1 \notin 0 .. posted
          /\ posted + 1 \notin 1 .. posted /\ posted + 1 # 0
      BY SMT, <1>a, <2>1, QueueAssumption
    <3>2. Elems(line') = Elems(line) \cup {posted + 1}
      BY <1>a, <2>3, <3>1, AppendElems DEF Numbers
    <3>3. Waiting' = Waiting \cup {posted + 1}
      BY <2>1, <3>1, <3>2, WaitingIs
    <3>4. posted + 1 \notin Waiting /\ \A t \in Takers : posted + 1 \notin got[t]
      BY <1>a, <2>1, <3>1, WaitingIs
    <3>5. MQ!Accept(posted + 1)
      BY <2>1, <3>3, <3>4 DEF MQ!Accept
    <3> QED
      BY <3>1, <3>5 DEF MQ!MQNext
  <2> QED
    BY <2>1, <2>2, <2>3
<1>5. ASSUME NEW t \in Takers, Dequeue(t) PROVE MQ!MQNext
  <2>1. /\ ~Table /\ line # <<>> /\ line' = Tail(line) /\ UNCHANGED <<backend, aside>>
        /\ got' = [got EXCEPT ![t] = @ \cup {Head(line)}] \/ UNCHANGED got
    BY <1>5 DEF Dequeue, Gets
  <2>2. \A u \in Takers : aside[u] # 0 => aside[u] # Head(line)
    BY <1>0, <1>c, <2>1 DEF LineApart, Holding
  <2>3. Head(line) # 0
    BY SMT, <1>c, <2>1
  <2>4. Head(line) \in Waiting /\ Waiting' = Waiting \ {Head(line)}
    BY <1>c, <2>1, <2>2, <2>3, WaitingIs
  <2>5. CASE UNCHANGED got
    BY <2>4, <2>5 DEF MQ!Lose, MQ!MQNext
  <2>6. CASE got' = [got EXCEPT ![t] = @ \cup {Head(line)}]
    BY <1>c, <2>1, <2>4, <2>6 DEF MQ!Deliver, MQ!MQNext
  <2> QED
    BY <2>1, <2>5, <2>6
<1>6. ASSUME NEW t \in Takers, PeekGet(t) PROVE UNCHANGED <<Waiting, got>>
  <2>1. /\ ~Table /\ line # <<>> /\ aside[t] = 0 /\ line' = Tail(line)
        /\ aside' = [aside EXCEPT ![t] = Head(line)] /\ UNCHANGED <<backend, got>>
    BY <1>6 DEF PeekGet, Table
  <2>2. \A u \in Takers : aside'[u] = IF u = t THEN Head(line) ELSE aside[u]
    BY <1>a, <2>1
  <2>3. Head(line) # 0
    BY SMT, <1>c, <2>1
  <2>4. {aside'[u] : u \in Takers} \ {0}
          = ({aside[u] : u \in Takers} \ {0}) \cup {Head(line)}
    BY <2>1, <2>2, <2>3
  <2> QED
    BY <1>c, <2>1, <2>4, WaitingIs
<1>7. ASSUME NEW t \in Takers, PeekNack(t) PROVE UNCHANGED <<Waiting, got>>
  <2>1. /\ aside[t] # 0 /\ line' = <<aside[t]>> \o line
        /\ aside' = [aside EXCEPT ![t] = 0] /\ UNCHANGED <<backend, got>>
    BY <1>7 DEF PeekNack
  <2>2. ~Table /\ aside[t] \in Numbers
    BY SMT, <1>0, <1>a, <1>b, <2>1 DEF OwnPart, Numbers
  <2>3. Elems(line') = Elems(line) \cup {aside[t]}
    BY SMT, <1>a, <2>1, <2>2, FrontElems
  <2>4. \A u \in Takers : aside'[u] = IF u = t THEN 0 ELSE aside[u]
    BY <1>a, <2>1
  <2>5. ({aside'[u] : u \in Takers} \ {0}) \cup {aside[t]} = {aside[u] : u \in Takers} \ {0}
    <3>1. \A u \in Takers : aside[u] = aside[t] => u = t
      BY <1>0, <2>1 DEF LineApart, Holding
    <3> QED
      BY SMT, <2>1, <2>4, <3>1
  <2> QED
    BY <2>1, <2>2, <2>3, <2>5, WaitingIs
<1>8. CASE StopProcess
  <2>1. ~Table /\ line' = <<>> /\ UNCHANGED <<backend, aside, got>>
    BY <1>8 DEF StopProcess, Table
  <2>2. Elems(line') = {}
    BY SMT, <2>1 DEF Elems
  <2>3. Waiting' \in SUBSET Waiting
    BY SMT, <2>1, <2>2, WaitingIs
  <2> QED
    BY <2>1, <2>3 DEF MQ!Lose, MQ!MQNext
<1>9. ASSUME NEW s \in Senders, EnqueueInsert(s) \/ EnqueueFails(s)
      PROVE  UNCHANGED <<Waiting, got>>
  BY <1>9 DEF EnqueueInsert, EnqueueFails, Waiting, Table
<1>10. ASSUME NEW t \in Takers, DequeueTake(t) PROVE UNCHANGED <<Waiting, got>>
  BY <1>10 DEF DequeueTake, Waiting, Table
<1>11. CASE UNCHANGED queueVars
  BY <1>11 DEF queueVars, Waiting, Table
<1> QED
  BY <1>1, <1>2, <1>3, <1>4, <1>5, <1>6, <1>7, <1>8, <1>9, <1>10, <1>11 DEF QueueNext

-----------------------------------------------------------------------------
\* On each backend, with any number of requests that interleave and fail, a
\* message goes to one taker and is then gone (queue/service.go:79): the queue
\* implements MessageQueue.
THEOREM QueueRefinement == QueueSpec => ImplementsQueue
<1>1. QueueInit => MQ!MQInit
  <2> SUFFICES ASSUME QueueInit PROVE Waiting = {} /\ got = [t \in Takers |-> {}]
    BY DEF MQ!MQInit
  <2>1. Elems(line) = {}
    BY SMT DEF QueueInit, Elems
  <2> QED
    BY <2>1 DEF QueueInit, Waiting
<1> QED
  BY QueueInitInv, QueueStep, QueueRefines, <1>1, PTL
     DEF QueueSpec, ImplementsQueue, MQ!MQSpec

-----------------------------------------------------------------------------
(* Schedules *)

Firings == 1 .. MaxFirings

TickRecords == [at : {"none", "insert", "update", "push"}, f : Nat]
TicksTyped(ticks, n) ==
  /\ ticks \in [Servers -> TickRecords]
  /\ \A s \in Servers : ticks[s].at # "none" => ticks[s].f \in 1 .. n
RowsTyped(open, locks, n) ==
  open \subseteq 1 .. n /\ locks \in [Waiters -> {0} \cup open]
ClaimsTyped(claims, n) ==
  claims \in [Firings -> Nat] /\ \A f \in Firings : f > n => claims[f] = 0

ScheduleTypeOK ==
  /\ pooled \in BOOLEAN /\ firings \in 0 .. MaxFirings
  /\ TicksTyped(ticking, firings)
  /\ queued \in [Servers -> Seq(1 .. firings)]
  /\ RowsTyped(pending, claiming, firings)
  /\ ClaimsTyped(rowClaims, firings) /\ ClaimsTyped(memoryClaims, firings)

\* Two servers are in ticks of different firings.
TicksApart == \A s, t \in Servers :
  ticking[s].at # "none" /\ ticking[s].f = ticking[t].f /\ ticking[t].at # "none"
  => s = t

\* A row that may still be claimed has answered nobody, nor has one that is
\* yet to be inserted; one transaction claims it.
RowsUnclaimed ==
  /\ \A f \in Firings : rowClaims[f] <= 1
  /\ \A f \in pending : rowClaims[f] = 0
  /\ \A s \in Servers : ticking[s].at = "insert" =>
       ticking[s].f \notin pending /\ rowClaims[ticking[s].f] = 0
  /\ \A v, w \in Waiters : claiming[v] # 0 /\ claiming[v] = claiming[w] => v = w

\* A firing in a queue is there once and has answered nobody from memory, nor
\* has one whose tick has not pushed it.
Unqueued(q, claims, f) ==
  claims[f] = 0 /\ \A t \in Servers : \A i \in 1 .. Len(q[t]) : q[t][i] # f

QueuesUnclaimed ==
  /\ \A f \in Firings : memoryClaims[f] <= 1
  /\ \A s \in Servers : \A i \in 1 .. Len(queued[s]) :
       memoryClaims[queued[s][i]] = 0
  /\ \A s, t \in Servers : \A i \in 1 .. Len(queued[s]), j \in 1 .. Len(queued[t]) :
       queued[s][i] = queued[t][j] => s = t /\ i = j
  /\ \A s \in Servers : ticking[s].at # "none" =>
       Unqueued(queued, memoryClaims, ticking[s].f)

\* Without a pool there are no ticks and no rows.
NoRowsInMemory == ~pooled =>
  /\ pending = {}
  /\ \A s \in Servers : ticking[s].at = "none"
  /\ \A f \in Firings : rowClaims[f] = 0

ScheduleInv == /\ ScheduleTypeOK /\ TicksApart /\ RowsUnclaimed
               /\ QueuesUnclaimed /\ NoRowsInMemory

-----------------------------------------------------------------------------
\* Every firing starts out unclaimed, in no tick and in no queue.
LEMMA InitInv == ScheduleInit => ScheduleInv
  BY SMT, ScheduleAssumption DEF ScheduleInit, ScheduleInv, ScheduleTypeOK, TicksTyped,
     TickRecords, RowsTyped, ClaimsTyped, TicksApart,
     RowsUnclaimed, QueuesUnclaimed, Unqueued, NoRowsInMemory, Firings, NoTick

\* What is typed for the firings so far is typed for one more.
LEMMA OneMore ==
  ASSUME NEW n \in Nat, NEW ticks, NEW open, NEW locks, NEW claims, NEW q
  PROVE  /\ TicksTyped(ticks, n) => TicksTyped(ticks, n + 1)
         /\ RowsTyped(open, locks, n) => RowsTyped(open, locks, n + 1)
         /\ ClaimsTyped(claims, n) => ClaimsTyped(claims, n + 1)
         /\ q \in [Servers -> Seq(1 .. n)] => q \in [Servers -> Seq(1 .. n + 1)]
<1>1. 1 .. n \subseteq 1 .. n + 1
  BY SMT
<1>2. TicksTyped(ticks, n) => TicksTyped(ticks, n + 1)
  BY <1>1 DEF TicksTyped
<1>3. RowsTyped(open, locks, n) => RowsTyped(open, locks, n + 1)
  BY <1>1 DEF RowsTyped
<1>4. ClaimsTyped(claims, n) => ClaimsTyped(claims, n + 1)
  BY SMT DEF ClaimsTyped, Firings
<1>5. ASSUME q \in [Servers -> Seq(1 .. n)]
      PROVE  q \in [Servers -> Seq(1 .. n + 1)]
  <2>1. \A t \in Servers : q[t] \in Seq(1 .. n + 1)
    BY SMT, <1>1, <1>5
  <2> QED
    BY <1>5, <2>1
<1> QED
  BY <1>2, <1>3, <1>4, <1>5

\* A server moves to another place of a tick.
LEMMA TickTyped ==
  ASSUME NEW n \in Nat, NEW ticks, TicksTyped(ticks, n), NEW s \in Servers,
         NEW r \in TickRecords, r.at # "none" => r.f \in 1 .. n
  PROVE  TicksTyped([ticks EXCEPT ![s] = r], n)
  BY DEF TicksTyped

\* A claim of a firing there was is counted.
LEMMA ClaimTyped ==
  ASSUME NEW n \in 0 .. MaxFirings, NEW claims, ClaimsTyped(claims, n),
         NEW f \in 1 .. n
  PROVE  ClaimsTyped([claims EXCEPT ![f] = @ + 1], n)
<1>1. f \in Firings
  BY SMT, ScheduleAssumption DEF Firings
<1>2. claims[f] + 1 \in Nat
  BY SMT, <1>1 DEF ClaimsTyped
<1>3. \A g \in Firings : g > n => g # f
  BY SMT, ScheduleAssumption DEF Firings
<1> QED
  BY <1>1, <1>2, <1>3 DEF ClaimsTyped

\* The typing is kept by every step.
LEMMA TypeStep == ScheduleInv /\ [ScheduleNext]_scheduleVars => ScheduleTypeOK'
<1> SUFFICES ASSUME ScheduleInv, [ScheduleNext]_scheduleVars
             PROVE  ScheduleTypeOK'
  OBVIOUS
<1>0. /\ pooled \in BOOLEAN /\ firings \in 0 .. MaxFirings
      /\ TicksTyped(ticking, firings)
      /\ queued \in [Servers -> Seq(1 .. firings)]
      /\ RowsTyped(pending, claiming, firings)
      /\ ClaimsTyped(rowClaims, firings) /\ ClaimsTyped(memoryClaims, firings)
  BY DEF ScheduleInv, ScheduleTypeOK
<1>n. firings \in Nat
  BY SMT, <1>0, ScheduleAssumption
<1>t. \A s \in Servers : /\ ticking[s] \in TickRecords
                         /\ ticking[s].at # "none" => ticking[s].f \in 1 .. firings
  BY <1>0 DEF TicksTyped
<1>1. CASE UNCHANGED <<pooled, firings, ticking, queued, pending, claiming,
                       rowClaims, memoryClaims>>
  BY <1>0, <1>1 DEF ScheduleTypeOK
<1>2. ASSUME SetEntry \/ TimeComes \/ UNCHANGED scheduleVars
      PROVE  UNCHANGED <<pooled, firings, ticking, queued, pending, claiming,
                         rowClaims, memoryClaims>>
  BY <1>2 DEF SetEntry, TimeComes, scheduleVars
<1>3. ASSUME NEW w \in Waiters, MemoryEmpty(w) \/ ClaimNothing(w)
      PROVE  UNCHANGED <<pooled, firings, ticking, queued, pending, claiming,
                         rowClaims, memoryClaims>>
  BY <1>3 DEF MemoryEmpty, ClaimNothing
<1>4. ASSUME NEW s \in Servers, TickSelect(s) PROVE ScheduleTypeOK'
  <2> DEFINE r == [at |-> "insert", f |-> firings + 1]
  <2>1. /\ firings < MaxFirings /\ firings' = firings + 1
        /\ ticking' = [ticking EXCEPT ![s] = r]
        /\ UNCHANGED <<pooled, queued, pending, claiming, rowClaims, memoryClaims>>
    BY <1>4 DEF TickSelect
  <2>2. r \in TickRecords /\ r.f \in 1 .. firings + 1
    BY SMT, <1>n DEF TickRecords
  <2> HIDE DEF r
  <2>3. TicksTyped(ticking', firings + 1)
    <3>1. TicksTyped(ticking, firings + 1)
      BY <1>0, <1>n, OneMore
    <3>2. firings + 1 \in Nat
      BY SMT, <1>n
    <3>3. TicksTyped([ticking EXCEPT ![s] = r], firings + 1)
      BY <2>2, <3>1, <3>2, TickTyped
    <3> QED
      BY <2>1, <3>3
  <2>4. firings' \in 0 .. MaxFirings
    BY SMT, <1>n, <2>1, ScheduleAssumption
  <2> QED
    BY <1>0, <1>n, <2>1, <2>3, <2>4, OneMore DEF ScheduleTypeOK
<1>5. ASSUME NEW s \in Servers, TickInsert(s) PROVE ScheduleTypeOK'
  <2> DEFINE r == [ticking[s] EXCEPT !.at = "update"]
  <2>1. /\ ticking[s].at = "insert"
        /\ ticking' = [ticking EXCEPT ![s] = r]
        /\ pending' \in {pending, pending \cup {ticking[s].f}}
        /\ UNCHANGED <<pooled, firings, queued, claiming, rowClaims, memoryClaims>>
    BY <1>5 DEF TickInsert
  <2>2. r \in TickRecords /\ r.f \in 1 .. firings
    BY <1>t, <2>1 DEF TickRecords
  <2> HIDE DEF r
  <2>3. TicksTyped(ticking', firings)
    BY <1>0, <1>n, <2>1, <2>2, TickTyped
  <2>4. RowsTyped(pending', claiming, firings)
    BY <1>0, <1>t, <2>1 DEF RowsTyped
  <2> QED
    BY <1>0, <2>1, <2>3, <2>4 DEF ScheduleTypeOK
<1>6. ASSUME NEW s \in Servers, TickUpdate(s) PROVE ScheduleTypeOK'
  <2> DEFINE r == [ticking[s] EXCEPT !.at = "push"]
  <2>1. /\ ticking[s].at = "update"
        /\ ticking' = [ticking EXCEPT ![s] = r]
        /\ UNCHANGED <<pooled, firings, queued, pending, claiming, rowClaims,
                       memoryClaims>>
    BY <1>6 DEF TickUpdate
  <2>2. r \in TickRecords /\ r.f \in 1 .. firings
    BY <1>t, <2>1 DEF TickRecords
  <2> HIDE DEF r
  <2>3. TicksTyped(ticking', firings)
    BY <1>0, <1>n, <2>1, <2>2, TickTyped
  <2> QED
    BY <1>0, <2>1, <2>3 DEF ScheduleTypeOK
<1>r. NoTick \in TickRecords /\ NoTick.at = "none"
  BY DEF NoTick, TickRecords
<1>7. ASSUME NEW s \in Servers, PushMemory(s) \/ StopServer(s) PROVE ScheduleTypeOK'
  <2>1. /\ ticking' = [ticking EXCEPT ![s] = NoTick]
        /\ UNCHANGED <<pooled, firings, pending, claiming, rowClaims, memoryClaims>>
    BY <1>7 DEF PushMemory, StopServer
  <2>2. TicksTyped(ticking', firings)
    BY <1>0, <1>n, <1>r, <2>1, TickTyped
  <2>3. PICK q : /\ queued' = [queued EXCEPT ![s] = q]
                 /\ \/ q = <<>>
                    \/ ticking[s].at = "push" /\ q = Append(queued[s], ticking[s].f)
    BY <1>7 DEF PushMemory, StopServer
  <2>4. q \in Seq(1 .. firings)
    <3>1. queued[s] \in Seq(1 .. firings)
      BY <1>0
    <3>2. ticking[s].at = "push" => ticking[s].f \in 1 .. firings
      BY <1>t
    <3>3. CASE q = <<>>
      BY SMT, <3>3
    <3>4. CASE ticking[s].at = "push" /\ q = Append(queued[s], ticking[s].f)
      <4>1. ticking[s].f \in 1 .. firings
        BY <3>2, <3>4
      <4>2. Append(queued[s], ticking[s].f) \in Seq(1 .. firings)
        BY <3>1, <4>1, AppendProperties
      <4> QED
        BY <3>4, <4>2
    <3> QED
      BY <2>3, <3>3, <3>4
  <2>5. queued' \in [Servers -> Seq(1 .. firings)]
    BY <1>0, <2>3, <2>4
  <2> QED
    BY <1>0, <2>1, <2>2, <2>5 DEF ScheduleTypeOK
<1>8. ASSUME NEW s \in Servers, FireDueMemory(s) PROVE ScheduleTypeOK'
  <2>1. /\ firings < MaxFirings /\ firings' = firings + 1
        /\ queued' = [queued EXCEPT ![s] = Append(queued[s], firings + 1)]
        /\ UNCHANGED <<pooled, ticking, pending, claiming, rowClaims, memoryClaims>>
    BY <1>8 DEF FireDueMemory
  <2>2. queued \in [Servers -> Seq(1 .. firings + 1)]
    BY <1>0, <1>n, OneMore
  <2>3. firings + 1 \in 1 .. firings + 1
    BY SMT, <1>n
  <2>4. Append(queued[s], firings + 1) \in Seq(1 .. firings + 1)
    BY <2>2, <2>3, AppendProperties
  <2>5. queued' \in [Servers -> Seq(1 .. firings + 1)]
    BY <2>1, <2>2, <2>4
  <2>6. firings' \in 0 .. MaxFirings
    BY SMT, <1>n, <2>1, ScheduleAssumption
  <2> QED
    BY <1>0, <1>n, <2>1, <2>5, <2>6, OneMore DEF ScheduleTypeOK
<1>9. ASSUME NEW w \in Waiters, ClaimMemory(w) PROVE ScheduleTypeOK'
  <2>1. PICK s \in Servers :
          /\ queued[s] # <<>>
          /\ queued' = [queued EXCEPT ![s] = Tail(@)]
          /\ memoryClaims' = [memoryClaims EXCEPT ![Head(queued[s])] = @ + 1]
          /\ UNCHANGED <<pooled, firings, ticking, pending, claiming, rowClaims>>
    BY <1>9 DEF ClaimMemory
  <2>2. queued[s] \in Seq(1 .. firings)
    BY <1>0
  <2>3. Head(queued[s]) \in 1 .. firings /\ Tail(queued[s]) \in Seq(1 .. firings)
    BY <2>1, <2>2, HeadTailProperties
  <2>4. queued' \in [Servers -> Seq(1 .. firings)]
    BY <1>0, <2>1, <2>3
  <2>5. ClaimsTyped(memoryClaims', firings)
    BY <1>0, <2>1, <2>3, ClaimTyped
  <2> QED
    BY <1>0, <2>1, <2>4, <2>5 DEF ScheduleTypeOK
<1>10. ASSUME NEW w \in Waiters, Claim(w) PROVE ScheduleTypeOK'
  <2>1. PICK f \in pending :
          /\ claiming' = [claiming EXCEPT ![w] = f]
          /\ UNCHANGED <<pooled, firings, ticking, queued, pending, rowClaims,
                         memoryClaims>>
    BY <1>10 DEF Claim, Claimable
  <2>2. RowsTyped(pending, claiming', firings)
    BY <1>0, <2>1 DEF RowsTyped
  <2> QED
    BY <1>0, <2>1, <2>2 DEF ScheduleTypeOK
<1>11. ASSUME NEW w \in Waiters, ClaimCommit(w) \/ ClaimFails(w)
       PROVE  ScheduleTypeOK'
  <2>1. /\ claiming[w] # 0
        /\ pending' \in {pending, pending \ {claiming[w]}}
        /\ claiming' = [claiming EXCEPT ![w] = 0]
        /\ UNCHANGED <<pooled, firings, ticking, queued, memoryClaims>>
        /\ \/ UNCHANGED rowClaims
           \/ rowClaims' = [rowClaims EXCEPT ![claiming[w]] = @ + 1]
    BY <1>11 DEF ClaimCommit, ClaimFails
  <2>2. claiming[w] \in 1 .. firings
    BY <1>0, <2>1 DEF RowsTyped
  <2>3. \A v \in Waiters : v # w => claiming[v] = 0 \/ claiming[v] # claiming[w]
    BY <2>1 DEF ScheduleInv, RowsUnclaimed
  <2>4. RowsTyped(pending', claiming', firings)
    BY <1>0, <2>1, <2>3 DEF RowsTyped
  <2>5. ClaimsTyped(rowClaims', firings)
    <3>1. ClaimsTyped([rowClaims EXCEPT ![claiming[w]] = @ + 1], firings)
      BY <1>0, <2>2, ClaimTyped
    <3>2. CASE UNCHANGED rowClaims
      BY <1>0, <3>2
    <3>3. CASE rowClaims' = [rowClaims EXCEPT ![claiming[w]] = @ + 1]
      BY <3>1, <3>3
    <3> QED
      BY <2>1, <3>2, <3>3
  <2> QED
    BY <1>0, <2>1, <2>4, <2>5 DEF ScheduleTypeOK
<1> QED
  BY <1>1, <1>2, <1>3, <1>4, <1>5, <1>6, <1>7, <1>8, <1>9, <1>10, <1>11
     DEF ScheduleNext

\* What the steps of a tick leave of the ticks: the server moves on in its
\* firing, or ends it.
LEMMA TickMoves ==
  ASSUME ScheduleTypeOK, NEW s \in Servers,
         \/ TickInsert(s) \/ TickUpdate(s) \/ PushMemory(s) \/ StopServer(s)
  PROVE  /\ \A t \in Servers \ {s} : ticking'[t] = ticking[t]
         /\ ticking'[s].at # "insert"
         /\ \/ ticking'[s].at = "none"
            \/ ticking[s].at # "none" /\ ticking'[s].f = ticking[s].f
<1>1. ticking[s] \in [at : {"none", "insert", "update", "push"}, f : Nat]
  BY DEF ScheduleTypeOK, TicksTyped, TickRecords, RowsTyped, ClaimsTyped
<1>2. ticking \in [Servers -> [at : {"none", "insert", "update", "push"}, f : Nat]]
  BY DEF ScheduleTypeOK, TicksTyped, TickRecords, RowsTyped, ClaimsTyped
<1>3. CASE TickInsert(s)
  BY <1>1, <1>2, <1>3 DEF TickInsert
<1>4. CASE TickUpdate(s)
  BY <1>1, <1>2, <1>4 DEF TickUpdate
<1>5. CASE PushMemory(s) \/ StopServer(s)
  BY SMT, <1>1, <1>2, <1>5 DEF PushMemory, StopServer, NoTick
<1> QED
  BY <1>3, <1>4, <1>5

\* A tick takes a firing of its own.
LEMMA ApartStep == ScheduleInv /\ [ScheduleNext]_scheduleVars => TicksApart'
<1> SUFFICES ASSUME ScheduleInv, [ScheduleNext]_scheduleVars
             PROVE  TicksApart'
  OBVIOUS
<1>0. ScheduleTypeOK /\ TicksApart
  BY DEF ScheduleInv
<1>1. ASSUME NEW s \in Servers, TickSelect(s) PROVE TicksApart'
  <2>1. \A t \in Servers : ticking[t].at # "none" => ticking[t].f \in 1 .. firings
    BY <1>0 DEF ScheduleTypeOK, TicksTyped
  <2>2. firings \in Nat /\ ticking \in
          [Servers -> [at : {"none", "insert", "update", "push"}, f : Nat]]
    BY SMT, <1>0, ScheduleAssumption DEF ScheduleTypeOK, TicksTyped, TickRecords
  <2>3. ticking'[s] = [at |-> "insert", f |-> firings + 1]
    BY <1>1, <2>2 DEF TickSelect
  <2>4. \A t \in Servers \ {s} : ticking'[t] = ticking[t]
    BY <1>1, <2>2 DEF TickSelect
  <2> QED
    BY SMT, <1>0, <2>1, <2>2, <2>3, <2>4 DEF TicksApart
<1>2. ASSUME NEW s \in Servers,
             \/ TickInsert(s) \/ TickUpdate(s) \/ PushMemory(s) \/ StopServer(s)
      PROVE  TicksApart'
  BY SMT, <1>0, <1>2, TickMoves DEF TicksApart
<1>3. CASE UNCHANGED ticking
  BY <1>0, <1>3 DEF TicksApart
<1>4. ASSUME SetEntry \/ TimeComes \/ UNCHANGED scheduleVars PROVE UNCHANGED ticking
  BY <1>4 DEF SetEntry, TimeComes, scheduleVars
<1>5. ASSUME NEW s \in Servers, FireDueMemory(s) PROVE UNCHANGED ticking
  BY <1>5 DEF FireDueMemory
<1>6. ASSUME NEW w \in Waiters,
             \/ ClaimMemory(w) \/ MemoryEmpty(w) \/ Claim(w) \/ ClaimNothing(w)
             \/ ClaimCommit(w) \/ ClaimFails(w)
      PROVE  UNCHANGED ticking
  BY <1>6 DEF ClaimMemory, MemoryEmpty, Claim, ClaimNothing, ClaimCommit, ClaimFails
<1> QED
  BY <1>1, <1>2, <1>3, <1>4, <1>5, <1>6 DEF ScheduleNext

\* A row is inserted for a firing that has none, locked by one transaction
\* while it is pending, and not pending any more once it has answered.
LEMMA RowStep ==
  ScheduleInv /\ [ScheduleNext]_scheduleVars => RowsUnclaimed' /\ NoRowsInMemory'
<1> SUFFICES ASSUME ScheduleInv, [ScheduleNext]_scheduleVars
             PROVE  RowsUnclaimed' /\ NoRowsInMemory'
  OBVIOUS
<1>0. ScheduleTypeOK /\ TicksApart /\ RowsUnclaimed /\ NoRowsInMemory
  BY DEF ScheduleInv
<1>a. /\ ticking \in [Servers -> [at : {"none", "insert", "update", "push"}, f : Nat]]
      /\ \A s \in Servers : ticking[s].at # "none" => ticking[s].f \in 1 .. firings
      /\ firings \in Nat /\ pending \subseteq 1 .. firings
      /\ claiming \in [Waiters -> {0} \cup pending]
      /\ rowClaims \in [Firings -> Nat] /\ 1 .. firings \subseteq Firings
      /\ \A f \in Firings : f > firings => rowClaims[f] = 0
  BY SMT, <1>0, ScheduleAssumption
     DEF ScheduleTypeOK, TicksTyped, TickRecords, RowsTyped, ClaimsTyped, Firings
<1>1. ASSUME NEW s \in Servers, TickSelect(s)
      PROVE  RowsUnclaimed' /\ NoRowsInMemory'
  <2>1. /\ ticking'[s] = [at |-> "insert", f |-> firings + 1]
        /\ \A t \in Servers \ {s} : ticking'[t] = ticking[t]
        /\ pooled /\ UNCHANGED <<pooled, pending, claiming, rowClaims>>
    BY <1>a, <1>1 DEF TickSelect
  <2>2. firings + 1 \notin pending /\ firings + 1 \in Firings
    BY SMT, <1>a, <1>1, ScheduleAssumption DEF TickSelect, Firings
  <2> QED
    BY SMT, <1>0, <1>a, <2>1, <2>2 DEF RowsUnclaimed, NoRowsInMemory
<1>2. ASSUME NEW s \in Servers, TickInsert(s)
      PROVE  RowsUnclaimed' /\ NoRowsInMemory'
  <2>1. /\ ticking[s].at = "insert"
        /\ pending' \in {pending, pending \cup {ticking[s].f}}
        /\ UNCHANGED <<pooled, claiming, rowClaims>>
    BY <1>2 DEF TickInsert
  <2>2. /\ \A t \in Servers \ {s} : ticking'[t] = ticking[t]
        /\ ticking'[s].at # "insert"
    BY <1>0, <1>2, TickMoves
  <2>3. pooled
    BY <1>0, <2>1 DEF NoRowsInMemory
  <2>4. \A t \in Servers \ {s} : ticking'[t].at = "insert" =>
          ticking'[t].f \notin pending' /\ rowClaims[ticking'[t].f] = 0
    BY SMT, <1>0, <2>1, <2>2 DEF RowsUnclaimed, TicksApart
  <2>5. \A f \in pending' : rowClaims[f] = 0
    BY <1>0, <2>1 DEF RowsUnclaimed
  <2> QED
    BY <1>0, <2>1, <2>2, <2>3, <2>4, <2>5 DEF RowsUnclaimed, NoRowsInMemory
<1>3. ASSUME NEW s \in Servers, TickUpdate(s) \/ PushMemory(s) \/ StopServer(s)
      PROVE  RowsUnclaimed' /\ NoRowsInMemory'
  <2>1. UNCHANGED <<pooled, pending, claiming, rowClaims>>
    BY <1>3 DEF TickUpdate, PushMemory, StopServer
  <2>2. /\ \A t \in Servers \ {s} : ticking'[t] = ticking[t]
        /\ ticking'[s].at # "insert"
        /\ ticking'[s].at = "none" \/ ticking[s].at # "none"
    BY <1>0, <1>3, TickMoves
  <2> QED
    BY <1>0, <2>1, <2>2 DEF RowsUnclaimed, NoRowsInMemory
<1>4. ASSUME NEW w \in Waiters, Claim(w)
      PROVE  RowsUnclaimed' /\ NoRowsInMemory'
  <2>1. PICK f \in Claimable :
          /\ claiming' = [claiming EXCEPT ![w] = f]
          /\ UNCHANGED <<pooled, ticking, pending, rowClaims>>
    BY <1>4 DEF Claim
  <2>2. \A v \in Waiters : claiming[v] # f
    BY <2>1 DEF Claimable
  <2>3. \A v \in Waiters : claiming'[v] = IF v = w THEN f ELSE claiming[v]
    BY <1>a, <2>1
  <2> QED
    BY SMT, <1>0, <2>1, <2>2, <2>3 DEF RowsUnclaimed, NoRowsInMemory
<1>5. ASSUME NEW w \in Waiters, ClaimCommit(w) \/ ClaimFails(w)
      PROVE  RowsUnclaimed' /\ NoRowsInMemory'
  <2>1. /\ claiming[w] # 0
        /\ claiming' = [claiming EXCEPT ![w] = 0]
        /\ pending' \subseteq pending /\ UNCHANGED <<pooled, ticking>>
        /\ \/ UNCHANGED rowClaims
           \/ /\ rowClaims' = [rowClaims EXCEPT ![claiming[w]] = @ + 1]
              /\ claiming[w] \notin pending'
    BY <1>5 DEF ClaimCommit, ClaimFails
  <2>2. claiming[w] \in pending /\ rowClaims[claiming[w]] = 0 /\ pooled
    BY <1>0, <1>a, <2>1 DEF RowsUnclaimed, NoRowsInMemory
  <2>3. \A v \in Waiters : claiming'[v] = IF v = w THEN 0 ELSE claiming[v]
    BY <1>a, <2>1
  <2>4. \A f \in Firings : \/ rowClaims'[f] = rowClaims[f]
                           \/ /\ f = claiming[w] /\ f \notin pending'
                              /\ rowClaims'[f] = 1
    BY SMT, <1>a, <2>1, <2>2
  <2>5. \A s \in Servers : ticking[s].at = "insert" => ticking[s].f # claiming[w]
    BY <1>0, <2>2 DEF RowsUnclaimed
  <2>6. \A s \in Servers : ticking[s].at = "insert" => ticking[s].f \in Firings
    BY <1>a
  <2>7. pending' \subseteq Firings
    BY <1>a, <2>1
  <2> QED
    BY SMT, <1>0, <2>1, <2>2, <2>3, <2>4, <2>5, <2>6, <2>7
       DEF RowsUnclaimed, NoRowsInMemory
<1>6. CASE UNCHANGED <<pooled, ticking, pending, claiming, rowClaims>>
  BY <1>0, <1>6 DEF RowsUnclaimed, NoRowsInMemory
<1>7. ASSUME SetEntry \/ TimeComes \/ UNCHANGED scheduleVars
      PROVE  UNCHANGED <<pooled, ticking, pending, claiming, rowClaims>>
  BY <1>7 DEF SetEntry, TimeComes, scheduleVars
<1>8. ASSUME NEW s \in Servers, FireDueMemory(s)
      PROVE  UNCHANGED <<pooled, ticking, pending, claiming, rowClaims>>
  BY <1>8 DEF FireDueMemory
<1>9. ASSUME NEW w \in Waiters, ClaimMemory(w) \/ MemoryEmpty(w) \/ ClaimNothing(w)
      PROVE  UNCHANGED <<pooled, ticking, pending, claiming, rowClaims>>
  BY <1>9 DEF ClaimMemory, MemoryEmpty, ClaimNothing
<1> QED
  BY <1>1, <1>2, <1>3, <1>4, <1>5, <1>6, <1>7, <1>8, <1>9 DEF ScheduleNext

\* Appending a firing that is in no queue, in no other tick and unclaimed.
LEMMA AppendUnclaimed ==
  ASSUME ScheduleTypeOK, QueuesUnclaimed, NEW s \in Servers, NEW f \in Firings,
         memoryClaims[f] = 0, UNCHANGED memoryClaims,
         \A t \in Servers : \A i \in 1 .. Len(queued[t]) : queued[t][i] # f,
         \A t \in Servers : ticking'[t].at # "none" =>
           /\ ticking[t].at # "none"
           /\ ticking'[t].f = ticking[t].f /\ ticking[t].f # f,
         queued' = [queued EXCEPT ![s] = Append(@, f)]
  PROVE  QueuesUnclaimed'
<1>1. \A t \in Servers : queued[t] \in Seq(1 .. firings)
  BY DEF ScheduleTypeOK, TicksTyped, TickRecords, RowsTyped, ClaimsTyped
<1>2. \A t \in Servers : queued'[t] = IF t = s THEN Append(queued[s], f) ELSE queued[t]
  BY DEF ScheduleTypeOK, TicksTyped, TickRecords, RowsTyped, ClaimsTyped
<1>3. /\ Len(queued'[s]) = Len(queued[s]) + 1 /\ Len(queued[s]) \in Nat
      /\ queued'[s][Len(queued[s]) + 1] = f
      /\ \A i \in 1 .. Len(queued[s]) : queued'[s][i] = queued[s][i]
  <2>1. queued[s] \in Seq(Firings) /\ queued'[s] = Append(queued[s], f)
    BY SMT, <1>1, <1>2, ScheduleAssumption
       DEF ScheduleTypeOK, TicksTyped, TickRecords, RowsTyped, ClaimsTyped, Firings
  <2> QED
    BY SMT, <2>1, AppendProperties, LenProperties
<1>4. \A t \in Servers : \A i \in 1 .. Len(queued'[t]) :
        \/ i \in 1 .. Len(queued[t]) /\ queued'[t][i] = queued[t][i]
        \/ t = s /\ i = Len(queued[s]) + 1 /\ queued'[t][i] = f
  BY SMT, <1>2, <1>3
<1>5. \A t, u \in Servers :
        \A i \in 1 .. Len(queued'[t]), j \in 1 .. Len(queued'[u]) :
          queued'[t][i] = queued'[u][j] => t = u /\ i = j
  <2> TAKE t, u \in Servers
  <2> TAKE i \in 1 .. Len(queued'[t]), j \in 1 .. Len(queued'[u])
  <2>1. CASE queued'[t][i] = f
    BY SMT, <2>1, <1>4
  <2>2. CASE queued'[t][i] # f
    BY SMT, <2>2, <1>4 DEF QueuesUnclaimed, Unqueued
  <2> QED
    BY <2>1, <2>2
<1>6. \A t \in Servers : \A i \in 1 .. Len(queued'[t]) :
        memoryClaims'[queued'[t][i]] = 0
  BY SMT, <1>4 DEF QueuesUnclaimed, Unqueued
<1>7. \A t \in Servers : ticking'[t].at # "none" =>
        /\ memoryClaims'[ticking'[t].f] = 0
        /\ \A u \in Servers : \A i \in 1 .. Len(queued'[u]) :
             queued'[u][i] # ticking'[t].f
  BY SMT, <1>4 DEF QueuesUnclaimed, Unqueued
<1> QED
  BY <1>5, <1>6, <1>7 DEF QueuesUnclaimed, Unqueued

\* A firing enters one queue, from the tick that has it or as it is numbered,
\* and leaves it to answer one waiter or with its process.
LEMMA QueuedStep == ScheduleInv /\ [ScheduleNext]_scheduleVars => QueuesUnclaimed'
<1> SUFFICES ASSUME ScheduleInv, [ScheduleNext]_scheduleVars
             PROVE  QueuesUnclaimed'
  OBVIOUS
<1>0. ScheduleTypeOK /\ TicksApart /\ QueuesUnclaimed
  BY DEF ScheduleInv
<1>a. /\ ticking \in [Servers -> [at : {"none", "insert", "update", "push"}, f : Nat]]
      /\ \A s \in Servers : ticking[s].at # "none" => ticking[s].f \in 1 .. firings
      /\ firings \in Nat /\ 1 .. firings \subseteq Firings
      /\ memoryClaims \in [Firings -> Nat]
      /\ \A f \in Firings : f > firings => memoryClaims[f] = 0
  BY SMT, <1>0, ScheduleAssumption
     DEF ScheduleTypeOK, TicksTyped, TickRecords, RowsTyped, ClaimsTyped, Firings
<1>b. queued \in [Servers -> Seq(1 .. firings)]
  BY <1>0 DEF ScheduleTypeOK, TicksTyped, TickRecords, RowsTyped, ClaimsTyped
<1>c. \A t \in Servers : \A i \in 1 .. Len(queued[t]) : queued[t][i] \in 1 .. firings
  BY <1>b, ElementOfSeq
<1>d. \A t, u \in Servers : \A i \in 1 .. Len(queued[t]), j \in 1 .. Len(queued[u]) :
        queued[t][i] = queued[u][j] => t = u /\ i = j
  BY <1>0 DEF QueuesUnclaimed, Unqueued
<1>1. ASSUME NEW s \in Servers, TickSelect(s) PROVE QueuesUnclaimed'
  <2>1. /\ ticking'[s] = [at |-> "insert", f |-> firings + 1]
        /\ \A t \in Servers \ {s} : ticking'[t] = ticking[t]
        /\ UNCHANGED <<queued, memoryClaims>>
    BY <1>a, <1>1 DEF TickSelect
  <2>2. memoryClaims[firings + 1] = 0
    BY SMT, <1>a, <1>0, <1>1, ScheduleAssumption DEF TickSelect, Firings
  <2>3. \A t \in Servers : \A i \in 1 .. Len(queued[t]) : queued[t][i] # firings + 1
    BY SMT, <1>a, <1>c
  <2>4. Unqueued(queued, memoryClaims, firings + 1)
    BY <2>2, <2>3 DEF Unqueued
  <2>5. \A t \in Servers : ticking'[t].at # "none" =>
          Unqueued(queued, memoryClaims, ticking'[t].f)
    BY SMT, <1>0, <2>1, <2>4 DEF QueuesUnclaimed
  <2> QED
    BY SMT, <1>0, <2>1, <2>5 DEF QueuesUnclaimed
<1>2. ASSUME NEW s \in Servers, TickInsert(s) \/ TickUpdate(s)
      PROVE  QueuesUnclaimed'
  <2>1. UNCHANGED <<queued, memoryClaims>>
    BY <1>2 DEF TickInsert, TickUpdate
  <2>2. /\ \A t \in Servers \ {s} : ticking'[t] = ticking[t]
        /\ \/ ticking'[s].at = "none"
           \/ ticking[s].at # "none" /\ ticking'[s].f = ticking[s].f
    BY <1>0, <1>2, TickMoves
  <2>3. \A t \in Servers : ticking'[t].at # "none" =>
          Unqueued(queued, memoryClaims, ticking'[t].f)
    BY <1>0, <2>2 DEF QueuesUnclaimed
  <2> QED
    BY SMT, <1>0, <2>1, <2>3 DEF QueuesUnclaimed
<1>3. ASSUME NEW s \in Servers, PushMemory(s) PROVE QueuesUnclaimed'
  <2>1. /\ ticking[s].at = "push" /\ UNCHANGED memoryClaims
        /\ queued' = [queued EXCEPT ![s] = Append(@, ticking[s].f)]
        /\ ticking' = [ticking EXCEPT ![s] = NoTick]
    BY <1>3 DEF PushMemory
  <2>2. /\ ticking'[s].at = "none"
        /\ \A t \in Servers \ {s} : ticking'[t] = ticking[t]
    BY <1>a, <2>1 DEF NoTick
  <2>3. /\ ticking[s].f \in Firings /\ memoryClaims[ticking[s].f] = 0
        /\ \A t \in Servers : \A i \in 1 .. Len(queued[t]) : queued[t][i] # ticking[s].f
    BY <1>0, <1>a, <2>1 DEF QueuesUnclaimed, Unqueued
  <2>4. \A t \in Servers : ticking'[t].at # "none" =>
          /\ ticking[t].at # "none"
          /\ ticking'[t].f = ticking[t].f /\ ticking[t].f # ticking[s].f
    BY <1>0, <2>1, <2>2 DEF TicksApart
  <2> QED
    BY <1>0, <2>1, <2>3, <2>4, AppendUnclaimed
<1>4. ASSUME NEW s \in Servers, FireDueMemory(s) PROVE QueuesUnclaimed'
  <2>1. /\ UNCHANGED <<memoryClaims, ticking>>
        /\ queued' = [queued EXCEPT ![s] = Append(@, firings + 1)]
    BY <1>4 DEF FireDueMemory
  <2>2. firings + 1 \in Firings /\ memoryClaims[firings + 1] = 0
    BY SMT, <1>a, <1>4, ScheduleAssumption DEF FireDueMemory, Firings
  <2>3. \A t \in Servers : \A i \in 1 .. Len(queued[t]) : queued[t][i] # firings + 1
    BY SMT, <1>a, <1>c
  <2>4. \A t \in Servers : ticking'[t].at # "none" =>
          /\ ticking[t].at # "none"
          /\ ticking'[t].f = ticking[t].f /\ ticking[t].f # firings + 1
    BY SMT, <1>a, <2>1
  <2> QED
    BY <1>0, <2>1, <2>2, <2>3, <2>4, AppendUnclaimed
<1>5. ASSUME NEW s \in Servers, StopServer(s) PROVE QueuesUnclaimed'
  <2>1. /\ UNCHANGED memoryClaims /\ ticking'[s].at = "none"
        /\ \A t \in Servers \ {s} : ticking'[t] = ticking[t] /\ queued'[t] = queued[t]
        /\ queued'[s] = <<>>
    BY <1>a, <1>b, <1>5 DEF StopServer, NoTick
  <2>2. \A t \in Servers : \A i \in 1 .. Len(queued'[t]) :
          t # s /\ i \in 1 .. Len(queued[t]) /\ queued'[t][i] = queued[t][i]
    BY SMT, <2>1
  <2>3. \A t \in Servers : ticking'[t].at # "none" => ticking'[t] = ticking[t]
    BY <2>1
  <2>4. \A t, u \in Servers :
          \A i \in 1 .. Len(queued'[t]), j \in 1 .. Len(queued'[u]) :
            queued'[t][i] = queued'[u][j] => t = u /\ i = j
    BY SMT, <1>d, <2>2
  <2>5. \A t \in Servers : \A i \in 1 .. Len(queued'[t]) :
          memoryClaims[queued'[t][i]] = 0
    BY SMT, <1>0, <2>2 DEF QueuesUnclaimed, Unqueued
  <2>6. \A t \in Servers : ticking'[t].at # "none" =>
          /\ memoryClaims[ticking'[t].f] = 0
          /\ \A u \in Servers : \A i \in 1 .. Len(queued'[u]) :
               queued'[u][i] # ticking'[t].f
    <3> SUFFICES ASSUME NEW t \in Servers, ticking'[t].at # "none"
                 PROVE  /\ memoryClaims[ticking'[t].f] = 0
                        /\ \A u \in Servers : \A i \in 1 .. Len(queued'[u]) :
                             queued'[u][i] # ticking'[t].f
      OBVIOUS
    <3>1. ticking'[t] = ticking[t]
      BY <2>3
    <3>2. Unqueued(queued, memoryClaims, ticking[t].f)
      BY <1>0, <3>1 DEF QueuesUnclaimed
    <3> QED
      BY SMT, <2>2, <3>1, <3>2 DEF Unqueued
  <2>7. \A f \in Firings : memoryClaims[f] <= 1
    BY <1>0 DEF QueuesUnclaimed, Unqueued
  <2> QED
    BY <2>1, <2>4, <2>5, <2>6, <2>7 DEF QueuesUnclaimed, Unqueued
<1>6. ASSUME NEW w \in Waiters, ClaimMemory(w) PROVE QueuesUnclaimed'
  <2>1. PICK s \in Servers :
          /\ queued[s] # <<>> /\ UNCHANGED ticking
          /\ queued' = [queued EXCEPT ![s] = Tail(@)]
          /\ memoryClaims' = [memoryClaims EXCEPT ![Head(queued[s])] = @ + 1]
    BY <1>6 DEF ClaimMemory
  <2>2. /\ queued'[s] = Tail(queued[s])
        /\ \A t \in Servers \ {s} : queued'[t] = queued[t]
    BY <1>b, <2>1
  <2>3. queued[s] \in Seq(1 .. firings)
    BY <1>b
  <2>4. /\ Len(queued[s]) \in Nat \ {0} /\ Len(queued'[s]) = Len(queued[s]) - 1
        /\ Head(queued[s]) = queued[s][1]
        /\ \A i \in 1 .. Len(queued'[s]) :
             i + 1 \in 1 .. Len(queued[s]) /\ queued'[s][i] = queued[s][i + 1]
    <3>1. Len(queued[s]) \in Nat \ {0} /\ Head(queued[s]) = queued[s][1]
      BY SMT, <2>1, <2>3, EmptySeq
    <3>2. /\ Len(queued'[s]) = Len(queued[s]) - 1
          /\ \A i \in 1 .. Len(queued'[s]) : queued'[s][i] = queued[s][i + 1]
      <4>1. /\ Len(Tail(queued[s])) = Len(queued[s]) - 1
            /\ \A i \in 1 .. Len(Tail(queued[s])) : Tail(queued[s])[i] = queued[s][i + 1]
        BY <2>1, <2>3, HeadTailProperties
      <4> QED
        BY <4>1, <2>2
    <3> QED
      BY SMT, <3>1, <3>2
  <2>b. \A t \in Servers : \A i \in 1 .. Len(queued'[t]) :
          \E k \in 1 .. Len(queued[t]) :
            /\ queued'[t][i] = queued[t][k]
            /\ k = IF t = s THEN i + 1 ELSE i
    BY <2>2, <2>4
  <2> DEFINE f == queued[s][1]
  <2>5. /\ f \in Firings /\ memoryClaims[f] = 0
        /\ memoryClaims' = [memoryClaims EXCEPT ![f] = @ + 1]
    BY SMT, <1>0, <1>a, <1>c, <2>1, <2>4 DEF QueuesUnclaimed, Unqueued
  <2>6. \A g \in Firings : \/ g # f /\ memoryClaims'[g] = memoryClaims[g]
                           \/ g = f /\ memoryClaims'[g] = 1
    BY SMT, <1>a, <2>5
  <2>7. \A t \in Servers : \A i \in 1 .. Len(queued'[t]) :
          /\ queued'[t][i] \in Firings /\ queued'[t][i] # f
          /\ memoryClaims[queued'[t][i]] = 0
    <3> SUFFICES ASSUME NEW t \in Servers, NEW i \in 1 .. Len(queued'[t])
                 PROVE  /\ queued'[t][i] \in Firings /\ queued'[t][i] # f
                        /\ memoryClaims[queued'[t][i]] = 0
      OBVIOUS
    <3>1. PICK k \in 1 .. Len(queued[t]) : /\ queued'[t][i] = queued[t][k]
                                          /\ k = IF t = s THEN i + 1 ELSE i
      BY <2>b
    <3>2. t = s => k # 1
      BY SMT, <3>1
    <3>3. queued[t][k] # f
      BY SMT, <1>0, <2>4, <3>2 DEF QueuesUnclaimed, Unqueued
    <3>4. memoryClaims[queued[t][k]] = 0
      BY <1>0 DEF QueuesUnclaimed, Unqueued
    <3>5. queued[t][k] \in Firings
      BY <1>a, <1>c
    <3> QED
      BY <3>1, <3>3, <3>4, <3>5
  <2>8. \A t, u \in Servers :
          \A i \in 1 .. Len(queued'[t]), j \in 1 .. Len(queued'[u]) :
            queued'[t][i] = queued'[u][j] => t = u /\ i = j
    <3> SUFFICES ASSUME NEW t \in Servers, NEW u \in Servers,
                        NEW i \in 1 .. Len(queued'[t]), NEW j \in 1 .. Len(queued'[u]),
                        queued'[t][i] = queued'[u][j]
                 PROVE  t = u /\ i = j
      OBVIOUS
    <3>1. PICK k \in 1 .. Len(queued[t]) : /\ queued'[t][i] = queued[t][k]
                                          /\ k = IF t = s THEN i + 1 ELSE i
      BY <2>b
    <3>2. PICK l \in 1 .. Len(queued[u]) : /\ queued'[u][j] = queued[u][l]
                                          /\ l = IF u = s THEN j + 1 ELSE j
      BY <2>b
    <3>3. queued[t][k] = queued[u][l]
      BY <3>1, <3>2
    <3>4. t = u /\ k = l
      BY <1>d, <3>3
    <3> QED
      BY SMT, <3>1, <3>2, <3>4
  <2>9. \A t \in Servers : ticking[t].at # "none" =>
          /\ ticking[t].f \in Firings /\ ticking[t].f # f
          /\ memoryClaims[ticking[t].f] = 0
          /\ \A u \in Servers : \A i \in 1 .. Len(queued'[u]) :
               queued'[u][i] # ticking[t].f
    <3> SUFFICES ASSUME NEW t \in Servers, ticking[t].at # "none"
                 PROVE  /\ ticking[t].f \in Firings /\ ticking[t].f # f
                        /\ memoryClaims[ticking[t].f] = 0
                        /\ \A u \in Servers : \A i \in 1 .. Len(queued'[u]) :
                             queued'[u][i] # ticking[t].f
      OBVIOUS
    <3>1. Unqueued(queued, memoryClaims, ticking[t].f)
      BY <1>0 DEF QueuesUnclaimed
    <3>2. 1 \in 1 .. Len(queued[s])
      BY SMT, <2>4
    <3>3. ticking[t].f # f
      BY <3>1, <3>2 DEF Unqueued
    <3>4. \A u \in Servers : \A i \in 1 .. Len(queued'[u]) :
            queued'[u][i] # ticking[t].f
      BY SMT, <2>b, <3>1 DEF Unqueued
    <3> QED
      BY <1>a, <3>1, <3>3, <3>4 DEF Unqueued
  <2>10. \A t \in Servers : \A i \in 1 .. Len(queued'[t]) :
           memoryClaims'[queued'[t][i]] = 0
    BY SMT, <2>6, <2>7
  <2>11. \A t \in Servers : ticking'[t].at # "none" =>
           /\ memoryClaims'[ticking'[t].f] = 0
           /\ \A u \in Servers : \A i \in 1 .. Len(queued'[u]) :
                queued'[u][i] # ticking'[t].f
    <3>1. UNCHANGED ticking
      BY <2>1
    <3>2. \A t \in Servers : ticking[t].at # "none" => memoryClaims'[ticking[t].f] = 0
      BY <2>6, <2>9
    <3> QED
      BY <3>1, <3>2, <2>9
  <2>12. \A g \in Firings : memoryClaims'[g] <= 1
    BY SMT, <1>0, <2>6 DEF QueuesUnclaimed, Unqueued
  <2> QED
    BY <2>8, <2>10, <2>11, <2>12 DEF QueuesUnclaimed, Unqueued
<1>7. CASE UNCHANGED <<ticking, queued, memoryClaims>>
  BY SMT, <1>0, <1>7 DEF QueuesUnclaimed, Unqueued
<1>8. ASSUME SetEntry \/ TimeComes \/ UNCHANGED scheduleVars
      PROVE  UNCHANGED <<ticking, queued, memoryClaims>>
  BY <1>8 DEF SetEntry, TimeComes, scheduleVars
<1>9. ASSUME NEW w \in Waiters,
             \/ MemoryEmpty(w) \/ Claim(w) \/ ClaimNothing(w)
             \/ ClaimCommit(w) \/ ClaimFails(w)
      PROVE  UNCHANGED <<ticking, queued, memoryClaims>>
  BY <1>9 DEF MemoryEmpty, Claim, ClaimNothing, ClaimCommit, ClaimFails
<1> QED
  BY <1>1, <1>2, <1>3, <1>4, <1>5, <1>6, <1>7, <1>8, <1>9 DEF ScheduleNext

-----------------------------------------------------------------------------
\* However many servers tick and stop and however many waiters poll, neither
\* the row of a firing nor its copy in memory answers two waiters, and without
\* a pool no row does (schedule/service.go:168).
THEOREM CopyClaimedOnceHolds == ScheduleSpec => []CopyClaimedOnce
<1>1. ScheduleInv /\ [ScheduleNext]_scheduleVars => ScheduleInv'
  BY TypeStep, ApartStep, RowStep, QueuedStep DEF ScheduleInv
<1>2. ScheduleInv => CopyClaimedOnce
  BY DEF ScheduleInv, RowsUnclaimed, QueuesUnclaimed, NoRowsInMemory,
         CopyClaimedOnce, Firings
<1> QED
  BY InitInv, <1>1, <1>2, PTL DEF ScheduleSpec

\* Wait's "next undelivered firing" (schedule/service.go:136) is kept without a
\* pool.  With one, a firing answers two waiters at most, one from its row and
\* one from the memory of the server that fired it, whatever stops or fails.
THEOREM FiringAnswersHolds ==
  ScheduleSpec => [](/\ ~pooled => FiringGoesOnce
                     /\ \A f \in 1 .. MaxFirings : rowClaims[f] + memoryClaims[f] <= 2)
<1>1. ScheduleInv => /\ rowClaims \in [1 .. MaxFirings -> Nat]
                     /\ memoryClaims \in [1 .. MaxFirings -> Nat]
  BY DEF ScheduleInv, ScheduleTypeOK, ClaimsTyped, Firings
<1>2. ASSUME ScheduleInv, CopyClaimedOnce
      PROVE  /\ ~pooled => FiringGoesOnce
             /\ \A f \in 1 .. MaxFirings : rowClaims[f] + memoryClaims[f] <= 2
  <2>1. ASSUME NEW f \in 1 .. MaxFirings
        PROVE  /\ rowClaims[f] \in Nat /\ memoryClaims[f] \in Nat
               /\ rowClaims[f] <= 1 /\ memoryClaims[f] <= 1
               /\ ~pooled => rowClaims[f] = 0
    BY <1>1, <1>2 DEF CopyClaimedOnce
  <2>2. \A a, b \in Nat : a <= 1 /\ b <= 1 => a + b <= 2 /\ (a = 0 => a + b <= 1)
    BY SMT
  <2> QED
    BY <2>1, <2>2 DEF FiringGoesOnce
<1>3. ScheduleInv /\ [ScheduleNext]_scheduleVars => ScheduleInv'
  BY TypeStep, ApartStep, RowStep, QueuedStep DEF ScheduleInv
<1> QED
  BY InitInv, <1>2, <1>3, CopyClaimedOnceHolds, PTL DEF ScheduleSpec

=============================================================================
