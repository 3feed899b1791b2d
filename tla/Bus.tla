-------------------------------- MODULE Bus --------------------------------
(***************************************************************************)
(* A bus object (bus.Service): producers append events, and each named     *)
(* consumer has an offset.  In PostgreSQL a consume reads the offset,      *)
(* selects the events past it, writes the new offset and commits; in       *)
(* memory, and in the Kafka client, which is a slice too, it is one step   *)
(* under a mutex.                                                          *)
(***************************************************************************)
EXTENDS Naturals, FiniteSets, FiniteSetsExt

CONSTANTS Producers, Readers,   \* requests in progress
          Consumers, MaxEvents,
          Batch                 \* the most events one consume returns

ASSUME BusAssumption == MaxEvents \in Nat /\ Batch \in Nat \ {0}

VARIABLES busInDB,
          issued,    \* ids given so far (BIGSERIAL, or the slice's length)
          log,       \* the events that can be read
          producing, \* the event a producer has inserted and not committed
          offsets,   \* consumer -> last_id
          reading,   \* a consume under way
          handed,    \* consumer -> events that were in a consume of its own
          late       \* consumer -> events committed after a consume of its
                     \* own had already selected a higher one (history)

busVars == <<busInDB, issued, log, producing, offsets, reading, handed, late>>

NoRead == [at |-> "none", who |-> "none", last |-> 0, found |-> {}]

BusInit == /\ busInDB \in BOOLEAN
           /\ issued = 0 /\ log = {}
           /\ producing = [p \in Producers |-> 0]
           /\ offsets = [c \in Consumers |-> 0]
           /\ reading = [r \in Readers |-> NoRead]
           /\ handed = [c \in Consumers |-> {}]
           /\ late = [c \in Consumers |-> {}]

\* ORDER BY id LIMIT: the lowest Batch events past an offset.
Past(last) == {e \in log : /\ e > last
                           /\ Cardinality({f \in log : last < f /\ f < e}) < Batch}

-----------------------------------------------------------------------------
ProduceInsert(p) ==
  /\ busInDB /\ producing[p] = 0 /\ issued < MaxEvents
  /\ issued' = issued + 1
  /\ producing' = [producing EXCEPT ![p] = issued + 1]
  /\ UNCHANGED <<busInDB, log, offsets, reading, handed, late>>

\* Ids are given at INSERT and become visible at COMMIT, in another order.  (Two
\* consumes of a consumer may bring its offset back to a lower event, so what
\* was selected before is not told by the offset.)
ProduceCommit(p) ==
  LET e == producing[p]
      passed(c) == \/ \E f \in handed[c] : f > e
                   \/ \E r \in Readers : /\ reading[r].who = c
                                         /\ \E f \in reading[r].found : f > e
  IN  /\ e # 0
      /\ log' = log \cup {e}
      /\ late' = [c \in Consumers |-> late[c] \cup (IF passed(c) THEN {e} ELSE {})]
      /\ producing' = [producing EXCEPT ![p] = 0]
      /\ UNCHANGED <<busInDB, issued, offsets, reading, handed>>

ProduceFails(p) ==
  /\ producing[p] # 0
  /\ producing' = [producing EXCEPT ![p] = 0]
  /\ UNCHANGED <<busInDB, issued, log, offsets, reading, handed, late>>

\* Consume: the statements run one after the other at READ COMMITTED.
ReadOffset(r) == \E c \in Consumers :
  /\ busInDB /\ reading[r] = NoRead
  /\ reading' = [reading EXCEPT ![r] = [at |-> "select", who |-> c,
                                        last |-> offsets[c], found |-> {}]]
  /\ UNCHANGED <<busInDB, issued, log, producing, offsets, handed, late>>

SelectEvents(r) ==
  /\ reading[r].at = "select"
  /\ reading' = [reading EXCEPT ![r].at = "commit",
                                ![r].found = Past(reading[r].last)]
  /\ UNCHANGED <<busInDB, issued, log, producing, offsets, handed, late>>

\* The offset of the event after the last one.
NextOffset_Skips(last, found) == IF found = {} THEN last ELSE Max(found) + 1

\* The offset goes to the last event that was found.
NextOffset(last, found) == IF found = {} THEN last ELSE Max(found)

\* The upsert holds the offset's row until the commit that follows it, so
\* the two are one step to others; a failed answer loses what it held.
ConsumeCommit(r) ==
  LET c == reading[r].who  found == reading[r].found IN
  /\ reading[r].at = "commit"
  /\ offsets' = IF found = {} THEN offsets
                ELSE [offsets EXCEPT ![c] = NextOffset(@, found)]
  /\ handed' = [handed EXCEPT ![c] = @ \cup found]
  /\ reading' = [reading EXCEPT ![r] = NoRead]
  /\ UNCHANGED <<busInDB, issued, log, producing, late>>

ConsumeFails(r) ==
  /\ reading[r] # NoRead
  /\ reading' = [reading EXCEPT ![r] = NoRead]
  /\ UNCHANGED <<busInDB, issued, log, producing, offsets, handed, late>>

\* In memory, and in the Kafka client.
Produce ==
  /\ ~busInDB /\ issued < MaxEvents
  /\ issued' = issued + 1
  /\ log' = log \cup {issued + 1}
  /\ UNCHANGED <<busInDB, producing, offsets, reading, handed, late>>

Consume == \E c \in Consumers :
  LET found == Past(offsets[c]) IN
  /\ ~busInDB /\ found # {}
  /\ offsets' = [offsets EXCEPT ![c] = NextOffset(@, found)]
  /\ handed' = [handed EXCEPT ![c] = @ \cup found]
  /\ UNCHANGED <<busInDB, issued, log, producing, reading, late>>

BusNext ==
  \/ Produce \/ Consume
  \/ \E p \in Producers : ProduceInsert(p) \/ ProduceCommit(p) \/ ProduceFails(p)
  \/ \E r \in Readers : \/ ReadOffset(r) \/ SelectEvents(r) \/ ConsumeCommit(r)
                        \/ ConsumeFails(r)

BusSpec == BusInit /\ [][BusNext]_busVars

-----------------------------------------------------------------------------
\* A consumer's offset passes an event only with the consume that carries the
\* event, except for events that became visible too late; in memory there
\* are none of those (service.go:126).
SkippedOnlyLate == \A c \in Consumers :
  /\ \A e \in log : e <= offsets[c] => e \in handed[c] \cup late[c]
  /\ ~busInDB => late[c] = {} /\ offsets[c] <= Cardinality(log)
=============================================================================
