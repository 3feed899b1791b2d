---------------------------- MODULE ObjectProofs ----------------------------
(***************************************************************************)
(* Bus, counter, log and git objects and the pool of connections, for any  *)
(* number of callers, events, entries, values, branches and connections.   *)
(* Each part has its own inductive invariant; they share the facts about   *)
(* numbers at the beginning.                                               *)
(***************************************************************************)
EXTENDS Bus, Counter, LogStore, Scope, GitStore, FiniteSetTheorems,
        SequenceTheorems, WellFoundedInduction, TLAPS

\* The leaves are first-order unless they name the SMT solver.
USE Zenon

-----------------------------------------------------------------------------
\* A set of numbers that is not empty has a least element (the order of the
\* numbers is well-founded).
LEMMA LeastNumber ==
  ASSUME NEW S \in SUBSET Nat, S # {}
  PROVE  \E m \in S : \A n \in S : m <= n
<1> DEFINE R == OpToRel(<, Nat)
<1>1. IsWellFoundedOn(R, Nat)
  BY NatLessThanWellFounded
<1>2. \A a, b \in Nat : a < b => <<a, b>> \in R
  BY DEF OpToRel
<1> HIDE DEF R
<1>3. PICK m \in S : \A n \in S : ~ (<<n, m>> \in R)
  BY <1>1, WFMin
<1>4. ASSUME NEW n \in S PROVE m <= n
  <2>1. m \in Nat /\ n \in Nat /\ ~(n < m)
    BY <1>2, <1>3
  <2> QED
    BY SMT, <2>1
<1> QED
  BY <1>4

\* A bounded set of numbers that is not empty has a greatest element, and Max
\* is that element: the last of the events a consume found.
LEMMA MaxIsGreatest ==
  ASSUME NEW N \in Nat, NEW S \in SUBSET (0 .. N), S # {}
  PROVE  Max(S) \in S /\ \A n \in S : n <= Max(S)
<1> DEFINE D == {N - n : n \in S}
<1>1. \A n \in S : N - n \in Nat
  BY SMT
<1>2. D \in SUBSET Nat /\ D # {}
  BY <1>1
<1>3. PICK d \in D : \A e \in D : d <= e
  BY <1>2, LeastNumber
<1>4. PICK m \in S : d = N - m
  OBVIOUS
<1>5. \A n \in S : N - m <= N - n
  BY <1>3, <1>4
<1>6. \E x \in S : \A n \in S : x >= n
  BY SMT, <1>5
<1> QED
  BY <1>6 DEF Max

-----------------------------------------------------------------------------
\* Bus.  What a consume has found, and what was handed over, covers every
\* event up to its last one, but for late events.
Covers(seen, els, late_c) == \A f \in seen, e \in els :
  e <= f => e \in seen \cup late_c

Reads == [at : {"none", "select", "commit"}, who : Consumers \cup {"none"},
          last : Nat, found : SUBSET Nat]

BusTypeOK ==
  /\ busInDB \in BOOLEAN /\ issued \in Nat /\ log \in SUBSET (1 .. issued)
  /\ producing \in [Producers -> 0 .. issued]
  /\ offsets \in [Consumers -> Nat]
  /\ reading \in [Readers -> Reads]
  /\ handed \in [Consumers -> SUBSET log]
  /\ late \in [Consumers -> SUBSET Nat]

\* A read under way started from an offset that was reached by handing over,
\* and has selected without a gap.
ReadCovers(r, els, hs, ls) ==
  /\ r.at # "none" => r.who \in Consumers
  /\ r.at = "none" => r.found = {}
  /\ r.found \in SUBSET els
  /\ r.at # "none" => r.last = 0 \/ r.last \in hs[r.who]
  /\ r.at = "commit" =>
       \A f \in r.found, e \in els :
         e <= f => e \in r.found \cup hs[r.who] \cup ls[r.who]

\* In memory nothing is under way, and every event is visible at once.
InMemoryAtOnce ==
  ~busInDB => /\ log = 1 .. issued
              /\ \A p \in Producers : producing[p] = 0
              /\ \A r \in Readers : reading[r].at = "none"
              /\ \A c \in Consumers : late[c] = {}

BusInv ==
  /\ BusTypeOK
  /\ \A c \in Consumers : offsets[c] = 0 \/ offsets[c] \in handed[c]
  /\ \A c \in Consumers : Covers(handed[c], log, late[c])
  /\ \A r \in Readers : ReadCovers(reading[r], log, handed, late)
  /\ InMemoryAtOnce

\* The start: no events.
LEMMA BusInitInv == BusInit => BusInv
<1> SUFFICES ASSUME BusInit PROVE BusInv
  OBVIOUS
<1>1. NoRead \in Reads
  BY DEF NoRead, Reads
<1>2. BusTypeOK
  BY SMT, <1>1 DEF BusInit, BusTypeOK
<1>3. \A r \in Readers : ReadCovers(reading[r], log, handed, late)
  BY DEF BusInit, ReadCovers, NoRead
<1>4. InMemoryAtOnce
  BY SMT DEF BusInit, InMemoryAtOnce, NoRead
<1> QED
  BY <1>2, <1>3, <1>4 DEF BusInit, BusInv, Covers

\* ORDER BY id LIMIT leaves no gap: with an event it has every visible one
\* between the offset and that event.
LEMMA PastHasNoGap ==
  ASSUME BusTypeOK, NEW last \in Nat, NEW f \in Past(last), NEW e \in log,
         last < e, e <= f
  PROVE  e \in Past(last)
<1> DEFINE below(x) == {g \in log : last < g /\ g < x}
<1>1. IsFiniteSet(log) /\ log \in SUBSET Nat
  <2>1. IsFiniteSet(1 .. issued)
    BY SMT, FS_Interval DEF BusTypeOK
  <2>2. log \in SUBSET (1 .. issued) /\ 1 .. issued \in SUBSET Nat
    BY SMT DEF BusTypeOK
  <2>3. IsFiniteSet(log)
    BY <2>1, <2>2, FS_Subset
  <2> QED
    BY <2>2, <2>3
<1>2. f \in log /\ Cardinality(below(f)) < Batch
  BY DEF Past
<1>3. below(e) \in SUBSET below(f) /\ below(f) \in SUBSET log
  <2>1. ASSUME NEW g \in log, g < e PROVE g < f
    <3>1. g \in Nat /\ e \in Nat /\ f \in Nat
      BY <1>1, <1>2
    <3> QED
      BY SMT, <2>1, <3>1
  <2> QED
    BY <2>1
<1>4. IsFiniteSet(below(f))
  BY <1>1, <1>3, FS_Subset
<1>5. Cardinality(below(e)) <= Cardinality(below(f))
  BY <1>3, <1>4, FS_Subset
<1>6. IsFiniteSet(below(e))
  BY <1>3, <1>4, FS_Subset
<1>7. Cardinality(below(e)) \in Nat /\ Cardinality(below(f)) \in Nat
  BY <1>4, <1>6, FS_CardinalityType
<1>8. Cardinality(below(e)) < Batch
  BY SMT, <1>2, <1>5, <1>7, BusAssumption
<1> QED
  BY <1>8 DEF Past

\* An event that is inserted, or given up, is not visible.
LEMMA BusInsertSteps ==
  ASSUME BusInv, NEW p \in Producers, ProduceInsert(p) \/ ProduceFails(p)
  PROVE  BusInv'
<1> USE DEF BusInv
<1>1. CASE ProduceInsert(p)
  <2>1. BusTypeOK'
    BY SMT, <1>1 DEF ProduceInsert, BusTypeOK
  <2>2. InMemoryAtOnce'
    BY <1>1 DEF ProduceInsert, InMemoryAtOnce
  <2> QED
    BY <1>1, <2>1, <2>2 DEF ProduceInsert
<1>2. CASE ProduceFails(p)
  <2>1. BusTypeOK'
    BY SMT, <1>2 DEF ProduceFails, BusTypeOK
  <2>2. InMemoryAtOnce'
    BY <1>2 DEF ProduceFails, InMemoryAtOnce, BusTypeOK
  <2> QED
    BY <1>2, <2>1, <2>2 DEF ProduceFails
<1> QED
  BY <1>1, <1>2

\* A consume reads its offset, or gives up.
LEMMA BusReadSteps ==
  ASSUME BusInv, NEW r \in Readers, ReadOffset(r) \/ ConsumeFails(r)
  PROVE  BusInv'
<1> USE DEF BusInv
<1>1. ASSUME NEW new \in Reads, reading' = [reading EXCEPT ![r] = new],
             ReadCovers(new, log, handed, late), busInDB \/ new.at = "none",
             UNCHANGED <<busInDB, issued, log, producing, offsets, handed, late>>
      PROVE  BusInv'
  <2>1. BusTypeOK'
    BY <1>1 DEF BusTypeOK
  <2>2. InMemoryAtOnce'
    BY <1>1 DEF InMemoryAtOnce, BusTypeOK
  <2>3. \A x \in Readers : ReadCovers(reading'[x], log, handed, late)
    BY <1>1 DEF BusTypeOK
  <2> QED
    BY <1>1, <2>1, <2>2, <2>3
<1>2. CASE ReadOffset(r)
  <2>1. PICK c \in Consumers :
          /\ busInDB
          /\ reading' = [reading EXCEPT ![r] = [at |-> "select", who |-> c,
                                        last |-> offsets[c], found |-> {}]]
          /\ UNCHANGED <<busInDB, issued, log, producing, offsets, handed, late>>
    BY <1>2 DEF ReadOffset
  <2> DEFINE new == [at |-> "select", who |-> c, last |-> offsets[c], found |-> {}]
  <2>2. new \in Reads
    BY DEF Reads, BusTypeOK
  <2>3. ReadCovers(new, log, handed, late)
    BY DEF ReadCovers
  <2> QED
    BY <1>1, <2>1, <2>2, <2>3
<1>3. CASE ConsumeFails(r)
  <2>1. NoRead \in Reads /\ ReadCovers(NoRead, log, handed, late)
    BY DEF NoRead, Reads, ReadCovers
  <2>2. NoRead.at = "none"
    BY DEF NoRead
  <2> QED
    BY <1>1, <1>3, <2>1, <2>2 DEF ConsumeFails
<1> QED
  BY <1>2, <1>3

\* A select extends what was handed over up to the offset it started from.
LEMMA BusSelectStep ==
  ASSUME BusInv, NEW r \in Readers, SelectEvents(r)
  PROVE  BusInv'
<1> USE DEF BusInv
<1> DEFINE old == reading[r]
           new == [old EXCEPT !.at = "commit", !.found = Past(old.last)]
<1>1. reading' = [reading EXCEPT ![r] = new] /\ old.at = "select"
      /\ UNCHANGED <<busInDB, issued, log, producing, offsets, handed, late>>
  BY DEF SelectEvents
<1>2. old \in Reads /\ ReadCovers(old, log, handed, late)
  BY DEF BusTypeOK
<1>3. old.last \in Nat /\ old.who \in Consumers
      /\ (old.last = 0 \/ old.last \in handed[old.who])
  BY <1>1, <1>2 DEF Reads, ReadCovers
<1>4. Past(old.last) \in SUBSET log /\ log \in SUBSET Nat
  BY SMT DEF Past, BusTypeOK
<1>5. new \in Reads /\ new.at = "commit" /\ new.found = Past(old.last)
      /\ new.who = old.who /\ new.last = old.last
  BY <1>2, <1>4 DEF Reads
<1>6. ASSUME NEW f \in Past(old.last), NEW e \in log, e <= f
      PROVE  e \in Past(old.last) \cup handed[old.who] \cup late[old.who]
  <2>0. e \in Nat /\ e # 0
    BY SMT DEF BusTypeOK
  <2>1. CASE old.last < e
    BY <1>3, <1>6, <2>1, PastHasNoGap
  <2>2. CASE e <= old.last
    <3>1. old.last \in handed[old.who]
      BY SMT, <1>3, <2>0, <2>2
    <3> QED
      BY <1>3, <2>2, <3>1 DEF Covers
  <2> QED
    BY SMT, <1>3, <2>0, <2>1, <2>2
<1>7. ReadCovers(new, log, handed, late)
  <2> HIDE DEF new, old
  <2> QED
    BY <1>3, <1>4, <1>5, <1>6 DEF ReadCovers
<1>8. BusTypeOK'
  BY <1>1, <1>5 DEF BusTypeOK
<1>9. InMemoryAtOnce'
  BY <1>1 DEF InMemoryAtOnce
<1>10. \A x \in Readers : ReadCovers(reading'[x], log, handed, late)
  <2> HIDE DEF new
  <2> QED
    BY <1>1, <1>7 DEF BusTypeOK
<1> QED
  BY <1>1, <1>8, <1>9, <1>10

\* What a consumer has does not shrink, so reads under way stay covered.
LEMMA BusReadsKept ==
  ASSUME BusInv, NEW hs \in [Consumers -> SUBSET log],
         \A c \in Consumers : handed[c] \in SUBSET hs[c]
  PROVE  \A r \in Readers : ReadCovers(reading[r], log, hs, late)
<1> SUFFICES ASSUME NEW r \in Readers PROVE ReadCovers(reading[r], log, hs, late)
  OBVIOUS
<1>1. ReadCovers(reading[r], log, handed, late) /\ reading[r] \in Reads
  BY DEF BusInv, BusTypeOK
<1> QED
  BY <1>1 DEF ReadCovers, Reads

\* The next offset is the last event found.
LEMMA NextOffsetIsLast ==
  ASSUME BusTypeOK, NEW found \in SUBSET log, found # {}, NEW last
  PROVE  NextOffset(last, found) \in found
<1>1. found \in SUBSET (0 .. issued) /\ issued \in Nat
  BY SMT DEF BusTypeOK
<1> QED
  BY <1>1, MaxIsGreatest DEF NextOffset

\* Handing over events that were found without a gap.
LEMMA BusHandOver ==
  ASSUME BusInv, NEW c \in Consumers, NEW found \in SUBSET log,
         \A f \in found, e \in log : e <= f => e \in found \cup handed[c] \cup late[c],
         handed' = [handed EXCEPT ![c] = @ \cup found],
         offsets' = IF found = {} THEN offsets
                    ELSE [offsets EXCEPT ![c] = NextOffset(@, found)],
         UNCHANGED <<busInDB, issued, log, producing, late>>
  PROVE  /\ handed' \in [Consumers -> SUBSET log]
         /\ offsets' \in [Consumers -> Nat]
         /\ \A x \in Consumers : offsets'[x] = 0 \/ offsets'[x] \in handed'[x]
         /\ \A x \in Consumers : Covers(handed'[x], log, late[x])
         /\ \A r \in Readers : ReadCovers(reading[r], log, handed', late)
<1> USE DEF BusInv
<1>1. /\ handed \in [Consumers -> SUBSET log] /\ offsets \in [Consumers -> Nat]
      /\ log \in SUBSET Nat
  BY SMT DEF BusTypeOK
<1>2. handed' \in [Consumers -> SUBSET log] /\ handed'[c] = handed[c] \cup found
      /\ \A x \in Consumers : x # c => handed'[x] = handed[x]
  BY <1>1
<1>3. \A x \in Consumers : Covers(handed'[x], log, late[x])
  <2>1. Covers(handed[c], log, late[c])
    OBVIOUS
  <2>2. Covers(handed'[c], log, late[c])
    BY <1>2, <2>1 DEF Covers
  <2> QED
    BY <1>2, <2>2
<1>4. \A r \in Readers : ReadCovers(reading[r], log, handed', late)
  BY <1>2, BusReadsKept
<1>5. found # {} => \A last : NextOffset(last, found) \in found
  BY NextOffsetIsLast
<1>6. /\ offsets' \in [Consumers -> Nat]
      /\ \A x \in Consumers : offsets'[x] = 0 \/ offsets'[x] \in handed'[x]
  <2>1. CASE found = {}
    BY <1>1, <1>2, <2>1
  <2>2. CASE found # {}
    <3>1. PICK n \in found : offsets' = [offsets EXCEPT ![c] = n]
      BY <1>5, <2>2
    <3> QED
      BY <1>1, <1>2, <3>1
  <2> QED
    BY <2>1, <2>2
<1> QED
  BY <1>2, <1>3, <1>4, <1>6

\* A consume commits: the offset moves with the events.
LEMMA BusConsumeCommitStep ==
  ASSUME BusInv, NEW r \in Readers, ConsumeCommit(r)
  PROVE  BusInv'
<1> USE DEF BusInv
<1> DEFINE c == reading[r].who
           found == reading[r].found
<1>1. /\ reading[r].at = "commit"
      /\ offsets' = IF found = {} THEN offsets
                    ELSE [offsets EXCEPT ![c] = NextOffset(@, found)]
      /\ handed' = [handed EXCEPT ![c] = @ \cup found]
      /\ reading' = [reading EXCEPT ![r] = NoRead]
      /\ UNCHANGED <<busInDB, issued, log, producing, late>>
  BY DEF ConsumeCommit
<1>2. /\ c \in Consumers /\ found \in SUBSET log
      /\ \A f \in found, e \in log :
           e <= f => e \in found \cup handed[c] \cup late[c]
  BY <1>1 DEF ReadCovers
<1> HIDE DEF c, found
<1>3. /\ handed' \in [Consumers -> SUBSET log]
      /\ offsets' \in [Consumers -> Nat]
      /\ \A x \in Consumers : offsets'[x] = 0 \/ offsets'[x] \in handed'[x]
      /\ \A x \in Consumers : Covers(handed'[x], log, late[x])
      /\ \A x \in Readers : ReadCovers(reading[x], log, handed', late)
  BY <1>1, <1>2, BusHandOver
<1>4. NoRead \in Reads /\ ReadCovers(NoRead, log, handed', late)
      /\ NoRead.at = "none"
  BY DEF NoRead, Reads, ReadCovers
<1>5. \A x \in Readers : ReadCovers(reading'[x], log, handed', late)
  BY <1>1, <1>3, <1>4 DEF BusTypeOK
<1>6. BusTypeOK'
  BY <1>1, <1>3, <1>4 DEF BusTypeOK
<1>7. InMemoryAtOnce'
  BY <1>1, <1>4 DEF InMemoryAtOnce, BusTypeOK
<1> QED
  BY <1>1, <1>3, <1>5, <1>6, <1>7

\* The same in memory, in one step.
LEMMA BusConsumeStep ==
  ASSUME BusInv, Consume
  PROVE  BusInv'
<1> USE DEF BusInv
<1>1. PICK c \in Consumers :
        /\ ~busInDB /\ Past(offsets[c]) # {}
        /\ offsets' = [offsets EXCEPT ![c] = NextOffset(@, Past(offsets[c]))]
        /\ handed' = [handed EXCEPT ![c] = @ \cup Past(offsets[c])]
        /\ UNCHANGED <<busInDB, issued, log, producing, reading, late>>
  BY DEF Consume
<1> DEFINE found == Past(offsets[c])
<1>2. found \in SUBSET log /\ offsets[c] \in Nat /\ log \in SUBSET (Nat \ {0})
  BY SMT DEF Past, BusTypeOK
<1>3. ASSUME NEW f \in found, NEW e \in log, e <= f
      PROVE  e \in found \cup handed[c] \cup late[c]
  <2>1. CASE offsets[c] < e
    BY <1>2, <1>3, <2>1, PastHasNoGap
  <2>2. CASE e <= offsets[c]
    <3>1. offsets[c] \in handed[c]
      BY SMT, <1>2, <2>2
    <3> QED
      BY <2>2, <3>1 DEF Covers
  <2> QED
    BY SMT, <1>2, <2>1, <2>2
<1> HIDE DEF found
<1>4. /\ offsets' = IF found = {} THEN offsets
                    ELSE [offsets EXCEPT ![c] = NextOffset(@, found)]
      /\ handed' = [handed EXCEPT ![c] = @ \cup found]
  BY <1>1 DEF found
<1>5. /\ handed' \in [Consumers -> SUBSET log]
      /\ offsets' \in [Consumers -> Nat]
      /\ \A x \in Consumers : offsets'[x] = 0 \/ offsets'[x] \in handed'[x]
      /\ \A x \in Consumers : Covers(handed'[x], log, late[x])
      /\ \A x \in Readers : ReadCovers(reading[x], log, handed', late)
  <2>1. \A f \in found, e \in log :
          e <= f => e \in found \cup handed[c] \cup late[c]
    BY <1>3
  <2>2. found \in SUBSET log /\ UNCHANGED <<busInDB, issued, log, producing, late>>
    BY <1>1, <1>2
  <2> QED
    BY <1>4, <2>1, <2>2, BusHandOver
<1>6. BusTypeOK'
  BY <1>1, <1>5 DEF BusTypeOK
<1>7. InMemoryAtOnce'
  BY <1>1 DEF InMemoryAtOnce
<1> QED
  BY <1>1, <1>5, <1>6, <1>7

\* An event becomes visible: who has selected a higher one has it as late.
LEMMA BusCommitStep ==
  ASSUME BusInv, NEW p \in Producers, ProduceCommit(p)
  PROVE  BusInv'
<1> USE DEF BusInv
<1> DEFINE e == producing[p]
           passed(c) == \/ \E f \in handed[c] : f > e
                        \/ \E r \in Readers : /\ reading[r].who = c
                                              /\ \E f \in reading[r].found : f > e
<1>1. /\ e # 0 /\ log' = log \cup {e}
      /\ late' = [c \in Consumers |-> late[c] \cup (IF passed(c) THEN {e} ELSE {})]
      /\ producing' = [producing EXCEPT ![p] = 0]
      /\ UNCHANGED <<busInDB, issued, offsets, reading, handed>>
  BY DEF ProduceCommit
<1>2. /\ e \in 1 .. issued /\ issued \in Nat /\ log \in SUBSET (1 .. issued)
      /\ handed \in [Consumers -> SUBSET log] /\ reading \in [Readers -> Reads]
      /\ late \in [Consumers -> SUBSET Nat]
  BY SMT, <1>1 DEF BusTypeOK
<1>3. \A c \in Consumers : /\ late[c] \in SUBSET late'[c]
                           /\ passed(c) => e \in late'[c]
                           /\ late'[c] \in SUBSET Nat
  BY SMT, <1>1, <1>2
<1> HIDE DEF e
<1>4. ASSUME NEW c \in Consumers PROVE Covers(handed[c], log', late'[c])
  <2> SUFFICES ASSUME NEW f \in handed[c], NEW x \in log', x <= f
               PROVE  x \in handed[c] \cup late'[c]
    BY DEF Covers
  <2>1. CASE x \in log
    BY <1>3, <2>1 DEF Covers
  <2>2. CASE x = e
    <3>1. f \in Nat /\ e \in Nat
      BY SMT, <1>2
    <3>2. f = e \/ f > e
      BY SMT, <2>2, <3>1
    <3> QED
      BY <1>3, <2>2, <3>2
  <2> QED
    BY <1>1, <2>1, <2>2
<1>5. ASSUME NEW r \in Readers PROVE ReadCovers(reading[r], log', handed, late')
  <2>1. ReadCovers(reading[r], log, handed, late) /\ reading[r] \in Reads
    BY <1>2
  <2>2. ASSUME reading[r].at = "commit", NEW f \in reading[r].found,
               NEW x \in log', x <= f
        PROVE  x \in reading[r].found \cup handed[reading[r].who]
                       \cup late'[reading[r].who]
    <3>1. reading[r].who \in Consumers /\ f \in log
      BY <2>1, <2>2 DEF ReadCovers
    <3>2. CASE x \in log
      BY <1>3, <2>1, <2>2, <3>1, <3>2 DEF ReadCovers
    <3>3. CASE x = e
      <4>1. f \in Nat /\ e \in Nat
        BY SMT, <1>2, <3>1
      <4>2. f = e \/ f > e
        BY SMT, <2>2, <3>3, <4>1
      <4> QED
        BY <1>3, <2>2, <3>1, <3>3, <4>2
    <3> QED
      BY <1>1, <2>2, <3>2, <3>3
  <2> QED
    BY <1>1, <2>1, <2>2 DEF ReadCovers
<1>6. BusTypeOK'
  <2>1. handed' \in [Consumers -> SUBSET log']
    BY <1>1, <1>2
  <2>2. late' \in [Consumers -> SUBSET Nat]
    BY SMT, <1>1, <1>2
  <2>3. log' \in SUBSET (1 .. issued)
    BY <1>1, <1>2
  <2> QED
    BY SMT, <1>1, <2>1, <2>2, <2>3 DEF BusTypeOK
<1>7. InMemoryAtOnce'
  BY <1>1 DEF InMemoryAtOnce, e
<1> QED
  BY <1>1, <1>4, <1>5, <1>6, <1>7

\* In memory an event gets the next place of the slice, above all others.
LEMMA BusProduceStep ==
  ASSUME BusInv, Produce
  PROVE  BusInv'
<1> USE DEF BusInv
<1>1. /\ ~busInDB /\ issued' = issued + 1 /\ log' = log \cup {issued + 1}
      /\ UNCHANGED <<busInDB, producing, offsets, reading, handed, late>>
  BY DEF Produce
<1>2. /\ issued \in Nat /\ log = 1 .. issued
      /\ handed \in [Consumers -> SUBSET log]
      /\ \A r \in Readers : reading[r].at = "none"
  BY <1>1 DEF BusTypeOK, InMemoryAtOnce
<1>3. log' = 1 .. issued'
  BY SMT, <1>1, <1>2
<1>4. ASSUME NEW c \in Consumers PROVE Covers(handed[c], log', late[c])
  <2> SUFFICES ASSUME NEW f \in handed[c], NEW x \in log', x <= f
               PROVE  x \in handed[c] \cup late[c]
    BY DEF Covers
  <2>1. f \in log
    BY <1>2
  <2>2. x \in log
    BY SMT, <1>1, <1>2, <2>1
  <2> QED
    BY <2>2 DEF Covers
<1>5. ASSUME NEW r \in Readers PROVE ReadCovers(reading[r], log', handed, late)
  <2>1. ReadCovers(reading[r], log, handed, late) /\ reading[r].at = "none"
    BY <1>2
  <2> QED
    BY <1>1, <2>1 DEF ReadCovers
<1>6. BusTypeOK'
  <2>1. producing \in [Producers -> 0 .. issued']
    BY SMT, <1>1, <1>2 DEF BusTypeOK
  <2>2. handed \in [Consumers -> SUBSET log']
    BY <1>1, <1>2
  <2> QED
    BY SMT, <1>1, <1>2, <1>3, <2>1, <2>2 DEF BusTypeOK
<1>7. InMemoryAtOnce'
  BY <1>1, <1>3 DEF InMemoryAtOnce
<1> QED
  BY <1>1, <1>4, <1>5, <1>6, <1>7

\* What a consumer has covers its offset; in memory that is within the slice.
LEMMA BusInvImplies == BusInv => SkippedOnlyLate
<1> SUFFICES ASSUME BusInv, NEW c \in Consumers
             PROVE  /\ \A e \in log : e <= offsets[c] => e \in handed[c] \cup late[c]
                    /\ ~busInDB => late[c] = {} /\ offsets[c] <= Cardinality(log)
  BY DEF SkippedOnlyLate
<1> USE DEF BusInv
<1>1. /\ issued \in Nat /\ log \in SUBSET (1 .. issued) /\ offsets[c] \in Nat
      /\ handed[c] \in SUBSET log
  BY DEF BusTypeOK
<1>2. ASSUME NEW e \in log, e <= offsets[c] PROVE e \in handed[c] \cup late[c]
  <2>1. offsets[c] \in handed[c]
    BY SMT, <1>1, <1>2
  <2> QED
    BY <1>2, <2>1 DEF Covers
<1>3. ASSUME ~busInDB PROVE late[c] = {} /\ offsets[c] <= Cardinality(log)
  <2>1. log = 1 .. issued /\ late[c] = {}
    BY <1>3 DEF InMemoryAtOnce
  <2>2. Cardinality(1 .. issued) = issued
    BY SMT, <1>1, FS_Interval
  <2> QED
    BY SMT, <1>1, <2>1, <2>2
<1> QED
  BY <1>2, <1>3

\* For any number of producers, readers, consumers and events, and whatever
\* the order of their statements, a consumer's offset passes an event only
\* with a consume that carries it, but for events that became visible late
\* (service.go:126).
THEOREM SkippedOnlyLateHolds == BusSpec => []SkippedOnlyLate
<1>1. BusInv /\ [BusNext]_busVars => BusInv'
  <2> SUFFICES ASSUME BusInv, [BusNext]_busVars PROVE BusInv'
    OBVIOUS
  <2>1. CASE UNCHANGED busVars
    BY <2>1 DEF busVars, BusInv, BusTypeOK, InMemoryAtOnce
  <2>2. ASSUME NEW p \in Producers,
               ProduceInsert(p) \/ ProduceCommit(p) \/ ProduceFails(p)
        PROVE  BusInv'
    BY <2>2, BusInsertSteps, BusCommitStep
  <2>3. ASSUME NEW r \in Readers, \/ ReadOffset(r) \/ SelectEvents(r)
                                   \/ ConsumeCommit(r) \/ ConsumeFails(r)
        PROVE  BusInv'
    BY <2>3, BusReadSteps, BusSelectStep, BusConsumeCommitStep
  <2> QED
    BY <2>1, <2>2, <2>3, BusConsumeStep, BusProduceStep DEF BusNext
<1> QED
  BY <1>1, BusInitInv, BusInvImplies, PTL DEF BusSpec

-----------------------------------------------------------------------------
\* Counter.  A change past its upsert holds the row's lock.
Holds(c) == change[c].at \in {"sample", "commit"}

Changes == [op : {"none", "set", "adjust"}, at : {"none", "write", "sample", "commit"},
            value : Int]

CounterTypeOK ==
  /\ inTable \in BOOLEAN /\ hasTS \in BOOLEAN /\ failedTS \in BOOLEAN
  /\ meta \in Int /\ change \in [Adjusters -> Changes]

\* What the series says is the committed value, until the holder of the row
\* adds the value it is about to commit.
CounterInv ==
  /\ CounterTypeOK
  /\ inTable => \A c, d \in Adjusters : Holds(c) /\ Holds(d) => c = d
  /\ \A c \in Adjusters : change[c].at = "sample" => hasTS
  /\ ~hasTS => sample = {}
  /\ inTable /\ ~failedTS =>
       /\ (\A c \in Adjusters : change[c].at # "commit") =>
             sample = {} \/ sample = {meta}
       /\ \A c \in Adjusters : change[c].at = "commit" =>
             (sample = {} /\ ~hasTS) \/ sample = {change[c].value}

\* No step of one caller touches the change of another.
LEMMA CounterChange ==
  ASSUME CounterTypeOK, NEW c \in Adjusters, NEW new \in Changes,
         change' = [change EXCEPT ![c] = new]
  PROVE  /\ change' \in [Adjusters -> Changes] /\ change'[c] = new
         /\ \A d \in Adjusters : d # c => change'[d] = change[d]
  BY DEF CounterTypeOK

\* The step of one caller, by what becomes of its change.
LEMMA CounterCallerStep ==
  ASSUME CounterInv, NEW c \in Adjusters,
         \/ SetStart(c) \/ adjust(c) \/ writeMeta(c) \/ AddSample(c)
         \/ AddSampleFails(c) \/ CommitChange(c) \/ ChangeFails(c)
  PROVE  CounterInv'
<1> USE DEF CounterInv
<1>0. /\ change[c] \in Changes /\ change \in [Adjusters -> Changes]
      /\ NoChange \in Changes /\ NoChange.at = "none"
  BY SMT DEF CounterTypeOK, Changes, NoChange
<1>1. ASSUME NEW op \in {"set", "adjust"}, NEW v \in Int, Begins(c, op, v),
             UNCHANGED <<inTable, hasTS, meta, sample, failedTS>>
      PROVE  CounterInv'
  <2> DEFINE new == [op |-> op, at |-> "write", value |-> v]
  <2>1. new \in Changes /\ new.at = "write"
    BY DEF Changes
  <2>2. change' = [change EXCEPT ![c] = new] /\ change[c].at = "none"
    BY <1>0, <1>1 DEF Begins
  <2> HIDE DEF new
  <2>3. /\ change' \in [Adjusters -> Changes] /\ change'[c].at = "write"
        /\ \A d \in Adjusters : d # c => change'[d] = change[d]
    BY <2>1, <2>2, CounterChange
  <2>4. CounterTypeOK'
    BY <1>1, <2>3 DEF CounterTypeOK
  <2> QED
    BY <1>1, <2>2, <2>3, <2>4 DEF Holds
<1>2. CASE SetStart(c)
  BY SMT, <1>1, <1>2, CounterAssumption DEF SetStart, Values
<1>3. CASE adjust(c)
  <2>1. PICK delta \in {-1, 1} :
          /\ Begins(c, "adjust", meta + delta)
          /\ UNCHANGED <<inTable, hasTS, meta, sample, failedTS>>
    BY <1>3 DEF adjust
  <2>2. meta + delta \in Int
    BY SMT DEF CounterTypeOK
  <2> QED
    BY <1>1, <2>1, <2>2
<1>4. ASSUME NEW place \in {"sample", "commit"}, Moves(c, place)
      PROVE  /\ change' \in [Adjusters -> Changes]
             /\ change'[c].at = place /\ change'[c].value = change[c].value
             /\ \A d \in Adjusters : d # c => change'[d] = change[d]
  <2> DEFINE new == [change[c] EXCEPT !.at = place]
  <2>1. new \in Changes /\ new.at = place /\ new.value = change[c].value
    BY <1>0 DEF Changes
  <2>2. change' = [change EXCEPT ![c] = new]
    BY <1>4 DEF Moves
  <2> HIDE DEF new
  <2> QED
    BY <2>1, <2>2, CounterChange
<1>5. CASE writeMeta(c)
  <2>1. PICK place \in {"sample", "commit"} :
          /\ place = (IF hasTS THEN "sample" ELSE "commit") /\ Moves(c, place)
    BY <1>5 DEF writeMeta
  <2>2. /\ change' \in [Adjusters -> Changes]
        /\ change'[c].at = place /\ change'[c].value = change[c].value
        /\ \A d \in Adjusters : d # c => change'[d] = change[d]
    BY <1>4, <2>1
  <2>3. /\ UNCHANGED <<inTable, hasTS, sample, failedTS>>
        /\ IF inTable THEN ~RowLocked /\ UNCHANGED meta ELSE meta' = change[c].value
    BY <1>5 DEF writeMeta
  <2>4. CounterTypeOK'
    BY <1>0, <2>2, <2>3 DEF CounterTypeOK, Changes
  <2>5. inTable => \A d \in Adjusters : ~Holds(d)
    BY <2>3 DEF RowLocked, Holds
  <2> QED
    BY <2>1, <2>2, <2>3, <2>4, <2>5 DEF Holds
<1>6. CASE AddSample(c)
  <2>1. /\ change' \in [Adjusters -> Changes]
        /\ change'[c].at = "commit" /\ change'[c].value = change[c].value
        /\ \A d \in Adjusters : d # c => change'[d] = change[d]
    BY <1>4, <1>6 DEF AddSample
  <2>2. /\ change[c].at = "sample" /\ sample' = {change[c].value}
        /\ UNCHANGED <<inTable, hasTS, meta, failedTS>>
    BY <1>6 DEF AddSample
  <2>3. CounterTypeOK'
    BY <2>1, <2>2 DEF CounterTypeOK
  <2> QED
    BY SMT, <2>1, <2>2, <2>3 DEF Holds
<1>7. CASE AddSampleFails(c)
  <2>1. /\ change[c].at = "sample" /\ failedTS'
        /\ UNCHANGED <<inTable, hasTS, meta, sample>>
    BY <1>7 DEF AddSampleFails
  <2>2. CASE change[c].op = "set"
    <3>1. change' = [change EXCEPT ![c] = NoChange]
      BY <1>7, <2>2 DEF AddSampleFails
    <3>2. /\ change' \in [Adjusters -> Changes] /\ change'[c].at = "none"
          /\ \A d \in Adjusters : d # c => change'[d] = change[d]
      BY <1>0, <3>1, CounterChange
    <3>3. CounterTypeOK'
      BY <2>1, <3>2 DEF CounterTypeOK
    <3> QED
      BY <2>1, <3>2, <3>3 DEF Holds
  <2>3. CASE change[c].op # "set"
    <3>1. /\ change' \in [Adjusters -> Changes] /\ change'[c].at = "commit"
          /\ \A d \in Adjusters : d # c => change'[d] = change[d]
      BY <1>4, <1>7, <2>3 DEF AddSampleFails
    <3>2. CounterTypeOK'
      BY <2>1, <3>1 DEF CounterTypeOK
    <3> QED
      BY <2>1, <3>1, <3>2 DEF Holds
  <2> QED
    BY <2>2, <2>3
<1>8. CASE CommitChange(c) \/ ChangeFails(c)
  <2>1. change' = [change EXCEPT ![c] = NoChange]
    BY <1>8 DEF CommitChange, ChangeFails
  <2>2. /\ change' \in [Adjusters -> Changes] /\ change'[c].at = "none"
        /\ \A d \in Adjusters : d # c => change'[d] = change[d]
    BY <1>0, <2>1, CounterChange
  <2>3. CASE CommitChange(c)
    <3>1. /\ change[c].at = "commit" /\ UNCHANGED <<inTable, hasTS, sample, failedTS>>
          /\ meta' = IF inTable \/ ~hasTS THEN change[c].value ELSE meta
      BY <2>3 DEF CommitChange
    <3>2. CounterTypeOK'
      BY <1>0, <2>2, <3>1 DEF CounterTypeOK, Changes
    <3>3. inTable => \A d \in Adjusters : change'[d].at # "commit"
      BY <2>2, <3>1 DEF Holds
    <3> QED
      BY <2>2, <3>1, <3>2, <3>3 DEF Holds
  <2>4. CASE ChangeFails(c)
    <3>1. failedTS' /\ UNCHANGED <<inTable, hasTS, meta, sample>>
      BY <2>4 DEF ChangeFails
    <3>2. CounterTypeOK'
      BY <2>2, <3>1 DEF CounterTypeOK
    <3> QED
      BY <2>2, <3>1, <3>2 DEF Holds
  <2> QED
    BY <1>8, <2>3, <2>4
<1> QED
  BY <1>2, <1>3, <1>5, <1>6, <1>7, <1>8

\* For any number of callers and values, and however sets and adjusts
\* interleave: while nothing is under way and nothing has failed, Get, which
\* asks the series, answers the committed value (service.go:98).
THEOREM SamplesInCommitOrderHolds == CounterSpec => []SamplesInCommitOrder
<1>1. CounterInit => CounterInv
  <2> SUFFICES ASSUME CounterInit PROVE CounterInv
    OBVIOUS
  <2>1. NoChange \in Changes /\ NoChange.at = "none"
    BY SMT DEF NoChange, Changes
  <2>2. \A c \in Adjusters : change[c].at = "none"
    BY <2>1 DEF CounterInit
  <2>3. CounterTypeOK /\ sample = {}
    <3>1. change \in [Adjusters -> Changes] /\ meta \in Int
      BY SMT, <2>1 DEF CounterInit
    <3>2. inTable \in BOOLEAN /\ hasTS \in BOOLEAN /\ failedTS \in BOOLEAN
      BY DEF CounterInit
    <3>3. sample = {}
      BY DEF CounterInit
    <3> QED
      BY <3>1, <3>2, <3>3 DEF CounterTypeOK
  <2> QED
    BY <2>2, <2>3 DEF CounterInv, Holds
<1>2. CounterInv /\ [CounterNext]_counterVars => CounterInv'
  <2>1. CounterInv /\ UNCHANGED counterVars => CounterInv'
    BY SMT DEF counterVars, CounterInv, CounterTypeOK, Holds
  <2> QED
    BY <2>1, CounterCallerStep DEF CounterNext
<1>3. CounterInv => SamplesInCommitOrder
  BY DEF CounterInv, SamplesInCommitOrder, GetCounter
<1> QED
  BY <1>1, <1>2, <1>3, PTL DEF CounterSpec

-----------------------------------------------------------------------------
\* Log.  The entries that have a day: Add has taken their created_at.
Dated(add) == {e \in Entries : add[e] # 0}

Rotations == [at : {"none", "put"}, found : SUBSET Entries, days : SUBSET Nat]

LogTypeOK ==
  /\ added \in [Entries -> Nat] /\ today \in Nat \ {0}
  /\ rotating \in [Rotators -> Rotations]

\* Every entry a rotation has found is in a blob, or its day is still to be put.
PutOrToPut(r, add, done) == \A e \in r.found : add[e] \in r.days \/ e \in done

LogInv ==
  /\ LogTypeOK
  /\ open \in SUBSET Dated(added) /\ hot \in SUBSET Dated(added)
  /\ \A w \in Rotators : /\ rotating[w].found \in SUBSET Dated(added)
                         /\ PutOrToPut(rotating[w], added, stored)

\* The entries of a table and of a rotation keep their day.
LEMMA LogAddStep ==
  ASSUME LogInv, AddInsert
  PROVE  LogInv'
<1> USE DEF LogInv
<1>1. PICK e \in Entries :
        /\ added[e] = 0 /\ added' = [added EXCEPT ![e] = today]
        /\ open' = open \cup {e}
        /\ UNCHANGED <<hot, today, archive, rotating, stored>>
  BY DEF AddInsert
<1>2. /\ added' \in [Entries -> Nat] /\ added'[e] # 0
      /\ \A f \in Entries : f # e => added'[f] = added[f]
  BY <1>1 DEF LogTypeOK
<1>3. Dated(added') = Dated(added) \cup {e}
      /\ \A f \in Dated(added) : added'[f] = added[f]
  BY <1>1, <1>2 DEF Dated
<1>4. ASSUME NEW w \in Rotators
      PROVE  /\ rotating[w].found \in SUBSET Dated(added')
             /\ PutOrToPut(rotating[w], added', stored)
  BY <1>3 DEF PutOrToPut
<1>5. LogTypeOK'
  BY <1>1, <1>2 DEF LogTypeOK
<1> QED
  BY <1>1, <1>3, <1>4, <1>5

\* A worker selects, puts a day, deletes or gives up.
LEMMA LogRotateSteps ==
  ASSUME LogInv, NEW w \in Rotators,
         RotateSelect(w) \/ RotatePut(w) \/ RotateDelete(w) \/ RotateFails(w)
  PROVE  LogInv'
<1> USE DEF LogInv
<1>0. rotating[w] \in Rotations /\ NoRotation \in Rotations /\ NoRotation.found = {}
  BY DEF LogTypeOK, Rotations, NoRotation
<1>1. ASSUME NEW new \in Rotations, rotating' = [rotating EXCEPT ![w] = new],
             new.found \in SUBSET Dated(added), PutOrToPut(new, added, stored'),
             stored \in SUBSET stored', hot' \in SUBSET hot,
             UNCHANGED <<added, open, today>>
      PROVE  LogInv'
  <2>1. /\ rotating' \in [Rotators -> Rotations] /\ rotating'[w] = new
        /\ \A v \in Rotators : v # w => rotating'[v] = rotating[v]
    BY <1>1 DEF LogTypeOK
  <2>2. LogTypeOK'
    BY <1>1, <2>1 DEF LogTypeOK
  <2>3. \A v \in Rotators : PutOrToPut(rotating'[v], added, stored')
    BY <1>1, <2>1 DEF PutOrToPut
  <2>4. \A v \in Rotators : rotating'[v].found \in SUBSET Dated(added)
    BY <1>1, <2>1
  <2> QED
    BY <1>1, <2>2, <2>3, <2>4
<1>2. CASE RotateSelect(w)
  <2>1. PICK cut \in Entries :
          /\ rotating' = [rotating EXCEPT ![w] =
               [at |-> "put", found |-> Older(cut),
                days |-> {added[e] : e \in Older(cut)}]]
          /\ UNCHANGED <<added, open, hot, today, archive, stored>>
    BY <1>2 DEF RotateSelect
  <2> DEFINE new == [at |-> "put", found |-> Older(cut),
                     days |-> {added[e] : e \in Older(cut)}]
  <2>2. Older(cut) \in SUBSET hot /\ Older(cut) \in SUBSET Entries
    BY DEF Older, Dated
  <2>3. new \in Rotations
    <3>1. {added[e] : e \in Older(cut)} \in SUBSET Nat
      BY <2>2 DEF LogTypeOK
    <3> QED
      BY <2>2, <3>1 DEF Rotations
  <2>4. PutOrToPut(new, added, stored) /\ new.found \in SUBSET Dated(added)
    BY <2>2 DEF PutOrToPut
  <2> QED
    BY <1>1, <2>1, <2>3, <2>4
<1>3. CASE RotatePut(w)
  <2>1. PICK d \in rotating[w].days :
          /\ stored' = stored \cup {e \in rotating[w].found : added[e] = d}
          /\ rotating' = [rotating EXCEPT ![w].days = @ \ {d}]
          /\ UNCHANGED <<added, open, hot, today>>
    BY <1>3 DEF RotatePut
  <2> DEFINE new == [rotating[w] EXCEPT !.days = @ \ {d}]
  <2>2. new \in Rotations /\ new.found = rotating[w].found
        /\ new.days = rotating[w].days \ {d}
    BY <1>0 DEF Rotations
  <2>3. rotating' = [rotating EXCEPT ![w] = new]
    BY <2>1
  <2> HIDE DEF new
  <2>4. PutOrToPut(new, added, stored')
    BY <2>1, <2>2 DEF PutOrToPut
  <2> QED
    BY <1>1, <2>1, <2>2, <2>3, <2>4
<1>4. CASE RotateDelete(w) \/ RotateFails(w)
  <2>1. /\ rotating' = [rotating EXCEPT ![w] = NoRotation] /\ hot' \in SUBSET hot
        /\ UNCHANGED <<added, open, today, stored>>
    BY <1>4 DEF RotateDelete, RotateFails
  <2>2. PutOrToPut(NoRotation, added, stored')
    BY <1>0 DEF PutOrToPut
  <2> QED
    BY <1>0, <1>1, <2>1, <2>2
<1> QED
  BY <1>2, <1>3, <1>4

\* For any number of workers, entries and days: a row leaves the table only
\* after some worker has put it into a blob, although rows with an old
\* created_at commit while a rotation is under way (service.go:136).
THEOREM DeletedWasStoredHolds == LogSpec => DeletedWasStored
<1>1. LogInit => LogInv
  <2> SUFFICES ASSUME LogInit PROVE LogInv
    OBVIOUS
  <2>1. NoRotation \in Rotations /\ NoRotation.found = {}
    BY DEF NoRotation, Rotations
  <2>2. LogTypeOK
    BY SMT, <2>1 DEF LogInit, LogTypeOK
  <2> QED
    BY <2>1, <2>2 DEF LogInit, LogInv, PutOrToPut
<1>2. LogInv /\ [LogNext]_logVars => LogInv'
  <2> SUFFICES ASSUME LogInv, [LogNext]_logVars PROVE LogInv'
    OBVIOUS
  <2>1. CASE UNCHANGED logVars
    BY <2>1 DEF logVars, LogInv, LogTypeOK
  <2>2. CASE AddEnds
    BY <2>2 DEF AddEnds, LogInv, LogTypeOK
  <2>3. CASE NextDay
    BY SMT, <2>3 DEF NextDay, LogInv, LogTypeOK
  <2> QED
    BY <2>1, <2>2, <2>3, LogAddStep, LogRotateSteps DEF LogNext
<1>3. LogInv /\ [LogNext]_logVars => [hot \ hot' \subseteq stored]_logVars
  <2> SUFFICES ASSUME LogInv, LogNext PROVE hot \ hot' \subseteq stored
    OBVIOUS
  <2>1. ASSUME NEW w \in Rotators, RotateDelete(w) PROVE hot \ hot' \subseteq stored
    <3>1. rotating[w].days = {} /\ hot' = hot \ rotating[w].found
      BY <2>1 DEF RotateDelete, Rotated
    <3>2. rotating[w].found \subseteq stored
      BY <3>1 DEF LogInv, PutOrToPut
    <3> QED
      BY <3>1, <3>2
  <2>2. CASE \E w \in Rotators : RotateSelect(w) \/ RotatePut(w) \/ RotateFails(w)
    BY <2>2 DEF RotateSelect, RotatePut, RotateFails
  <2>3. CASE AddInsert \/ AddEnds \/ NextDay
    BY <2>3 DEF AddInsert, AddEnds, NextDay
  <2> QED
    BY <2>1, <2>2, <2>3 DEF LogNext
<1> QED
  BY <1>1, <1>2, <1>3, PTL DEF LogSpec, DeletedWasStored

-----------------------------------------------------------------------------
\* Scope.  The places where a call holds the connection of its transaction.
Holding(p) == p \in {"role", "config", "keys", "serve"}

CallPlaces == {"idle", "look", "begin", "role", "config", "keys", "serve", "poll"}
CallMethods ==
  (UNION {Methods(k) : k \in ObjectKinds}) \cup {"none", "consume"}
CallKinds == ObjectKinds \cup {"none"}
CallRequests == [api : {"none", "http", "mcp", "wait", "poll"}, kind : CallKinds,
                 method : CallMethods, obj : CallKinds, args : BOOLEAN]

\* A request at a place: its arguments are complete, and when the scope is
\* opened the object has the method.
Proper(p, r) == p # "idle" =>
  /\ r.args /\ r.api # "none"
  /\ r.api = "poll" => r.obj = r.kind
  /\ r.api \in {"mcp", "wait"} => r.obj = r.kind \/ ~HasMethod(r.obj, r.method)
  /\ p \in {"begin", "role", "config", "keys", "serve"} => HasMethod(r.obj, r.method)

ScopeTypeOK ==
  /\ free \in Nat /\ at \in [Calls -> CallPlaces]
  /\ req \in [Calls -> CallRequests]
  /\ tick \in [Tickers -> {"wait", "some", "none"}]

ScopeInv == /\ ScopeTypeOK
            /\ \A c \in Calls : Proper(at[c], req[c])
            /\ PoolConserved

\* A service ends the transaction of a proper request.
LEMMA ProperEnds ==
  ASSUME NEW r \in CallRequests, r.args, r.obj = r.kind
  PROVE  ServiceEnds(r) = {"commit", "rollback"}
<1>1. /\ r.kind = "variable" => VariableEnds(r) = {"commit", "rollback"}
      /\ r.kind = "table" => TableEnds(r) = {"commit", "rollback"}
      /\ r.kind = "log" => LogEnds(r) = {"commit", "rollback"}
      /\ r.kind = "schedule" => ScheduleEnds(r) = {"commit", "rollback"}
      /\ BrokerEnds(r) = {"commit", "rollback"}
      /\ OtherEnds(r) = {"commit", "rollback"}
  BY DEF VariableEnds, TableEnds, LogEnds, ScheduleEnds, BrokerEnds, OtherEnds
<1> QED
  BY <1>1 DEF ServiceEnds

\* Who holds a connection is a finite set.
LEMMA HoldersFinite == IsFiniteSet(Holders) /\ Cardinality(Holders) \in Nat
<1>1. IsFiniteSet(Calls \cup Tickers)
  BY ScopeAssumption, FS_Union
<1>2. Holders \in SUBSET (Calls \cup Tickers)
  BY DEF Holders
<1>3. IsFiniteSet(Holders)
  BY <1>1, <1>2, FS_Subset
<1> QED
  BY <1>3, FS_CardinalityType

\* The pool's count follows who holds a connection.
LEMMA PoolCount ==
  ASSUME free \in Nat, PoolConserved, NEW x,
         \/ x \notin Holders /\ Holders' = Holders \cup {x} /\ free' = free - 1
         \/ x \in Holders /\ Holders' = Holders \ {x} /\ free' = free + 1
         \/ Holders' = Holders /\ free' = free
  PROVE  PoolConserved'
<1>1. Cardinality(Holders) \in Nat /\ MaxConns \in Nat
  BY HoldersFinite, ScopeAssumption
<1>2. /\ x \notin Holders => Cardinality(Holders \cup {x}) = Cardinality(Holders) + 1
      /\ x \in Holders => Cardinality(Holders \ {x}) = Cardinality(Holders) - 1
  BY HoldersFinite, FS_AddElement, FS_RemoveElement
<1>3. free + Cardinality(Holders) = MaxConns
  BY DEF PoolConserved
<1>4. free' + Cardinality(Holders') = MaxConns
  <2>1. CASE x \notin Holders /\ Holders' = Holders \cup {x} /\ free' = free - 1
    <3>1. Cardinality(Holders') = Cardinality(Holders) + 1
      BY <1>2, <2>1
    <3> QED
      BY SMT, <1>1, <1>3, <2>1, <3>1
  <2>2. CASE x \in Holders /\ Holders' = Holders \ {x} /\ free' = free + 1
    <3>1. Cardinality(Holders') = Cardinality(Holders) - 1
      BY <1>2, <2>2
    <3> QED
      BY SMT, <1>1, <1>3, <2>2, <3>1
  <2>3. CASE Holders' = Holders /\ free' = free
    BY <1>3, <2>3
  <2> QED
    BY <2>1, <2>2, <2>3
<1> QED
  BY <1>4 DEF PoolConserved

\* A step of one call, by the place and the request it goes on with.
LEMMA CallStep ==
  ASSUME ScopeInv, NEW c \in Calls, NEW p \in CallPlaces, NEW r \in CallRequests,
         at' = [at EXCEPT ![c] = p], req' = [req EXCEPT ![c] = r], tick' = tick,
         Proper(p, r),
         \/ Holding(p) /\ ~Holding(at[c]) /\ free > 0 /\ free' = free - 1
         \/ ~Holding(p) /\ Holding(at[c]) /\ free' = free + 1
         \/ (Holding(p) <=> Holding(at[c])) /\ free' = free
  PROVE  ScopeInv'
<1> USE DEF ScopeInv
<1>1. /\ at' \in [Calls -> CallPlaces] /\ req' \in [Calls -> CallRequests]
      /\ at'[c] = p /\ req'[c] = r
      /\ \A d \in Calls : d # c => at'[d] = at[d] /\ req'[d] = req[d]
  BY DEF ScopeTypeOK
<1>2. ScopeTypeOK'
  BY SMT, <1>1 DEF ScopeTypeOK
<1>3. c \notin Tickers
  BY ScopeAssumption
<1>4. /\ c \in Holders <=> Holding(at[c])
      /\ c \in Holders' <=> Holding(p)
      /\ \A x : x # c => (x \in Holders' <=> x \in Holders)
  BY <1>1, <1>3 DEF Holders, Holding
<1>5. PoolConserved'
  <2>1. CASE Holding(p) /\ ~Holding(at[c]) /\ free > 0 /\ free' = free - 1
    <3>1. c \notin Holders /\ Holders' = Holders \cup {c}
      BY <1>4, <2>1
    <3> QED
      BY <2>1, <3>1, PoolCount DEF ScopeTypeOK
  <2>2. CASE ~Holding(p) /\ Holding(at[c]) /\ free' = free + 1
    <3>1. c \in Holders /\ Holders' = Holders \ {c}
      BY <1>4, <2>2
    <3> QED
      BY <2>2, <3>1, PoolCount DEF ScopeTypeOK
  <2>3. CASE (Holding(p) <=> Holding(at[c])) /\ free' = free
    <3>1. Holders' = Holders
      BY SMT, <1>4, <2>3
    <3> QED
      BY <2>3, <3>1, PoolCount DEF ScopeTypeOK
  <2> QED
    BY <2>1, <2>2, <2>3
<1>6. \A d \in Calls : Proper(at'[d], req'[d])
  BY <1>1
<1> QED
  BY <1>2, <1>5, <1>6

\* A call that leaves gives back what it held; one that moves on keeps its
\* request.
LEMMA CallMoves ==
  ASSUME ScopeInv, NEW c \in Calls, tick' = tick
  PROVE  /\ /\ Leave(c)
            /\ IF Holding(at[c]) THEN free' = free + 1 ELSE free' = free
            => ScopeInv'
         /\ \A p \in CallPlaces :
              /\ at' = [at EXCEPT ![c] = p] /\ req' = req
              /\ Proper(p, req[c])
              /\ \/ Holding(p) /\ ~Holding(at[c]) /\ free > 0 /\ free' = free - 1
                 \/ ~Holding(p) /\ Holding(at[c]) /\ free' = free + 1
                 \/ (Holding(p) <=> Holding(at[c])) /\ free' = free
              => ScopeInv'
<1>1. NoRequest \in CallRequests /\ Proper("idle", NoRequest) /\ ~Holding("idle")
      /\ "idle" \in CallPlaces
  <2>1. "none" \in CallKinds /\ "none" \in CallMethods
    BY DEF CallKinds, CallMethods
  <2>2. NoRequest \in CallRequests
    BY <2>1 DEF NoRequest, CallRequests
  <2> QED
    BY <2>2 DEF Proper, Holding, CallPlaces
<1>2. ASSUME Leave(c), IF Holding(at[c]) THEN free' = free + 1 ELSE free' = free
      PROVE  ScopeInv'
  <2>1. /\ at' = [at EXCEPT ![c] = "idle"] /\ req' = [req EXCEPT ![c] = NoRequest]
    BY <1>2 DEF Leave
  <2> QED
    BY <1>1, <1>2, <2>1, CallStep
<1>3. ASSUME NEW p \in CallPlaces, at' = [at EXCEPT ![c] = p], req' = req,
             Proper(p, req[c]),
             \/ Holding(p) /\ ~Holding(at[c]) /\ free > 0 /\ free' = free - 1
             \/ ~Holding(p) /\ Holding(at[c]) /\ free' = free + 1
             \/ (Holding(p) <=> Holding(at[c])) /\ free' = free
      PROVE  ScopeInv'
  <2>1. req[c] \in CallRequests /\ req' = [req EXCEPT ![c] = req[c]]
    BY <1>3 DEF ScopeInv, ScopeTypeOK
  <2> QED
    BY <1>3, <2>1, CallStep
<1> QED
  BY <1>2, <1>3

\* Until the scope is open.
LEMMA OpenSteps ==
  ASSUME ScopeInv, NEW c \in Calls, \A r \in Requests : Answerable(r),
         \/ Receive(c) \/ OpenStep(c) \/ OpenFails(c) \/ PollOpen(c) \/ PollDone(c)
  PROVE  ScopeInv'
<1>0. Proper(at[c], req[c]) /\ at[c] \in CallPlaces
  BY DEF ScopeInv, ScopeTypeOK
<1>1. CASE Receive(c)
  <2>1. PICK r \in Requests : /\ at[c] = "idle"
                              /\ at' = [at EXCEPT ![c] = "look"]
                              /\ req' = [req EXCEPT ![c] = r]
                              /\ UNCHANGED <<free, tick>>
    BY <1>1 DEF Receive
  <2>2. r \in CallRequests /\ r.api \in {"http", "mcp", "wait"}
    BY ScopeAssumption DEF CallRequests, CallKinds, CallMethods
  <2>3. Proper("look", r)
    BY <2>2 DEF Proper, Answerable
  <2>4. ~Holding("look") /\ ~Holding("idle") /\ "look" \in CallPlaces
    BY DEF Holding, CallPlaces
  <2> QED
    BY <2>1, <2>2, <2>3, <2>4, CallStep
<1>2. ASSUME Leave(c), UNCHANGED <<free, tick>>, ~Holding(at[c]) PROVE ScopeInv'
  BY <1>2, CallMoves
<1>3. CASE LookRefused(c) \/ LookFails(c) \/ BeginFails(c) \/ PollDone(c)
  BY <1>2, <1>3 DEF LookRefused, LookFails, BeginFails, PollDone, Holding
<1>4. CASE ConfigFails(c)
  <2>1. Holding(at[c]) /\ Leave(c) /\ free' = free + 1 /\ tick' = tick
    BY <1>4 DEF ConfigFails, Holding
  <2> QED
    BY <2>1, CallMoves
<1>5. ASSUME NEW p \in CallPlaces, at' = [at EXCEPT ![c] = p],
             UNCHANGED <<req, tick>>, Proper(p, req[c]),
             \/ Holding(p) /\ ~Holding(at[c]) /\ free > 0 /\ free' = free - 1
             \/ (Holding(p) <=> Holding(at[c])) /\ free' = free
      PROVE  ScopeInv'
  BY <1>5, CallMoves
<1>6. CASE LookOK(c)
  <2>1. Proper("begin", req[c])
    BY <1>0, <1>6 DEF LookOK, Proper
  <2> QED
    BY <1>5, <1>6, <2>1 DEF LookOK, Holding, CallPlaces
<1>7. CASE Begin(c)
  <2>1. Proper("role", req[c])
    BY <1>0, <1>7 DEF Begin, Proper
  <2> QED
    BY <1>5, <1>7, <2>1 DEF Begin, Holding, CallPlaces
<1>8. CASE Role(c) \/ RoleCancelled(c)
  <2>1. Proper("config", req[c])
    BY <1>0, <1>8 DEF Role, RoleCancelled, Proper
  <2> QED
    BY <1>5, <1>8, <2>1 DEF Role, RoleCancelled, Holding, CallPlaces
<1>9. CASE Config(c)
  <2>1. PICK p \in {"keys", "serve"} : at' = [at EXCEPT ![c] = p]
    BY <1>9 DEF Config, Opened
  <2>2. Proper(p, req[c]) /\ Holding(p) /\ Holding(at[c]) /\ p \in CallPlaces
    BY <1>0, <1>9 DEF Config, Proper, Holding, CallPlaces
  <2> QED
    BY <1>5, <1>9, <2>1, <2>2 DEF Config
<1>11. CASE LookKeys(c) \/ LookKeysFails(c)
  <2>1. at[c] = "keys" /\ Holding(at[c]) /\ tick' = tick
    BY <1>11 DEF LookKeys, LookKeysFails, Holding
  <2>2. Proper("serve", req[c]) /\ Holding("serve") /\ "serve" \in CallPlaces
    BY <1>0, <2>1 DEF Proper, Holding, CallPlaces
  <2>3. \/ at' = [at EXCEPT ![c] = "serve"] /\ UNCHANGED <<free, req>>
        \/ Leave(c) /\ free' = free + 1
    BY <1>11 DEF LookKeys, LookKeysFails
  <2>4. CASE at' = [at EXCEPT ![c] = "serve"] /\ UNCHANGED <<free, req>>
    BY <1>5, <2>1, <2>2, <2>4
  <2>5. CASE Leave(c) /\ free' = free + 1
    BY <2>1, <2>5, CallMoves
  <2> QED
    BY <2>3, <2>4, <2>5
<1>10. CASE PollOpen(c)
  <2>1. Proper("look", req[c])
    BY <1>0, <1>10 DEF PollOpen, Proper
  <2> QED
    BY <1>5, <1>10, <2>1 DEF PollOpen, Holding, CallPlaces
<1> QED
  BY <1>1, <1>3, <1>4, <1>6, <1>7, <1>8, <1>9, <1>10, <1>11 DEF OpenStep, OpenFails

\* A call that is served ends its transaction.
LEMMA ServeSteps ==
  ASSUME ScopeInv, NEW c \in Calls, ServeStep(c)
  PROVE  ScopeInv'
<1>0. /\ req[c] \in CallRequests /\ at[c] = "serve" /\ Holding(at[c])
      /\ Proper("serve", req[c]) /\ req \in [Calls -> CallRequests]
  BY DEF ScopeInv, ScopeTypeOK, ServeStep, DispatchMismatch, DispatchSubscribe,
         Dispatch, DispatchTool, WaitAuthorised, PollServe, Holding
<1>1. /\ req[c].args
      /\ req[c].api \in {"mcp", "wait", "poll"} => req[c].obj = req[c].kind
  BY <1>0 DEF Proper
<1>2. req[c].obj = req[c].kind => ServiceEnds(req[c]) = {"commit", "rollback"}
  BY <1>0, <1>1, ProperEnds
<1>3. ASSUME NEW end \in {"commit", "rollback"}, EndScope(end)
      PROVE  free' = free + 1 /\ tick' = tick
  BY <1>3 DEF EndScope
<1>4. ASSUME NEW end \in {"commit", "rollback"}, EndScope(end), Leave(c)
      PROVE  ScopeInv'
  <2>1. free' = free + 1 /\ tick' = tick
    BY <1>3, <1>4
  <2> QED
    BY <1>0, <1>4, <2>1, CallMoves
<1>5. CASE DispatchMismatch(c) \/ Dispatch(c) \/ DispatchTool(c)
  BY <1>1, <1>2, <1>4, <1>5 DEF DispatchMismatch, Dispatch, DispatchTool
<1>6. ~Holding("poll") /\ "poll" \in CallPlaces
  BY DEF Holding, CallPlaces
<1>7. CASE DispatchSubscribe(c)
  <2> DEFINE r == [req[c] EXCEPT !.method = "consume", !.api = "poll"]
  <2>1. /\ req' = [req EXCEPT ![c] = r] /\ at' = [at EXCEPT ![c] = "poll"]
        /\ req[c].obj = req[c].kind /\ EndScope("commit")
    BY <1>7 DEF DispatchSubscribe
  <2>2. /\ r \in CallRequests /\ r.api = "poll" /\ r.obj = req[c].obj
        /\ r.kind = req[c].kind /\ r.args = req[c].args
    <3>1. "consume" \in CallMethods
      BY DEF CallMethods
    <3> QED
      BY <1>0, <3>1 DEF CallRequests
  <2> HIDE DEF r
  <2>3. Proper("poll", r)
    BY <1>1, <2>1, <2>2 DEF Proper
  <2>4. free' = free + 1 /\ tick' = tick
    BY <1>3, <2>1
  <2> QED
    BY <1>0, <1>6, <2>1, <2>2, <2>3, <2>4, CallStep
<1>8. CASE WaitAuthorised(c)
  <2> DEFINE r == [req[c] EXCEPT !.api = "poll"]
  <2>1. /\ req' = [req EXCEPT ![c] = r] /\ at' = [at EXCEPT ![c] = "poll"]
        /\ req[c].api = "wait" /\ EndScope("commit")
    BY <1>8 DEF WaitAuthorised
  <2>2. /\ r \in CallRequests /\ r.api = "poll" /\ r.obj = req[c].obj
        /\ r.kind = req[c].kind /\ r.args = req[c].args
    BY <1>0 DEF CallRequests
  <2> HIDE DEF r
  <2>3. Proper("poll", r)
    BY <1>1, <2>1, <2>2 DEF Proper
  <2>4. free' = free + 1 /\ tick' = tick
    BY <1>3, <2>1
  <2> QED
    BY <1>0, <1>6, <2>1, <2>2, <2>3, <2>4, CallStep
<1>9. CASE PollServe(c)
  <2>1. PICK end \in {"commit", "rollback"} :
          /\ EndScope(end)
          /\ \/ at' = [at EXCEPT ![c] = "poll"] /\ UNCHANGED req
             \/ Leave(c)
    BY <1>1, <1>2, <1>9 DEF PollServe
  <2>2. free' = free + 1 /\ tick' = tick
    BY <1>3, <2>1
  <2>3. CASE at' = [at EXCEPT ![c] = "poll"] /\ UNCHANGED req
    <3>1. Proper("poll", req[c])
      BY <1>0 DEF Proper
    <3> QED
      BY <1>0, <1>6, <2>2, <2>3, <3>1, CallMoves
  <2> QED
    BY <1>4, <2>1, <2>3
<1> QED
  BY <1>5, <1>7, <1>8, <1>9 DEF ServeStep

\* A worker takes a connection for the rows of its query and gives it back.
LEMMA TickSteps ==
  ASSUME ScopeInv, NEW w \in Tickers, TickQuery(w) \/ TickRows(w) \/ TickEnd(w)
  PROVE  ScopeInv'
<1> USE DEF ScopeInv
<1>1. PICK v \in {"wait", "some", "none"} :
        /\ tick' = [tick EXCEPT ![w] = v] /\ UNCHANGED <<at, req>>
        /\ \/ tick[w] = "wait" /\ v # "wait" /\ free > 0 /\ free' = free - 1
           \/ tick[w] # "wait" /\ v = "wait" /\ free' = free + 1
           \/ tick[w] # "wait" /\ v # "wait" /\ free' = free
  BY DEF TickQuery, TickRows, TickEnd
<1>2. /\ tick' \in [Tickers -> {"wait", "some", "none"}] /\ tick'[w] = v
      /\ \A x \in Tickers : x # w => tick'[x] = tick[x]
  BY <1>1 DEF ScopeTypeOK
<1>3. ScopeTypeOK'
  BY SMT, <1>1, <1>2 DEF ScopeTypeOK
<1>4. w \notin Calls
  BY ScopeAssumption
<1>5. /\ w \in Holders <=> tick[w] # "wait"
      /\ w \in Holders' <=> v # "wait"
      /\ \A x : x # w => (x \in Holders' <=> x \in Holders)
  BY <1>1, <1>2, <1>4 DEF Holders
<1>6. PoolConserved'
  <2>1. CASE tick[w] = "wait" /\ v # "wait" /\ free > 0 /\ free' = free - 1
    <3>1. w \notin Holders /\ Holders' = Holders \cup {w}
      BY <1>5, <2>1
    <3> QED
      BY <2>1, <3>1, PoolCount DEF ScopeTypeOK
  <2>2. CASE tick[w] # "wait" /\ v = "wait" /\ free' = free + 1
    <3>1. w \in Holders /\ Holders' = Holders \ {w}
      BY <1>5, <2>2
    <3> QED
      BY <2>2, <3>1, PoolCount DEF ScopeTypeOK
  <2>3. CASE tick[w] # "wait" /\ v # "wait" /\ free' = free
    <3>1. Holders' = Holders
      BY SMT, <1>5, <2>3
    <3> QED
      BY <2>3, <3>1, PoolCount DEF ScopeTypeOK
  <2> QED
    BY <1>1, <2>1, <2>2, <2>3
<1> QED
  BY <1>1, <1>3, <1>6

\* Every call and worker keeps ScopeInv when the requests are answerable.
LEMMA ScopeInvariance ==
  ASSUME \A r \in Requests : Answerable(r)
  PROVE  ScopeSpec => []ScopeInv
<1>1. ScopeInit => ScopeInv
  <2> SUFFICES ASSUME ScopeInit PROVE ScopeInv
    OBVIOUS
  <2>1. NoRequest \in CallRequests
    <3>1. "none" \in CallKinds /\ "none" \in CallMethods
      BY DEF CallKinds, CallMethods
    <3> QED
      BY <3>1 DEF NoRequest, CallRequests
  <2>2. ScopeTypeOK
    BY SMT, <2>1, ScopeAssumption DEF ScopeInit, ScopeTypeOK, CallPlaces
  <2>3. \A c \in Calls : Proper(at[c], req[c])
    BY DEF ScopeInit, Proper
  <2>4. Holders = {} /\ free = MaxConns
    BY DEF ScopeInit, Holders
  <2>5. PoolConserved
    BY SMT, <2>4, FS_EmptySet, ScopeAssumption DEF PoolConserved
  <2> QED
    BY <2>2, <2>3, <2>5 DEF ScopeInv
<1>2. ScopeInv /\ [ScopeNext]_scopeVars => ScopeInv'
  <2> SUFFICES ASSUME ScopeInv, [ScopeNext]_scopeVars PROVE ScopeInv'
    OBVIOUS
  <2>1. CASE UNCHANGED scopeVars
    BY <2>1 DEF scopeVars, ScopeInv, ScopeTypeOK, PoolConserved, Holders
  <2>2. ASSUME NEW c \in Calls, \/ Receive(c) \/ OpenStep(c) \/ OpenFails(c)
                                \/ ServeStep(c) \/ PollOpen(c) \/ PollDone(c)
        PROVE  ScopeInv'
    BY <2>2, OpenSteps, ServeSteps
  <2>3. ASSUME NEW w \in Tickers, TickQuery(w) \/ TickRows(w) \/ TickEnd(w)
        PROVE  ScopeInv'
    BY <2>3, TickSteps
  <2> QED
    BY <2>1, <2>2, <2>3 DEF ScopeNext
<1> QED
  BY <1>1, <1>2, PTL DEF ScopeSpec

\* For any number of calls, workers and connections, and any set of requests
\* that are answerable: a connection is in the pool or held by a call or
\* worker that is going to give it back (scope.go:107,
\* data_objects_handler.go:389).  Without the assumption it is not so: that is
\* what the run conn_leak shows.
THEOREM PoolConservedHolds ==
  ASSUME \A r \in Requests : Answerable(r)
  PROVE  ScopeSpec => []PoolConserved
<1>1. ScopeInv => PoolConserved
  BY DEF ScopeInv
<1> QED
  BY <1>1, ScopeInvariance, PTL

\* The pool is empty, and whoever holds a connection waits for another one.
Stuck == free = 0 /\ Holders \subseteq WaitSecond

\* Who waits for a second connection holds one.
LEMMA WaitingHold ==
  /\ WaitSecond \subseteq Holders /\ Cardinality(WaitSecond) \in Nat
  /\ Cardinality(WaitSecond) <= Cardinality(Holders)
  /\ Cardinality(WaitSecond) = Cardinality(Holders) => WaitSecond = Holders
<1>1. WaitSecond \in SUBSET Holders
  BY DEF WaitSecond, Holders
<1>2. IsFiniteSet(Holders)
  BY HoldersFinite
<1>3. IsFiniteSet(WaitSecond)
  BY <1>1, <1>2, FS_Subset
<1> QED
  BY <1>1, <1>2, <1>3, FS_Subset, FS_CardinalityType

\* A gridlock, counted by those who wait, is a pool where nobody can go on.
LEMMA GridlockSticks ==
  ASSUME ScopeInv
  PROVE  Gridlock <=> Stuck
<1>1. /\ free \in Nat /\ free + Cardinality(Holders) = MaxConns
      /\ MaxConns \in Nat /\ Cardinality(Holders) \in Nat
  BY HoldersFinite, ScopeAssumption DEF ScopeInv, ScopeTypeOK, PoolConserved
<1>2. ASSUME Gridlock PROVE Stuck
  <2>1. Cardinality(WaitSecond) = MaxConns
    BY <1>2 DEF Gridlock
  <2>2. free = 0 /\ Cardinality(WaitSecond) = Cardinality(Holders)
    BY SMT, <1>1, <2>1, WaitingHold
  <2> QED
    BY <2>2, WaitingHold DEF Stuck
<1>3. ASSUME Stuck PROVE Gridlock
  <2>1. WaitSecond = Holders /\ free = 0
    BY <1>3, WaitingHold DEF Stuck
  <2>2. Cardinality(Holders) = MaxConns
    BY SMT, <1>1, <2>1
  <2> QED
    BY <2>1, <2>2 DEF Gridlock
<1> QED
  BY <1>2, <1>3

\* A gridlock is the one way in which calls and workers block each other, for
\* any number of them and any size of the pool: unless every connection is
\* with one that waits for a second (scope.go:111, service.go:322), there is a
\* free one, or a holder that needs no other to go on and give its own back.
THEOREM OnlyGridlockSticks ==
  ASSUME \A r \in Requests : Answerable(r)
  PROVE  ScopeSpec => [](Gridlock <=> Stuck)
<1>1. ScopeInv => (Gridlock <=> Stuck)
  BY GridlockSticks
<1> QED
  BY <1>1, ScopeInvariance, PTL

\* A gridlock lasts until one of the waiting requests is cancelled or its key
\* lookup fails: no new request, no worker and no other call ends it.
THEOREM GridlockLasts ==
  ASSUME \A r \in Requests : Answerable(r)
  PROVE  ScopeSpec => [][Gridlock => \/ Gridlock'
                                     \/ \E c \in Calls : RoleCancelled(c) \/ LookKeysFails(c)
                        ]_scopeVars
<1> DEFINE Cancelled == \E c \in Calls : RoleCancelled(c) \/ LookKeysFails(c)
<1>1. ASSUME ScopeInv, ScopeNext, Gridlock PROVE Gridlock' \/ Cancelled
  <2>1. free = 0 /\ Holders \subseteq WaitSecond
    BY <1>1, GridlockSticks DEF Stuck
  <2>2. /\ at \in [Calls -> CallPlaces] /\ tick \in [Tickers -> {"wait", "some", "none"}]
        /\ ~(free > 0)
    BY SMT, <1>1, <2>1 DEF ScopeInv, ScopeTypeOK
  <2>3. \A c \in Calls : at[c] \notin {"config", "serve"}
    <3> SUFFICES ASSUME NEW c \in Calls, at[c] \in {"config", "serve"} PROVE FALSE
      OBVIOUS
    <3>1. c \in WaitSecond /\ c \notin Tickers
      BY <2>1, ScopeAssumption DEF Holders
    <3> QED
      BY <3>1 DEF WaitSecond
  <2>4. \A w \in Tickers : tick[w] # "none"
    <3> SUFFICES ASSUME NEW w \in Tickers, tick[w] = "none" PROVE FALSE
      OBVIOUS
    <3>1. w \in WaitSecond /\ w \notin Calls
      BY <2>1, ScopeAssumption DEF Holders
    <3> QED
      BY <3>1 DEF WaitSecond
  <2>5. ASSUME NEW c \in Calls, NEW p \in {"idle", "look"}, at[c] \notin {"role", "keys"},
               at' = [at EXCEPT ![c] = p], tick' = tick
        PROVE  Gridlock'
    <3>1. WaitSecond' = WaitSecond
      <4>1. \A d \in Calls : at'[d] \in {"role", "keys"} <=> at[d] \in {"role", "keys"}
        BY <2>2, <2>5
      <4> QED
        BY <2>5, <4>1 DEF WaitSecond
    <3> QED
      BY <1>1, <3>1 DEF Gridlock
  <2>6. ASSUME NEW c \in Calls, \/ Receive(c) \/ LookFails(c) \/ BeginFails(c)
                                \/ PollOpen(c) \/ PollDone(c)
        PROVE  Gridlock'
    BY <2>5, <2>6 DEF Receive, LookFails, BeginFails, PollOpen, PollDone, Leave
  <2>7. ASSUME NEW c \in Calls PROVE ~OpenStep(c) /\ ~ConfigFails(c) /\ ~ServeStep(c)
    <3>1. ~OpenStep(c)
      BY <2>2, <2>3 DEF OpenStep, LookOK, LookRefused, Begin, Role, Config, LookKeys
    <3>2. ~ConfigFails(c) /\ ~ServeStep(c)
      BY <2>3 DEF ConfigFails, ServeStep, DispatchMismatch, DispatchSubscribe, Dispatch,
                  DispatchTool, WaitAuthorised, PollServe
    <3> QED
      BY <3>1, <3>2
  <2>8. ASSUME NEW w \in Tickers PROVE ~TickQuery(w) /\ ~TickRows(w) /\ ~TickEnd(w)
    BY <2>2, <2>4 DEF TickQuery, TickRows, TickEnd
  <2> QED
    BY <1>1, <2>6, <2>7, <2>8 DEF ScopeNext, OpenFails
<1>2. ScopeInv /\ [ScopeNext]_scopeVars => [Gridlock => Gridlock' \/ Cancelled]_scopeVars
  BY <1>1
<1> QED
  BY <1>2, ScopeInvariance, PTL DEF ScopeSpec

-----------------------------------------------------------------------------
\* GitStore.  Every command, and the merge of the file into a state in memory,
\* maps sound states to sound states; the servers need not agree on anything
\* else.
Repos == [parents : Seq(Nat), refs : [RefNames -> Int], head : RefNames \cup {NoHead}]

\* A sound state, and one with a branch checked out.
SoundRepo(st) == st \in Repos /\ Sound(st)
OnBranch(st) == SoundRepo(st) /\ st.head \in RefNames

GitInv == /\ SoundRepo(blob)
          /\ mem \in [GitServers -> Repos]
          /\ \A s \in GitServers : OnBranch(mem[s])

-----------------------------------------------------------------------------
\* The fields of a state.
LEMMA RepoFields ==
  ASSUME NEW st \in Repos
  PROVE  /\ st.parents \in Seq(Nat) /\ Len(st.parents) \in Nat
         /\ st.refs \in [RefNames -> Int] /\ st.head \in RefNames \cup {NoHead}
<1>1. st.parents \in Seq(Nat)
  BY DEF Repos
<1> QED
  BY <1>1, LenProperties DEF Repos

\* An empty repository is sound, and so is the absent file.
LEMMA NewRepoSound == OnBranch(NewRepo) /\ SoundRepo(NoFile)
<1>1. <<>> \in Seq(Nat) /\ Len(<<>>) = 0
  BY EmptySeq
<1>2. NewRepo.parents = <<>> /\ NewRepo.refs = [n \in RefNames |-> Absent]
      /\ NewRepo.head = Main
  BY DEF NewRepo
<1>3. NoFile.parents = <<>> /\ NoFile.refs = [n \in RefNames |-> Absent]
      /\ NoFile.head = NoHead
  BY DEF NoFile, NewRepo
<1>4. NewRepo \in Repos /\ NoFile \in Repos
  <2>1. [n \in RefNames |-> Absent] \in [RefNames -> Int]
    BY SMT DEF Absent
  <2>2. NoFile = [parents |-> <<>>, refs |-> [n \in RefNames |-> Absent],
                  head |-> NoHead]
    BY SMT DEF NoFile, NewRepo
  <2>3. NewRepo \in Repos
    BY <1>1, <2>1, GitAssumption DEF NewRepo, Repos
  <2> QED
    BY <1>1, <2>1, <2>2, <2>3 DEF Repos
<1>5. Sound(NewRepo) /\ Sound(NoFile)
  BY SMT, <1>1, <1>2, <1>3 DEF Sound, Absent
<1> QED
  BY <1>2, <1>4, <1>5, GitAssumption DEF OnBranch, SoundRepo

\* What st.Branches gives for a name is a commit, or the empty id.
LEMMA RefIsOld ==
  ASSUME NEW st, SoundRepo(st), NEW n \in RefNames
  PROVE  Ref(st, n) \in 0 .. Len(st.parents)
<1>1. st.refs[n] \in Absent .. Len(st.parents) /\ Len(st.parents) \in Nat
  BY RepoFields DEF SoundRepo, Sound
<1> QED
  BY SMT, <1>1 DEF Ref, Absent

\* A new commit is younger than its parent, and its branch resolves.
LEMMA CommitSound ==
  ASSUME NEW st, OnBranch(st)
  PROVE  OnBranch(GitCommit(st))
<1> DEFINE r == Ref(st, st.head)
           len == Len(st.parents)
<1>1. st \in Repos /\ Sound(st) /\ st.head \in RefNames
  BY DEF OnBranch, SoundRepo
<1>2. PICK new : new = GitCommit(st)
  OBVIOUS
<1>3. /\ new.parents = Append(st.parents, r)
      /\ new.refs = Repoint(st, st.head, len + 1) /\ new.head = st.head
  BY <1>1, <1>2 DEF GitCommit, Repos
<1>4. st.parents \in Seq(Nat) /\ len \in Nat /\ st.refs \in [RefNames -> Int]
  BY <1>1, RepoFields
<1>5. r \in 0 .. len
  BY <1>1, RefIsOld DEF SoundRepo
<1> HIDE DEF r
<1>6. /\ new.parents \in Seq(Nat) /\ Len(new.parents) = len + 1
      /\ new.parents[len + 1] = r
      /\ \A k \in 1 .. len : new.parents[k] = st.parents[k]
  BY SMT, <1>3, <1>4, <1>5, AppendProperties
<1>7. /\ new.refs \in [RefNames -> Int]
      /\ \A n \in RefNames : new.refs[n] = st.refs[n] \/ new.refs[n] = len + 1
  BY SMT, <1>1, <1>3, <1>4 DEF Repoint
<1>8. new \in Repos
  BY <1>1, <1>2, <1>3, <1>6, <1>7 DEF Repos, GitCommit
<1>9. \A k \in 1 .. len + 1 : new.parents[k] \in 0 .. k - 1
  <2>1. \A k \in 1 .. len : st.parents[k] \in 0 .. k - 1
    BY <1>1 DEF Sound
  <2> HIDE DEF len
  <2> QED
    BY SMT, <1>4, <1>5, <1>6, <2>1
<1>10. \A n \in RefNames : new.refs[n] \in Absent .. len + 1
  <2>1. \A n \in RefNames : st.refs[n] \in Absent .. len
    BY <1>1 DEF Sound
  <2> HIDE DEF len
  <2> QED
    BY SMT, <1>4, <1>7, <2>1 DEF Absent
<1> QED
  BY <1>1, <1>2, <1>3, <1>6, <1>8, <1>9, <1>10 DEF OnBranch, SoundRepo, Sound

\* A branch, tag or checkout points a name at a commit that there is.
LEMMA RefSound ==
  ASSUME NEW st, OnBranch(st), NEW n \in RefNames,
         NEW c \in Absent .. Len(st.parents),
         NEW new \in Repos, new.parents = st.parents,
         new.refs = Repoint(st, n, c), new.head \in RefNames
  PROVE  OnBranch(new)
<1>1. st \in Repos /\ Sound(st)
  BY DEF OnBranch, SoundRepo
<1>2. \A m \in RefNames : new.refs[m] = c \/ new.refs[m] = st.refs[m]
  BY <1>1, RepoFields DEF Repoint
<1>3. Sound(new)
  BY <1>1, <1>2 DEF Sound
<1> QED
  BY <1>3 DEF OnBranch, SoundRepo

\* The commands map sound states to sound states.
LEMMA CommandsSound ==
  ASSUME NEW st, OnBranch(st), NEW new \in Commands(st)
  PROVE  OnBranch(new)
<1>1. st \in Repos /\ st.head \in RefNames /\ SoundRepo(st) /\ Sound(st)
  BY DEF OnBranch, SoundRepo
<1>2. ASSUME NEW n \in RefNames PROVE OnBranch(GitBranch(st, n))
  <2>1. Ref(st, st.head) \in Absent .. Len(st.parents)
    BY SMT, <1>1, RefIsOld, RepoFields DEF Absent
  <2>2. PICK b : b = GitBranch(st, n)
    OBVIOUS
  <2>3. /\ b.parents = st.parents /\ b.head = st.head
        /\ b.refs = Repoint(st, n, Ref(st, st.head))
    BY <1>1, <2>2 DEF GitBranch, Repos
  <2>4. b.refs \in [RefNames -> Int]
    BY SMT, <1>1, <2>1, <2>3, RepoFields DEF Repoint, Absent
  <2>5. b \in Repos
    BY <1>1, <2>2, <2>3, <2>4 DEF GitBranch, Repos
  <2> QED
    BY <1>1, <2>1, <2>2, <2>3, <2>5, RefSound
<1>3. ASSUME NEW n \in RefNames PROVE OnBranch(GitCheckout(st, n))
  <2> DEFINE c == IF st.refs[n] = Absent THEN Ref(st, st.head) ELSE st.refs[n]
  <2>1. c \in Absent .. Len(st.parents)
    BY SMT, <1>1, RefIsOld, RepoFields DEF Absent, Sound
  <2>2. PICK b : b = GitCheckout(st, n)
    OBVIOUS
  <2>3. b.parents = st.parents /\ b.head = n /\ b.refs = Repoint(st, n, c)
    BY <1>1, <2>2 DEF GitCheckout, Repos
  <2>4. b.refs \in [RefNames -> Int]
    BY SMT, <1>1, <2>1, <2>3, RepoFields DEF Repoint, Absent
  <2>5. b \in Repos
    BY <1>1, <2>2, <2>3, <2>4 DEF GitCheckout, Repos
  <2> HIDE DEF c
  <2> QED
    BY <1>1, <2>1, <2>2, <2>3, <2>5, RefSound
<1>4. \/ new = st \/ new = GitCommit(st)
      \/ \E n \in RefNames : new = GitBranch(st, n) \/ new = GitCheckout(st, n)
  BY DEF Commands
<1> QED
  BY <1>2, <1>3, <1>4, CommitSound

\* Loading the file into a state in memory: the longer list of commits has
\* all that either side's refs name.
LEMMA MergeSound ==
  ASSUME NEW old, SoundRepo(old), NEW st, OnBranch(st)
  PROVE  OnBranch(Merge(old, st))
<1>1. old \in Repos /\ Sound(old) /\ st \in Repos /\ Sound(st) /\ st.head \in RefNames
  BY DEF OnBranch, SoundRepo
<1> DEFINE len == IF Len(old.parents) < Len(st.parents)
                  THEN Len(st.parents) ELSE Len(old.parents)
<1>2. PICK new : new = Merge(old, st)
  OBVIOUS
<1>3. /\ new.parents = [k \in 1 .. len |-> IF k <= Len(old.parents)
                                           THEN old.parents[k] ELSE st.parents[k]]
      /\ new.refs = [n \in RefNames |-> IF old.refs[n] = Absent THEN st.refs[n]
                                        ELSE old.refs[n]]
      /\ new.head = IF old.head = NoHead THEN st.head ELSE old.head
  BY <1>2 DEF Merge
<1>4. /\ old.parents \in Seq(Nat) /\ Len(old.parents) \in Nat
      /\ old.refs \in [RefNames -> Int] /\ old.head \in RefNames \cup {NoHead}
      /\ st.parents \in Seq(Nat) /\ Len(st.parents) \in Nat
      /\ st.refs \in [RefNames -> Int]
  BY <1>1, RepoFields
<1>5. /\ len \in Nat /\ Len(old.parents) <= len /\ Len(st.parents) <= len
      /\ \A k \in 1 .. len : k \in 1 .. Len(old.parents) \/ k \in 1 .. Len(st.parents)
  BY SMT, <1>4
<1>6. \A k \in 1 .. len : /\ new.parents[k] \in 0 .. k - 1
                          /\ new.parents[k] \in Nat
  <2>1. /\ \A k \in 1 .. Len(old.parents) : old.parents[k] \in 0 .. k - 1
        /\ \A k \in 1 .. Len(st.parents) : st.parents[k] \in 0 .. k - 1
    BY <1>1 DEF Sound
  <2> HIDE DEF len
  <2> QED
    BY SMT, <1>3, <1>4, <1>5, <2>1
<1>7. new.parents \in Seq(Nat) /\ Len(new.parents) = len
  <2> HIDE DEF len
  <2>1. new.parents \in [1 .. len -> Nat]
    BY <1>3, <1>6
  <2>2. len \in Nat
    BY <1>5
  <2>3. new.parents \in Seq(Nat)
    BY SMT, <2>1, <2>2
  <2>4. DOMAIN new.parents = 1 .. len
    BY <2>1
  <2> QED
    BY SMT, <2>2, <2>3, <2>4, LenProperties
<1>8. /\ new.refs \in [RefNames -> Int]
      /\ \A n \in RefNames : new.refs[n] \in Absent .. len
  <2>1. \A n \in RefNames : /\ old.refs[n] \in Absent .. Len(old.parents)
                            /\ st.refs[n] \in Absent .. Len(st.parents)
    BY <1>1 DEF Sound
  <2> HIDE DEF len
  <2> QED
    BY SMT, <1>3, <1>4, <1>5, <2>1 DEF Absent
<1>9. new.head \in RefNames
  BY <1>1, <1>3, <1>4
<1>10. new \in Repos
  BY <1>2, <1>7, <1>8, <1>9 DEF Merge, Repos
<1> HIDE DEF len
<1> QED
  BY <1>2, <1>6, <1>7, <1>8, <1>9, <1>10 DEF OnBranch, SoundRepo, Sound

\* Whatever a command works on is sound.
LEMMA LoadedSound ==
  ASSUME GitInv, NEW s \in GitServers, NEW st \in Loaded(s)
  PROVE  OnBranch(st)
<1>1. st = mem[s] \/ st = Merge(blob, mem[s])
  BY DEF Loaded
<1> QED
  BY <1>1, MergeSound DEF GitInv

\* Every step keeps every copy of the repository sound.
LEMMA GitStep == GitInv /\ [GitNext]_gitVars => GitInv'
<1> SUFFICES ASSUME GitInv, [GitNext]_gitVars PROVE GitInv'
  OBVIOUS
<1>1. ASSUME NEW s \in GitServers, NEW st, OnBranch(st), UNCHANGED blob,
             mem' = [mem EXCEPT ![s] = st]
      PROVE  GitInv'
  <2>1. mem \in [GitServers -> Repos] /\ st \in Repos
    BY <1>1 DEF GitInv, OnBranch, SoundRepo
  <2>2. /\ mem' \in [GitServers -> Repos]
        /\ \A t \in GitServers : mem'[t] = IF t = s THEN st ELSE mem[t]
    BY <1>1, <2>1
  <2> QED
    BY <1>1, <2>2 DEF GitInv
<1>2. ASSUME NEW s \in GitServers, GitExec(s) PROVE GitInv'
  BY <1>1, <1>2, LoadedSound, CommandsSound DEF GitExec
<1>3. ASSUME NEW s \in GitServers, GitLoadOnly(s) PROVE GitInv'
  BY <1>1, <1>3, LoadedSound DEF GitLoadOnly
<1>4. ASSUME NEW s \in GitServers, GitSave(s) PROVE GitInv'
  <2>1. (blob' = blob \/ blob' = mem[s]) /\ UNCHANGED mem
    BY <1>4 DEF GitSave
  <2>2. SoundRepo(blob')
    BY <2>1 DEF GitInv, OnBranch
  <2> QED
    BY <2>1, <2>2 DEF GitInv
<1>5. ASSUME NEW s \in GitServers, GitRestart(s) PROVE GitInv'
  <2>1. OnBranch(NewRepo)
    BY NewRepoSound
  <2> QED
    BY <1>1, <1>5, <2>1 DEF GitRestart
<1>6. CASE UNCHANGED gitVars
  BY <1>6 DEF gitVars, GitInv
<1> QED
  BY <1>2, <1>3, <1>4, <1>5, <1>6 DEF GitNext

-----------------------------------------------------------------------------
\* However the loads, commands, saves and restarts of the servers interleave
\* and fail, refs resolve and parents are older than their commits, so the
\* walk of "log" ends (gitstore/service.go:136).
THEOREM LogTerminatesHolds == GitSpec => []LogTerminates
<1>1. GitInit => GitInv
  <2> SUFFICES ASSUME GitInit PROVE GitInv
    OBVIOUS
  <2>1. SoundRepo(blob) /\ OnBranch(NewRepo)
    BY NewRepoSound DEF GitInit
  <2> QED
    BY <2>1 DEF GitInit, GitInv, OnBranch, SoundRepo
<1>2. GitInv => LogTerminates
  BY DEF GitInv, LogTerminates, OnBranch, SoundRepo
<1> QED
  BY <1>1, <1>2, GitStep, PTL DEF GitSpec

=============================================================================
