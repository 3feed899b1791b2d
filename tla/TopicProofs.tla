---------------------------- MODULE TopicProofs ----------------------------
(***************************************************************************)
(* Theorems about a SecureBus topic that rest on its types: which forks and *)
(* live attestations there can be and what an approval stands for, with     *)
(* either backend, and what a consumer is owed with the in-memory one.      *)
(***************************************************************************)
EXTENDS SecureBusProofs

\* The leaves are first-order unless they name the SMT solver.
USE Zenon

-----------------------------------------------------------------------------
(* Forks of the chain *)

\* A call that has read the newest message.
Located == {"lock", "insert", "event", "commit", "ok"}

Chaining(p) == policies[pin[p].ver].chain

\* Under a chain policy the newest message a call has read is no older than
\* any that was visible when the call began, and from the check on it is the
\* predecessor its envelope names.
ForkCall(p) ==
  /\ pbase[p].seen \subseteq committed
  /\ plast[p] \in {0} \cup DOMAIN messages
  /\ pin[p].prev # NoCall => \E k \in DOMAIN messages : messages[k].by = pin[p].prev
  /\ ppc[p] \in Located /\ Chaining(p) =>
       \A i \in DOMAIN messages : messages[i].by \in pbase[p].seen => i <= plast[p]
  /\ ppc[p] \in Located \ {"lock"} /\ Chaining(p) /\ plast[p] # 0 =>
       pin[p].prev = messages[plast[p]].by

\* Each call has one row, and a row names an earlier one as its predecessor.
ForkRows ==
  /\ \A i, j \in DOMAIN messages : messages[i].by = messages[j].by => i = j
  /\ \A i \in DOMAIN messages : messages[i].prev # NoCall =>
       \E k \in DOMAIN messages : k < i /\ messages[k].by = messages[i].prev

ForkInv == /\ DOMAIN plast = Publishers
           /\ \A p \in Publishers : ForkCall(p)
           /\ ForkRows

\* The versions there were are as they were.
LEMMA PoliciesGrow ==
  ASSUME PolicyInv, [Next]_vars
  PROVE  \A v \in 1..Len(policies) : v \in 1..Len(policies') /\ policies'[v] = policies[v]
<1>0. policies \in Seq(Documents)
  BY DEF PolicyInv
<1>1. CASE policies' = policies
  BY <1>1
<1>2. ASSUME NEW doc \in Documents, policies' = Append(policies, doc)
      PROVE  \A v \in 1..Len(policies) : v \in 1..Len(policies') /\ policies'[v] = policies[v]
  <2>1. /\ \A v \in DOMAIN policies : policies'[v] = policies[v]
        /\ DOMAIN policies = 1 .. Len(policies) /\ Len(policies) \in Nat
        /\ Len(policies') = Len(policies) + 1
    BY SMT, <1>0, <1>2, Appended
  <2> QED
    BY SMT, <2>1
<1> QED
  BY <1>1, <1>2, PolicyInvStep

\* The newest visible message is none or one of the table, and no visible one
\* comes after it.
LEMMA NewestRow ==
  ASSUME messages \in Seq(MsgRow)
  PROVE  /\ LastMessage \in {0} \cup DOMAIN messages
         /\ \A i \in SeenMessages : i <= LastMessage
<1>0. Len(messages) \in Nat /\ DOMAIN messages = 1 .. Len(messages)
  BY SMT
<1>1. SeenMessages \in SUBSET (1 .. Len(messages))
  BY <1>0 DEF SeenMessages
<1>2. CASE SeenMessages = {}
  BY <1>2 DEF LastMessage
<1>3. CASE SeenMessages # {}
  <2>1. \E m \in SeenMessages : \A n \in SeenMessages : n <= m
    BY <1>0, <1>1, <1>3, GreatestRow
  <2>2. LastMessage \in SeenMessages /\ \A i \in SeenMessages : i <= LastMessage
    BY <1>3, <2>1 DEF LastMessage
  <2> QED
    BY <1>0, <1>1, <2>2
<1> QED
  BY <1>2, <1>3

\* The rows are as they were, with one more, by a call p that had none and had
\* not committed.
Grown(p) ==
  /\ messages' = Append(messages, MessageRow(p))
  /\ p \notin committed
  /\ \A i \in DOMAIN messages : messages[i].by # p

\* What a new row leaves of the table.
LEMMA GrownRows ==
  ASSUME messages \in Seq(MsgRow), NEW p \in Publishers, Grown(p)
  PROVE  /\ DOMAIN messages' = DOMAIN messages \cup {Len(messages) + 1}
         /\ Len(messages) + 1 \notin DOMAIN messages
         /\ \A i \in DOMAIN messages : messages'[i] = messages[i] /\ i < Len(messages) + 1
         /\ messages'[Len(messages) + 1].by = p
         /\ messages'[Len(messages) + 1].prev = pin[p].prev
<1>1. /\ DOMAIN messages' = DOMAIN messages \cup {Len(messages) + 1}
      /\ Len(messages) + 1 \notin DOMAIN messages
      /\ messages'[Len(messages) + 1] = MessageRow(p)
      /\ \A i \in DOMAIN messages : messages'[i] = messages[i]
      /\ DOMAIN messages = 1 .. Len(messages) /\ Len(messages) \in Nat
  BY SMT, Appended DEF Grown
<1>2. \A i \in DOMAIN messages : i < Len(messages) + 1
  BY SMT, <1>1
<1>3. messages'[Len(messages) + 1].by = p /\ messages'[Len(messages) + 1].prev = pin[p].prev
  BY <1>1, MessageRowFields
<1> QED
  BY <1>1, <1>2, <1>3

\* A new row keeps ForkRows: its call has no other, and its predecessor was
\* there before it.
LEMMA ForkRowsStep ==
  ASSUME messages \in Seq(MsgRow), ForkRows, NEW p \in Publishers, ForkCall(p),
         messages' = messages \/ Grown(p)
  PROVE  ForkRows'
<1>1. CASE messages' = messages
  BY <1>1 DEF ForkRows
<1>2. CASE Grown(p)
  <2>1. PICK n : n = Len(messages) + 1
    OBVIOUS
  <2>2. /\ DOMAIN messages' = DOMAIN messages \cup {n} /\ n \notin DOMAIN messages
        /\ \A i \in DOMAIN messages : messages'[i] = messages[i] /\ i < n
        /\ messages'[n].by = p /\ messages'[n].prev = pin[p].prev
    BY <1>2, <2>1, GrownRows
  <2>3. \A i \in DOMAIN messages : messages'[i].by # p
    BY <1>2, <2>2 DEF Grown
  <2>4. \A i, j \in DOMAIN messages' : messages'[i].by = messages'[j].by => i = j
    <3>1. \A i, j \in DOMAIN messages : messages'[i].by = messages'[j].by => i = j
      BY <2>2 DEF ForkRows
    <3> QED
      BY <2>2, <2>3, <3>1
  <2>5. ASSUME NEW i \in DOMAIN messages', messages'[i].prev # NoCall
        PROVE  \E k \in DOMAIN messages' : k < i /\ messages'[k].by = messages'[i].prev
    <3>1. CASE i = n
      <4>1. PICK k \in DOMAIN messages : messages[k].by = pin[p].prev
        BY <2>2, <2>5, <3>1 DEF ForkCall
      <4> QED
        BY <2>2, <3>1, <4>1
    <3>2. CASE i \in DOMAIN messages
      <4>1. messages'[i] = messages[i]
        BY <2>2, <3>2
      <4>2. PICK k \in DOMAIN messages : k < i /\ messages[k].by = messages[i].prev
        BY <2>5, <3>2, <4>1 DEF ForkRows
      <4> QED
        BY <2>2, <4>1, <4>2
    <3> QED
      BY <2>2, <3>1, <3>2
  <2> QED
    BY <2>4, <2>5 DEF ForkRows
<1> QED
  BY <1>1, <1>2

\* A call that does not move keeps ForkCall: versions and rows stay, and a new
\* row is not by a call it saw.
LEMMA ForkCallRests ==
  ASSUME messages \in Seq(MsgRow), PublishInv, NEW q \in Publishers, ForkCall(q),
         ppc'[q] = ppc[q], pin'[q] = pin[q], pbase'[q] = pbase[q], plast'[q] = plast[q],
         committed \subseteq committed',
         \A v \in 1..Len(policies) : policies'[v] = policies[v],
         messages' = messages \/ \E p \in Publishers : Grown(p)
  PROVE  ForkCall(q)'
<1>1. /\ DOMAIN messages \subseteq DOMAIN messages'
      /\ \A i \in DOMAIN messages : messages'[i] = messages[i]
      /\ \A i \in DOMAIN messages' : i \in DOMAIN messages \/ messages'[i].by \notin committed
  <2>1. CASE messages' = messages
    BY <2>1
  <2>2. ASSUME NEW p \in Publishers, Grown(p)
        PROVE  /\ DOMAIN messages \subseteq DOMAIN messages'
               /\ \A i \in DOMAIN messages : messages'[i] = messages[i]
               /\ \A i \in DOMAIN messages' :
                    i \in DOMAIN messages \/ messages'[i].by \notin committed
    <3>1. p \notin committed
      BY <2>2 DEF Grown
    <3> QED
      BY <2>2, <3>1, GrownRows
  <2> QED
    BY <2>1, <2>2
<1>2. ppc[q] \in Located => Chaining(q)' = Chaining(q)
  <2>1. ppc[q] \in Located => pin[q].ver \in 1..Len(policies)
    BY DEF PublishInv, CallOK, Checked, Located, Passed, PassedUnder
  <2> QED
    BY <2>1 DEF Chaining
<1>3. pbase'[q].seen \subseteq committed' /\ plast'[q] \in {0} \cup DOMAIN messages'
  BY <1>1 DEF ForkCall
<1>4. pin'[q].prev # NoCall => \E k \in DOMAIN messages' : messages'[k].by = pin'[q].prev
  BY <1>1 DEF ForkCall
<1>5. ASSUME ppc[q] \in Located, Chaining(q),
             NEW i \in DOMAIN messages', messages'[i].by \in pbase[q].seen
      PROVE  i <= plast[q]
  <2>1. i \in DOMAIN messages /\ messages'[i] = messages[i]
    BY <1>1, <1>5 DEF ForkCall
  <2> QED
    BY <1>5, <2>1 DEF ForkCall
<1>6. ASSUME ppc[q] \in Located \ {"lock"}, Chaining(q), plast[q] # 0
      PROVE  pin[q].prev = messages'[plast[q]].by
  <2>1. plast[q] \in DOMAIN messages
    BY <1>6 DEF ForkCall
  <2> QED
    BY <1>1, <1>6, <2>1 DEF ForkCall
<1> QED
  BY <1>2, <1>3, <1>4, <1>5, <1>6 DEF ForkCall

\* A call that is refused or rolled back has nothing left to keep.
LEMMA ForkCallEnds ==
  ASSUME PublishInv, DOMAIN plast = Publishers, NEW p \in Publishers,
         NEW how \in {"refused", "aborted"}, PublishEnds(p, how)
  PROVE  ForkCall(p)'
<1>1. DOMAIN ppc = Publishers /\ DOMAIN pin = Publishers /\ DOMAIN pbase = Publishers
  BY DEF PublishInv, PublishType
<1>2. ppc'[p] = how /\ pin'[p] = NoPublish /\ pbase'[p] = NoBase /\ plast'[p] = 0
  BY <1>1 DEF PublishEnds, PublishGoto
<1>3. how \notin Located
  BY DEF Located
<1>4. NoPublish.prev = NoCall /\ NoBase.seen = {}
  BY DEF NoPublish, NoBase
<1>5. pin'[p].prev = NoCall /\ pbase'[p].seen = {}
  BY <1>2, <1>4
<1> QED
  BY <1>2, <1>3, <1>5 DEF ForkCall

\* The newest message a call reads under its checks is no older than what it
\* saw: whatever was visible when it began is visible still.
LEMMA ForkCallReads ==
  ASSUME messages \in Seq(MsgRow), NEW p \in Publishers, ForkCall(p)
  PROVE  /\ LastMessage \in {0} \cup DOMAIN messages
         /\ \A i \in DOMAIN messages : messages[i].by \in pbase[p].seen => i <= LastMessage
<1>1. \A i \in DOMAIN messages : messages[i].by \in pbase[p].seen => i \in SeenMessages
  BY DEF ForkCall, SeenMessages
<1> QED
  BY <1>1, NewestRow

\* Each statement of Publish keeps ForkCall for its own call.
LEMMA ForkCallMoves ==
  ASSUME TypeInv, PublishInv, DOMAIN plast = Publishers, NEW p \in Publishers,
         ForkCall(p), PublishStep(p) \/ PublishAbort(p)
  PROVE  ForkCall(p)'
<1>0. /\ DOMAIN ppc = Publishers /\ DOMAIN pin = Publishers /\ DOMAIN pbase = Publishers
      /\ messages \in Seq(MsgRow)
  BY DEF PublishInv, PublishType, TypeInv, PublishTyped
<1>p. policies' = policies
  BY PublishFrame
<1>n. ppc[p] \in {"memory", "insert"} /\ messages' = Append(messages, MessageRow(p))
        => Grown(p)
  <2>1. ppc[p] \in {"memory", "insert"} =>
          p \notin committed /\ \A i \in DOMAIN messages : messages[i].by # p
    BY DEF PublishInv, CallOK, RowOK
  <2> QED
    BY <2>1 DEF Grown
<1>1. CASE PublishKey(p)
  <2>1. CASE PublishEnds(p, "refused")
    BY <2>1, ForkCallEnds
  <2>2. CASE ~PublishEnds(p, "refused")
    <3>1. PICK in \in PublishInput :
            /\ PublishGoto(p, "policy") /\ pin' = [pin EXCEPT ![p] = in]
            /\ pbase' = [pbase EXCEPT ![p] = [ver |-> Current, revoked |-> revoked,
                                              seen |-> Hashes]]
            /\ UNCHANGED plast
      BY <1>1, <2>2 DEF PublishKey
    <3>2. UNCHANGED <<messages, committed>>
      BY <1>1 DEF PublishKey, rowVars
    <3>3. /\ ppc'[p] = "policy" /\ pin'[p] = in /\ plast'[p] = plast[p]
          /\ pbase'[p].seen = Hashes
      BY <1>0, <3>1 DEF PublishGoto
    <3>4. in.prev \in Hashes \cup {NoCall}
      BY DEF PublishInput
    <3>5. /\ Hashes \subseteq committed
          /\ \A h \in Hashes : \E k \in DOMAIN messages : messages[k].by = h
      BY DEF Hashes, SeenMessages
    <3>6. "policy" \notin Located
      BY DEF Located
    <3> QED
      BY <3>2, <3>3, <3>4, <3>5, <3>6 DEF ForkCall
  <2> QED
    BY <2>1, <2>2
<1>2. CASE PublishPolicy(p)
  <2>1. CASE PublishEnds(p, "refused")
    BY <2>1, ForkCallEnds
  <2>2. CASE ~PublishEnds(p, "refused")
    <3>1. /\ PublishGoto(p, IF Backend = "memory" THEN "memory"
                            ELSE IF policies[pin[p].ver].chain THEN "chain"
                            ELSE "insert")
          /\ UNCHANGED <<pin, pbase, plast>>
      BY <1>2, <2>2 DEF PublishPolicy
    <3>2. UNCHANGED <<messages, committed>>
      BY <1>2 DEF PublishPolicy, rowVars
    <3>3. \/ ppc'[p] \in {"memory", "chain"}
          \/ ppc'[p] = "insert" /\ ~Chaining(p)
      <4>1. ppc'[p] = IF Backend = "memory" THEN "memory"
                      ELSE IF policies[pin[p].ver].chain THEN "chain" ELSE "insert"
        BY <1>0, <3>1 DEF PublishGoto
      <4>2. CASE Backend = "memory" \/ policies[pin[p].ver].chain
        BY <4>1, <4>2
      <4>3. CASE ~(Backend = "memory" \/ policies[pin[p].ver].chain)
        BY <4>1, <4>3 DEF Chaining
      <4> QED
        BY <4>2, <4>3
    <3>4. Chaining(p)' = Chaining(p)
      BY <1>p, <3>1 DEF Chaining
    <3>5. ~(ppc'[p] \in Located /\ Chaining(p)')
      BY <3>3, <3>4 DEF Located
    <3> QED
      BY <3>1, <3>2, <3>5 DEF ForkCall
  <2> QED
    BY <2>1, <2>2
<1>3. CASE PublishMemory(p)
  <2>1. CASE PublishEnds(p, "refused")
    BY <2>1, ForkCallEnds
  <2>2. CASE ~PublishEnds(p, "refused")
    <3>1. /\ Chaining(p) => ChainOK(p, LastMessage)
          /\ messages' = Append(messages, MessageRow(p))
          /\ committed' = committed \cup {p}
          /\ plast' = [plast EXCEPT ![p] = LastMessage]
          /\ PublishGoto(p, "ok") /\ UNCHANGED <<pin, pbase>>
      BY <1>3, <2>2 DEF PublishMemory, Chaining
    <3>2. plast'[p] = LastMessage /\ Chaining(p)' = Chaining(p) /\ Grown(p)
      <4>1. Grown(p)
        BY <1>3, <1>n, <3>1 DEF PublishMemory
      <4> QED
        BY <1>p, <3>1, <4>1 DEF Chaining
    <3>3. /\ DOMAIN messages \subseteq DOMAIN messages'
          /\ \A i \in DOMAIN messages : messages'[i] = messages[i]
          /\ \A i \in DOMAIN messages' : i \in DOMAIN messages \/ messages'[i].by = p
      BY <1>0, <3>2, GrownRows
    <3>4. p \notin pbase[p].seen
      BY <3>2 DEF ForkCall, Grown
    <3>5. /\ LastMessage \in {0} \cup DOMAIN messages
          /\ \A i \in DOMAIN messages : messages[i].by \in pbase[p].seen => i <= LastMessage
      BY <1>0, ForkCallReads
    <3>6. Chaining(p) /\ LastMessage # 0 => pin[p].prev = messages'[LastMessage].by
      BY <3>1, <3>3, <3>5 DEF ChainOK
    <3>7. \A i \in DOMAIN messages' : messages'[i].by \in pbase[p].seen => i <= LastMessage
      BY <3>3, <3>4, <3>5
    <3>8. pin[p].prev # NoCall => \E k \in DOMAIN messages' : messages'[k].by = pin[p].prev
      BY <3>3 DEF ForkCall
    <3>9. pbase[p].seen \subseteq committed' /\ LastMessage \in {0} \cup DOMAIN messages'
      BY <3>1, <3>3, <3>5 DEF ForkCall
    <3> QED
      BY <3>1, <3>2, <3>6, <3>7, <3>8, <3>9 DEF ForkCall
  <2> QED
    BY <2>1, <2>2
<1>4. CASE PublishChain(p)
  <2>1. /\ plast' = [plast EXCEPT ![p] = LastMessage] /\ PublishGoto(p, "lock")
        /\ UNCHANGED <<pin, pbase, messages, committed>>
    BY <1>4 DEF PublishChain, rowVars
  <2>2. ppc'[p] = "lock" /\ plast'[p] = LastMessage
    BY <1>0, <2>1 DEF PublishGoto
  <2>3. /\ LastMessage \in {0} \cup DOMAIN messages
        /\ \A i \in DOMAIN messages : messages[i].by \in pbase[p].seen => i <= LastMessage
    BY <1>0, ForkCallReads
  <2> QED
    BY <2>1, <2>2, <2>3 DEF ForkCall
<1>5. CASE PublishLock(p)
  <2>1. CASE PublishEnds(p, "refused")
    BY <2>1, ForkCallEnds
  <2>2. CASE ~PublishEnds(p, "refused")
    <3>1. /\ ppc[p] = "lock" /\ ChainOK(p, plast[p]) /\ PublishGoto(p, "insert")
          /\ UNCHANGED <<pin, pbase, plast, messages, committed>>
      BY <1>5, <2>2 DEF PublishLock, rowVars
    <3>2. ppc'[p] = "insert" /\ Chaining(p)' = Chaining(p) /\ ppc[p] \in Located
      BY <1>0, <1>p, <3>1 DEF PublishGoto, Chaining, Located
    <3> QED
      BY <3>1, <3>2 DEF ForkCall, ChainOK
  <2> QED
    BY <2>1, <2>2
<1>6. CASE PublishInsert(p)
  <2>1. CASE PublishEnds(p, "refused")
    BY <2>1, ForkCallEnds
  <2>2. CASE ~PublishEnds(p, "refused")
    <3>1. /\ ppc[p] = "insert" /\ messages' = Append(messages, MessageRow(p))
          /\ PublishGoto(p, "event") /\ UNCHANGED <<pin, pbase, plast, committed>>
      BY <1>6, <2>2 DEF PublishInsert
    <3>2. ppc'[p] = "event" /\ Chaining(p)' = Chaining(p) /\ Grown(p)
      <4>1. Grown(p)
        BY <1>n, <3>1
      <4> QED
        BY <1>0, <1>p, <3>1, <4>1 DEF PublishGoto, Chaining
    <3>3. /\ DOMAIN messages \subseteq DOMAIN messages'
          /\ \A i \in DOMAIN messages : messages'[i] = messages[i]
          /\ \A i \in DOMAIN messages' : i \in DOMAIN messages \/ messages'[i].by = p
      BY <1>0, <3>2, GrownRows
    <3>4. p \notin pbase[p].seen
      BY <3>2 DEF ForkCall, Grown
    <3>5. Chaining(p) => \A i \in DOMAIN messages :
            messages[i].by \in pbase[p].seen => i <= plast[p]
      BY <3>1 DEF ForkCall, Located
    <3>6. Chaining(p) => \A i \in DOMAIN messages' :
            messages'[i].by \in pbase[p].seen => i <= plast[p]
      BY <3>3, <3>4, <3>5
    <3>7. Chaining(p) /\ plast[p] # 0 => pin[p].prev = messages'[plast[p]].by
      <4>1. plast[p] # 0 => plast[p] \in DOMAIN messages
        BY DEF ForkCall
      <4>2. Chaining(p) /\ plast[p] # 0 => pin[p].prev = messages[plast[p]].by
        BY <3>1 DEF ForkCall, Located
      <4> QED
        BY <3>3, <4>1, <4>2
    <3>8. pin[p].prev # NoCall => \E k \in DOMAIN messages' : messages'[k].by = pin[p].prev
      BY <3>3 DEF ForkCall
    <3>9. pbase[p].seen \subseteq committed /\ plast[p] \in {0} \cup DOMAIN messages'
      BY <3>3 DEF ForkCall
    <3> QED
      BY <3>1, <3>2, <3>6, <3>7, <3>8, <3>9 DEF ForkCall
  <2> QED
    BY <2>1, <2>2
<1>7. CASE PublishEvent(p) \/ PublishCommit(p)
  <2>1. /\ ppc[p] \in {"event", "commit"} /\ committed \subseteq committed'
        /\ UNCHANGED <<messages, pin, pbase, plast>>
        /\ PublishGoto(p, "commit") \/ PublishGoto(p, "ok")
    BY <1>7 DEF PublishEvent, PublishCommit
  <2>2. /\ ppc'[p] \in {"commit", "ok"} /\ Chaining(p)' = Chaining(p)
        /\ ppc[p] \in Located \ {"lock"}
    BY <1>0, <1>p, <2>1 DEF PublishGoto, Chaining, Located
  <2> QED
    BY <2>1, <2>2 DEF ForkCall
<1>8. CASE PublishAbort(p)
  BY <1>8, ForkCallEnds DEF PublishAbort
<1> QED
  BY <1>1, <1>2, <1>3, <1>4, <1>5, <1>6, <1>7, <1>8 DEF PublishStep

\* What a step of Publish does to the rows, and to the calls of the others.
LEMMA PublishGrows ==
  ASSUME TypeInv, PublishInv, DOMAIN plast = Publishers, NEW p \in Publishers,
         PublishStep(p) \/ PublishAbort(p)
  PROVE  /\ messages' = messages \/ Grown(p)
         /\ DOMAIN plast' = Publishers
         /\ \A q \in Publishers \ {p} :
              /\ ppc'[q] = ppc[q] /\ pin'[q] = pin[q]
              /\ pbase'[q] = pbase[q] /\ plast'[q] = plast[q]
<1>0. DOMAIN ppc = Publishers /\ DOMAIN pin = Publishers /\ DOMAIN pbase = Publishers
  BY DEF PublishInv, PublishType
<1>1. ppc[p] \in {"memory", "insert"} =>
        p \notin committed /\ \A i \in DOMAIN messages : messages[i].by # p
  BY DEF PublishInv, CallOK, RowOK
<1>2. \/ messages' = messages
      \/ ppc[p] \in {"memory", "insert"} /\ messages' = Append(messages, MessageRow(p))
  BY DEF PublishStep, PublishKey, PublishPolicy, PublishMemory, PublishChain, PublishLock,
         PublishInsert, PublishEvent, PublishCommit, PublishAbort, rowVars
<1>3. \E label : ppc' = [ppc EXCEPT ![p] = label]
  BY DEF PublishStep, PublishKey, PublishPolicy, PublishMemory, PublishChain, PublishLock,
         PublishInsert, PublishEvent, PublishCommit, PublishAbort, PublishEnds, PublishGoto
<1>4. pin' = pin \/ \E in : pin' = [pin EXCEPT ![p] = in]
  BY DEF PublishStep, PublishKey, PublishPolicy, PublishMemory, PublishChain, PublishLock,
         PublishInsert, PublishEvent, PublishCommit, PublishAbort, PublishEnds
<1>5. pbase' = pbase \/ \E base : pbase' = [pbase EXCEPT ![p] = base]
  BY DEF PublishStep, PublishKey, PublishPolicy, PublishMemory, PublishChain, PublishLock,
         PublishInsert, PublishEvent, PublishCommit, PublishAbort, PublishEnds
<1>6. plast' = plast \/ \E last : plast' = [plast EXCEPT ![p] = last]
  BY DEF PublishStep, PublishKey, PublishPolicy, PublishMemory, PublishChain, PublishLock,
         PublishInsert, PublishEvent, PublishCommit, PublishAbort, PublishEnds
<1> QED
  BY <1>0, <1>1, <1>2, <1>3, <1>4, <1>5, <1>6 DEF Grown

\* Calls stay committed.
LEMMA CommittedGrows ==
  ASSUME TypeInv, [Next]_vars PROVE committed \subseteq committed'
BY TablesStep DEF TypeInv

\* Every step keeps ForkInv.
LEMMA ForkInvStep ==
  ASSUME PolicyInv, PublishInv, TypeInv, ForkInv, [Next]_vars
  PROVE  ForkInv'
<1>0. /\ messages \in Seq(MsgRow) /\ DOMAIN plast = Publishers
      /\ ForkRows /\ \A q \in Publishers : ForkCall(q)
  BY DEF TypeInv, PublishTyped, ForkInv
<1>1. /\ committed \subseteq committed'
      /\ \A v \in 1..Len(policies) : policies'[v] = policies[v]
  BY CommittedGrows, PoliciesGrow
<1>2. ASSUME NEW p \in Publishers, PublishStep(p) \/ PublishAbort(p)
      PROVE  ForkInv'
  <2>1. /\ messages' = messages \/ Grown(p)
        /\ DOMAIN plast' = Publishers
        /\ \A q \in Publishers \ {p} :
             /\ ppc'[q] = ppc[q] /\ pin'[q] = pin[q]
             /\ pbase'[q] = pbase[q] /\ plast'[q] = plast[q]
    BY <1>0, <1>2, PublishGrows
  <2>2. ForkRows'
    BY <1>0, <2>1, ForkRowsStep
  <2>3. ForkCall(p)'
    BY <1>0, <1>2, ForkCallMoves
  <2>4. ASSUME NEW q \in Publishers \ {p} PROVE ForkCall(q)'
    BY <1>0, <1>1, <2>1, ForkCallRests
  <2> QED
    BY <2>1, <2>2, <2>3, <2>4 DEF ForkInv
<1>3. CASE UNCHANGED <<messages, ppc, pin, pbase, plast>>
  <2>1. ASSUME NEW q \in Publishers PROVE ForkCall(q)'
    BY <1>0, <1>1, <1>3, ForkCallRests
  <2>2. ForkRows'
    BY <1>0, <1>3 DEF ForkRows
  <2> QED
    BY <1>0, <1>3, <2>1, <2>2 DEF ForkInv
<1>4. CASE \/ \E u \in Putters : PutStep(u) \/ PutAbort(u)
           \/ \E a \in Attesters : AttestStep(a) \/ AttestAbort(a)
           \/ \E c \in Consumers : ConsumeStep(c) \/ ConsumeAbort(c)
           \/ \E v \in 1..Current : Age(v)
           \/ \E k \in Keys : Revoke(k)
           \/ UNCHANGED vars
  BY <1>3, <1>4, PutFrame, AttestFrame, ConsumeFrame, EnvFrame DEF vars
<1> QED
  BY <1>2, <1>4 DEF Next

\* With PostgreSQL the newest message is read before its lock is granted, so
\* the chain of a topic can fork; but with either backend a message shares its
\* predecessor only with messages whose calls overlapped its own, never with
\* one that was visible before its call began (service.go:412).
THEOREM ForksOverlapHolds == Spec => []ForksOverlap
<1>1. ASSUME Init PROVE ForkInv
  <2>1. /\ DOMAIN messages = {} /\ DOMAIN plast = Publishers
        /\ \A p \in Publishers : /\ ppc[p] = "start" /\ plast[p] = 0
                                 /\ pin[p] = NoPublish /\ pbase[p] = NoBase
    BY SMT, <1>1 DEF Init
  <2>2. NoPublish.prev = NoCall /\ NoBase.seen = {} /\ "start" \notin Located
    BY DEF NoPublish, NoBase, Located
  <2>3. \A p \in Publishers : ForkCall(p)
    BY <2>1, <2>2 DEF ForkCall
  <2> QED
    BY <2>1, <2>3 DEF ForkInv, ForkRows
<1>2. ASSUME PublishInv, TypeInv, ForkInv PROVE ForksOverlap
  <2> SUFFICES ASSUME NEW i \in SeenMessages, NEW j \in SeenMessages,
                      messages[i].prev = messages[j].prev,
                      policies[messages[j].ver].chain,
                      messages[i].by \in pbase[messages[j].by].seen
               PROVE  FALSE
    BY DEF ForksOverlap
  <2>0. messages \in Seq(MsgRow)
    BY <1>2 DEF TypeInv, PublishTyped
  <2>1. /\ i \in DOMAIN messages /\ j \in DOMAIN messages
        /\ messages[j].by \in Publishers \cap committed
    BY <1>2, RowAuthor DEF SeenMessages, PublishInv
  <2>2. PICK p \in Publishers : p = messages[j].by
    BY <2>1
  <2>3. /\ ppc[p] = "ok" /\ messages[j].ver = pin[p].ver /\ messages[j].prev = pin[p].prev
    BY <1>2, <2>1, <2>2 DEF PublishInv, CallOK, RowOK
  <2>4. ForkCall(p) /\ Chaining(p) /\ ppc[p] \in Located \ {"lock"}
    BY <1>2, <2>3 DEF ForkInv, Chaining, Located
  <2>5. i <= plast[p]
    BY <2>1, <2>2, <2>4 DEF ForkCall
  <2>6. plast[p] \in DOMAIN messages
    <3>1. plast[p] \in {0} \cup DOMAIN messages
      BY <2>4 DEF ForkCall
    <3>2. i \in Nat /\ i >= 1
      BY SMT, <2>0, <2>1
    <3>3. plast[p] # 0
      BY SMT, <2>5, <3>2
    <3> QED
      BY <3>1, <3>3
  <2>7. messages[i].prev = messages[plast[p]].by
    <3>1. plast[p] # 0
      BY SMT, <2>0, <2>6
    <3> QED
      BY <2>3, <2>4, <3>1 DEF ForkCall
  <2>8. messages[plast[p]].by # NoCall
    BY <1>2, <2>6, RowAuthor, CallsAssumption DEF PublishInv
  <2>9. PICK k \in DOMAIN messages : k < i /\ messages[k].by = messages[i].prev
    BY <1>2, <2>1, <2>7, <2>8 DEF ForkInv, ForkRows
  <2>10. k = plast[p]
    <3>1. messages[k].by = messages[plast[p]].by
      BY <2>7, <2>9
    <3> QED
      BY <1>2, <2>6, <3>1 DEF ForkInv, ForkRows
  <2>11. i \in Nat /\ k \in Nat
    BY SMT, <2>0, <2>1
  <2> QED
    BY SMT, <2>5, <2>9, <2>10, <2>11
<1>3. PolicyInv /\ PublishInv /\ TypeInv /\ ForkInv /\ [Next]_vars => ForkInv'
  BY ForkInvStep
<1> QED
  BY <1>1, <1>2, <1>3, PolicyInvariance, PublishInvInit, PublishInvStep, TypeInvariance, PTL
     DEF Spec
-----------------------------------------------------------------------------
(* Live attestations *)

\* A call that has superseded rows and holds their locks.
Holding == {"insert", "event", "commit"}

\* The rows of message m and key k by calls that b saw when it began are
\* superseded, by a committed call or by b.
Covered(b, m, k) ==
  \A i \in DOMAIN attests :
    /\ attests[i].msg = m /\ attests[i].key = k /\ attests[i].by \in abase[b]
    => attests[i].sup \in committed \cup {b}

\* Those of them that are not superseded are in the snapshot of its UPDATE.
Snapped(a) ==
  \A i \in DOMAIN attests :
    /\ attests[i].msg = ain[a].msg /\ attests[i].key = ain[a].key
    /\ attests[i].by \in abase[a]
    => i \in asnap[a] \/ attests[i].sup \in committed

LiveCall(a) ==
  /\ abase[a] \subseteq committed
  /\ a \in committed <=> apc[a] = "ok"
  /\ apc[a] = "memory" => Backend = "memory"
  /\ apc[a] \in {"update", "wait"} \cup Holding => Backend = "postgres"
  /\ apc[a] = "wait" => Snapped(a)
  /\ apc[a] = "insert" => Covered(a, ain[a].msg, ain[a].key)

LiveRow(row) ==
  /\ apc[row.by] \in {"event", "commit", "ok", "aborted"}
  /\ apc[row.by] # "aborted" => Covered(row.by, row.msg, row.key)

\* Whoever has inserted its attestation has covered what it saw.
LiveInv == /\ DOMAIN abase = Attesters
           /\ \A a \in Attesters : LiveCall(a)
           /\ \A j \in DOMAIN attests : LiveRow(attests[j])

\* Row i is superseded by nobody who committed or may commit.
Unclaimed(i) ==
  /\ attests[i].sup \notin committed
  /\ \A b \in Attesters : apc[b] \in Holding => attests[i].sup # b

SameRow(i) == /\ attests'[i].by = attests[i].by /\ attests'[i].msg = attests[i].msg
              /\ attests'[i].key = attests[i].key /\ attests'[i].status = attests[i].status

\* What steps do to the attestations: only an unclaimed row is superseded, and
\* a new row is by a call that has not committed yet.
RowsMove ==
  /\ DOMAIN attests \subseteq DOMAIN attests'
  /\ \A i \in DOMAIN attests :
       SameRow(i) /\ (attests'[i].sup = attests[i].sup \/ Unclaimed(i))
  /\ \A i \in DOMAIN attests' \ DOMAIN attests : attests'[i].by \notin committed

\* A step that leaves the attestations alone is such a step.
LEMMA RowsRest ==
  ASSUME attests' = attests PROVE RowsMove
BY DEF RowsMove, SameRow

\* Every row was written by a call of Attest.
LEMMA AttestAuthor ==
  ASSUME attests \in Seq(AttRow), NEW i \in DOMAIN attests
  PROVE  attests[i].by \in Attesters
<1>1. attests[i] \in AttRow
  BY SMT
<1> QED
  BY <1>1 DEF AttRow

\* What a call that has superseded rows covers stays covered: nobody takes over
\* the rows it has superseded.
LEMMA CoveredKept ==
  ASSUME NEW b \in Attesters, NEW m, NEW k, LiveCall(b), Covered(b, m, k),
         apc[b] \in Holding \cup {"ok"}, abase'[b] = abase[b],
         committed \subseteq committed', RowsMove
  PROVE  Covered(b, m, k)'
<1>1. ASSUME NEW i \in DOMAIN attests', attests'[i].msg = m, attests'[i].key = k,
             attests'[i].by \in abase[b]
      PROVE  attests'[i].sup \in committed' \cup {b}
  <2>1. i \in DOMAIN attests
    BY <1>1 DEF RowsMove, LiveCall
  <2>2. SameRow(i) /\ (attests'[i].sup = attests[i].sup \/ Unclaimed(i))
    BY <2>1 DEF RowsMove
  <2>3. attests[i].sup \in committed \cup {b}
    BY <1>1, <2>1, <2>2 DEF Covered, SameRow
  <2>4. ~Unclaimed(i)
    BY <2>3 DEF Unclaimed, LiveCall
  <2> QED
    BY <2>2, <2>3, <2>4
<1> QED
  BY <1>1 DEF Covered

\* A snapshot still holds what the call saw and nobody has superseded for good.
LEMMA SnappedKept ==
  ASSUME NEW a \in Attesters, LiveCall(a), Snapped(a),
         abase'[a] = abase[a], ain'[a] = ain[a], asnap'[a] = asnap[a],
         committed \subseteq committed', RowsMove
  PROVE  Snapped(a)'
<1>1. ASSUME NEW i \in DOMAIN attests', attests'[i].msg = ain[a].msg,
             attests'[i].key = ain[a].key, attests'[i].by \in abase[a]
      PROVE  i \in asnap[a] \/ attests'[i].sup \in committed'
  <2>1. i \in DOMAIN attests
    BY <1>1 DEF RowsMove, LiveCall
  <2>2. SameRow(i) /\ (attests'[i].sup = attests[i].sup \/ Unclaimed(i))
    BY <2>1 DEF RowsMove
  <2>3. i \in asnap[a] \/ attests[i].sup \in committed
    BY <1>1, <2>1, <2>2 DEF Snapped, SameRow
  <2>4. attests[i].sup \in committed => ~Unclaimed(i)
    BY DEF Unclaimed
  <2> QED
    BY <2>2, <2>3, <2>4
<1> QED
  BY <1>1 DEF Snapped

\* A call that does not move keeps LiveCall.
LEMMA LiveCallRests ==
  ASSUME NEW b \in Attesters, LiveCall(b), RowsMove, committed \subseteq committed',
         b \in committed' <=> b \in committed,
         apc'[b] = apc[b], ain'[b] = ain[b], abase'[b] = abase[b], asnap'[b] = asnap[b]
  PROVE  LiveCall(b)'
<1>1. apc[b] = "wait" => Snapped(b)'
  BY SnappedKept DEF LiveCall
<1>2. ASSUME apc[b] = "insert" PROVE Covered(b, ain[b].msg, ain[b].key)'
  <2>1. Covered(b, ain[b].msg, ain[b].key) /\ apc[b] \in Holding \cup {"ok"}
    BY <1>2 DEF LiveCall, Holding
  <2>2. PICK m, k : m = ain[b].msg /\ k = ain[b].key
    OBVIOUS
  <2>3. Covered(b, m, k)'
    BY <2>1, <2>2, CoveredKept
  <2>4. ain'[b].msg = m /\ ain'[b].key = k
    BY <2>2
  <2> QED
    BY <2>3, <2>4 DEF Covered
<1> QED
  BY <1>1, <1>2 DEF LiveCall

\* A row keeps LiveRow while its call stays where it is or goes on.
LEMMA LiveRowRests ==
  ASSUME attests \in Seq(AttRow), LiveInv, RowsMove, committed \subseteq committed',
         NEW j \in DOMAIN attests,
         LET b == attests[j].by IN
           \/ apc'[b] = apc[b] /\ abase'[b] = abase[b]
           \/ /\ apc[b] \in Holding /\ apc'[b] \in {"commit", "ok"}
              /\ abase'[b] = abase[b]
           \/ apc'[b] = "aborted"
  PROVE  LiveRow(attests[j])'
<1>1. PICK b, m, k : b = attests[j].by /\ m = attests[j].msg /\ k = attests[j].key
  OBVIOUS
<1>2. attests'[j].by = b /\ attests'[j].msg = m /\ attests'[j].key = k
  BY <1>1 DEF RowsMove, SameRow
<1>3. /\ b \in Attesters /\ LiveCall(b) /\ apc[b] \in {"event", "commit", "ok", "aborted"}
      /\ apc[b] # "aborted" => Covered(b, m, k)
  BY <1>1, AttestAuthor DEF LiveInv, LiveRow
<1>4. /\ apc'[b] \in {"event", "commit", "ok", "aborted"}
      /\ apc'[b] # "aborted" => apc[b] # "aborted" /\ abase'[b] = abase[b]
  BY <1>1, <1>3 DEF Holding
<1>5. ASSUME apc'[b] # "aborted" PROVE Covered(b, m, k)'
  <2>1. Covered(b, m, k) /\ apc[b] \in Holding \cup {"ok"} /\ abase'[b] = abase[b]
    BY <1>3, <1>4, <1>5 DEF Holding
  <2> QED
    BY <1>3, <2>1, CoveredKept
<1> QED
  BY <1>2, <1>4, <1>5 DEF LiveRow, Covered

\* The rows of S are marked with the call, the others left alone.
LEMMA Marked ==
  ASSUME attests \in Seq(AttRow), NEW S, NEW a \in Attesters, NEW new,
         new = Superseded(S, a)
  PROVE  /\ new \in Seq(AttRow) /\ DOMAIN new = DOMAIN attests
         /\ \A i \in DOMAIN attests :
              /\ new[i].by = attests[i].by /\ new[i].msg = attests[i].msg
              /\ new[i].key = attests[i].key /\ new[i].status = attests[i].status
              /\ i \in S => new[i].sup = a
              /\ i \notin S => new[i].sup = attests[i].sup
<1>1. /\ Superseded(S, a) \in Seq(AttRow)
      /\ DOMAIN Superseded(S, a) = DOMAIN attests
      /\ \A i \in DOMAIN attests :
           /\ Superseded(S, a)[i].by = attests[i].by
           /\ Superseded(S, a)[i].msg = attests[i].msg
           /\ Superseded(S, a)[i].key = attests[i].key
           /\ Superseded(S, a)[i].status = attests[i].status
           /\ Superseded(S, a)[i].sup = IF i \in S THEN a ELSE attests[i].sup
  BY SMT, SupersededRows
<1>2. \A i \in DOMAIN attests :
        /\ i \in S => new[i].sup = a
        /\ i \notin S => new[i].sup = attests[i].sup
  BY SMT, <1>1
<1>3. /\ new \in Seq(AttRow) /\ DOMAIN new = DOMAIN attests
      /\ \A i \in DOMAIN attests :
           /\ new[i].by = attests[i].by /\ new[i].msg = attests[i].msg
           /\ new[i].key = attests[i].key /\ new[i].status = attests[i].status
  BY <1>1
<1> QED
  BY <1>2, <1>3

\* What a step of Attest does to the calls of the others.
LEMMA AttestOthers ==
  ASSUME TypeInv, LiveInv, NEW a \in Attesters, AttestStep(a) \/ AttestAbort(a)
  PROVE  /\ DOMAIN abase' = Attesters
         /\ \A b \in Attesters \ {a} : /\ apc'[b] = apc[b] /\ ain'[b] = ain[b]
                                       /\ abase'[b] = abase[b] /\ asnap'[b] = asnap[b]
         /\ committed' = committed \/ committed' = committed \cup {a}
<1>0. /\ DOMAIN apc = Attesters /\ DOMAIN ain = Attesters /\ DOMAIN abase = Attesters
      /\ DOMAIN asnap = Attesters
  BY DEF TypeInv, AttestTyped, LiveInv
<1>1. \E label : apc' = [apc EXCEPT ![a] = label]
  BY DEF AttestStep, AttestKey, AttestPolicy, AttestMessage, AttestMemory, AttestUpdate,
         AttestSupersede, AttestInsert, AttestEvent, AttestCommit, AttestAbort, AttestEnds,
         AttestGoto
<1>2. ain' = ain \/ \E in : ain' = [ain EXCEPT ![a] = in]
  BY DEF AttestStep, AttestKey, AttestPolicy, AttestMessage, AttestMemory, AttestUpdate,
         AttestSupersede, AttestInsert, AttestEvent, AttestCommit, AttestAbort, AttestEnds
<1>3. abase' = abase \/ \E base : abase' = [abase EXCEPT ![a] = base]
  BY DEF AttestStep, AttestKey, AttestPolicy, AttestMessage, AttestMemory, AttestUpdate,
         AttestSupersede, AttestInsert, AttestEvent, AttestCommit, AttestAbort, AttestEnds
<1>4. asnap' = asnap \/ \E snap : asnap' = [asnap EXCEPT ![a] = snap]
  BY DEF AttestStep, AttestKey, AttestPolicy, AttestMessage, AttestMemory, AttestUpdate,
         AttestSupersede, AttestInsert, AttestEvent, AttestCommit, AttestAbort, AttestEnds
<1>5. committed' = committed \/ committed' = committed \cup {a}
  BY AttestRows DEF TypeInv
<1> QED
  BY <1>0, <1>1, <1>2, <1>3, <1>4, <1>5

\* A step of Attest supersedes unclaimed rows only: UPDATE waits for whoever
\* holds the lock of a row, and the in-memory path finds nobody holding one.
LEMMA AttestRowsMove ==
  ASSUME TypeInv, LiveInv, NEW a \in Attesters, AttestStep(a) \/ AttestAbort(a)
  PROVE  /\ RowsMove
         /\ \A i \in DOMAIN attests' \ DOMAIN attests :
              /\ apc[a] \in {"memory", "insert"} /\ attests'[i].by = a
              /\ attests'[i].msg = ain[a].msg /\ attests'[i].key = ain[a].key
<1>0. attests \in Seq(AttRow) /\ LiveCall(a)
  BY DEF TypeInv, AttestTyped, LiveInv
<1>r. /\ AttestRow(a).by = a /\ AttestRow(a).msg = ain[a].msg
      /\ AttestRow(a).key = ain[a].key
  BY DEF AttestRow
<1>s. ASSUME NEW S, S \subseteq DOMAIN attests, \A i \in S : Unclaimed(i), NEW old,
             old = Superseded(S, a)
      PROVE  /\ old \in Seq(AttRow) /\ DOMAIN old = DOMAIN attests
             /\ \A i \in DOMAIN attests :
                  /\ old[i].by = attests[i].by /\ old[i].msg = attests[i].msg
                  /\ old[i].key = attests[i].key /\ old[i].status = attests[i].status
                  /\ old[i].sup = attests[i].sup \/ Unclaimed(i)
  <2>1. /\ old \in Seq(AttRow) /\ DOMAIN old = DOMAIN attests
        /\ \A i \in DOMAIN attests :
             /\ old[i].by = attests[i].by /\ old[i].msg = attests[i].msg
             /\ old[i].key = attests[i].key /\ old[i].status = attests[i].status
             /\ i \in S => old[i].sup = a
             /\ i \notin S => old[i].sup = attests[i].sup
    BY SMT, <1>0, <1>s, Marked
  <2> QED
    BY <1>s, <2>1
<1>1. CASE UNCHANGED attests
  BY <1>1, RowsRest
<1>2. CASE AttestSupersede(a)
  <2>1. PICK S : S = asnap[a] \cap LiveOf(ain[a].msg, ain[a].key)
    OBVIOUS
  <2>2. S \subseteq DOMAIN attests /\ \A i \in S : Unclaimed(i)
    BY <1>2, <2>1 DEF AttestSupersede, LiveOf, Live, Unclaimed, Holding
  <2>3. attests' = Superseded(S, a)
    BY <1>2, <2>1 DEF AttestSupersede
  <2>4. /\ DOMAIN attests' = DOMAIN attests
        /\ \A i \in DOMAIN attests :
             SameRow(i) /\ (attests'[i].sup = attests[i].sup \/ Unclaimed(i))
    BY <1>s, <2>2, <2>3 DEF SameRow
  <2> QED
    BY <2>4 DEF RowsMove
<1>a. ASSUME NEW old \in Seq(AttRow), DOMAIN old = DOMAIN attests,
             attests' = Append(old, AttestRow(a)), apc[a] \in {"memory", "insert"},
             \A i \in DOMAIN attests :
               /\ old[i].by = attests[i].by /\ old[i].msg = attests[i].msg
               /\ old[i].key = attests[i].key /\ old[i].status = attests[i].status
               /\ old[i].sup = attests[i].sup \/ Unclaimed(i)
      PROVE  /\ RowsMove
             /\ \A i \in DOMAIN attests' \ DOMAIN attests :
                  /\ apc[a] \in {"memory", "insert"} /\ attests'[i].by = a
                  /\ attests'[i].msg = ain[a].msg /\ attests'[i].key = ain[a].key
  <2>1. PICK row : row = AttestRow(a)
    OBVIOUS
  <2>2. /\ DOMAIN attests' = DOMAIN attests \cup {Len(old) + 1}
        /\ attests'[Len(old) + 1] = row
        /\ \A i \in DOMAIN attests : attests'[i] = old[i]
    <3>1. /\ DOMAIN Append(old, row) = DOMAIN old \cup {Len(old) + 1}
          /\ Append(old, row)[Len(old) + 1] = row
          /\ \A i \in DOMAIN old : Append(old, row)[i] = old[i]
      BY <1>a, Appended
    <3> QED
      BY <1>a, <2>1, <3>1
  <2>3. \A i \in DOMAIN attests :
          SameRow(i) /\ (attests'[i].sup = attests[i].sup \/ Unclaimed(i))
    BY <1>a, <2>2 DEF SameRow
  <2>4. a \notin committed
    BY <1>0, <1>a DEF LiveCall
  <2>5. \A i \in DOMAIN attests' \ DOMAIN attests :
          /\ attests'[i].by = a /\ attests'[i].msg = ain[a].msg
          /\ attests'[i].key = ain[a].key
    BY <1>r, <2>1, <2>2
  <2> QED
    BY <1>a, <2>2, <2>3, <2>4, <2>5 DEF RowsMove
<1>3. CASE AttestInsert(a)
  <2>1. attests' = Append(attests, AttestRow(a)) /\ apc[a] \in {"memory", "insert"}
    BY <1>3 DEF AttestInsert
  <2> QED
    BY <1>0, <1>a, <2>1
<1>4. CASE AttestMemory(a)
  <2>1. PICK S : S = LiveOf(ain[a].msg, ain[a].key)
    OBVIOUS
  <2>2. PICK old : old = Superseded(S, a)
    OBVIOUS
  <2>3. apc[a] = "memory" /\ attests' = Append(old, AttestRow(a))
    BY <1>4, <2>1, <2>2 DEF AttestMemory
  <2>4. \A b \in Attesters : apc[b] \notin Holding
    <3>1. Backend # "postgres"
      BY <1>0, <2>3 DEF LiveCall
    <3> QED
      BY <3>1 DEF LiveInv, LiveCall
  <2>5. S \subseteq DOMAIN attests /\ \A i \in S : Unclaimed(i)
    BY <2>1, <2>4 DEF LiveOf, Live, Unclaimed
  <2>6. /\ old \in Seq(AttRow) /\ DOMAIN old = DOMAIN attests
        /\ \A i \in DOMAIN attests :
             /\ old[i].by = attests[i].by /\ old[i].msg = attests[i].msg
             /\ old[i].key = attests[i].key /\ old[i].status = attests[i].status
             /\ old[i].sup = attests[i].sup \/ Unclaimed(i)
    BY <1>s, <2>2, <2>5
  <2> QED
    BY <1>a, <2>3, <2>6
<1>5. CASE \/ AttestKey(a) \/ AttestPolicy(a) \/ AttestMessage(a) \/ AttestUpdate(a)
           \/ AttestEvent(a) \/ AttestCommit(a) \/ AttestAbort(a)
  BY <1>1, <1>5 DEF AttestKey, AttestPolicy, AttestMessage, AttestUpdate, AttestEvent,
                    AttestCommit, AttestAbort, rowVars
<1> QED
  BY <1>2, <1>3, <1>4, <1>5 DEF AttestStep

\* The in-memory path covers what the call saw, in the step that adds its row.
LEMMA MemoryCovers ==
  ASSUME TypeInv, LiveInv, NEW a \in Attesters, AttestMemory(a)
  PROVE  \A i \in DOMAIN attests :
           /\ attests'[i].msg = ain[a].msg /\ attests'[i].key = ain[a].key
           /\ attests'[i].by \in abase[a]
           => attests'[i].sup \in committed \cup {a}
<1>0. attests \in Seq(AttRow) /\ LiveCall(a)
  BY DEF TypeInv, AttestTyped, LiveInv
<1>1. PICK S : S = LiveOf(ain[a].msg, ain[a].key)
  OBVIOUS
<1>2. PICK old : old = Superseded(S, a)
  OBVIOUS
<1>3. attests' = Append(old, AttestRow(a))
  BY <1>1, <1>2 DEF AttestMemory
<1>4. /\ old \in Seq(AttRow) /\ DOMAIN old = DOMAIN attests
      /\ \A i \in DOMAIN attests :
           /\ old[i].by = attests[i].by /\ old[i].msg = attests[i].msg
           /\ old[i].key = attests[i].key
           /\ i \in S => old[i].sup = a
           /\ i \notin S => old[i].sup = attests[i].sup
  BY SMT, <1>0, <1>2, Marked
<1>5. \A i \in DOMAIN attests : attests'[i] = old[i]
  <2>1. \A i \in DOMAIN old : Append(old, AttestRow(a))[i] = old[i]
    BY <1>4, Appended
  <2> QED
    BY <1>3, <1>4, <2>1
<1>6. ASSUME NEW i \in DOMAIN attests, attests[i].msg = ain[a].msg,
             attests[i].key = ain[a].key, attests[i].by \in abase[a],
             attests[i].sup \notin committed
      PROVE  i \in S
  BY <1>0, <1>1, <1>6 DEF LiveOf, Live, LiveCall
<1>7. ASSUME NEW i \in DOMAIN attests, attests'[i].msg = ain[a].msg,
             attests'[i].key = ain[a].key, attests'[i].by \in abase[a]
      PROVE  attests'[i].sup \in committed \cup {a}
  <2>1. /\ attests[i].msg = ain[a].msg /\ attests[i].key = ain[a].key
        /\ attests[i].by \in abase[a] /\ attests'[i].sup = old[i].sup
    BY <1>4, <1>5, <1>7
  <2>2. CASE i \in S
    BY <1>4, <2>1, <2>2
  <2>3. CASE i \notin S
    BY <1>4, <1>6, <2>1, <2>3
  <2> QED
    BY <2>2, <2>3
<1> QED
  BY <1>7

\* Each statement of Attest keeps LiveCall for its own call.
LEMMA LiveCallMoves ==
  ASSUME TypeInv, LiveInv, NEW a \in Attesters, AttestStep(a) \/ AttestAbort(a)
  PROVE  LiveCall(a)'
<1>0. /\ DOMAIN apc = Attesters /\ DOMAIN ain = Attesters /\ DOMAIN abase = Attesters
      /\ DOMAIN asnap = Attesters /\ LiveCall(a) /\ attests \in Seq(AttRow)
  BY DEF TypeInv, AttestTyped, LiveInv
<1>m. RowsMove
  BY AttestRowsMove
<1>e. ASSUME NEW how \in {"refused", "aborted"}, AttestEnds(a, how), UNCHANGED committed,
             apc[a] # "ok"
      PROVE  LiveCall(a)'
  <2>1. apc'[a] = how /\ abase'[a] = {} /\ a \notin committed
    BY <1>0, <1>e DEF AttestEnds, AttestGoto, LiveCall
  <2> QED
    BY <1>e, <2>1 DEF LiveCall, Holding
<1>1. CASE AttestKey(a)
  <2>1. UNCHANGED committed /\ apc[a] = "start"
    BY <1>1 DEF AttestKey, rowVars
  <2>2. \/ AttestEnds(a, "refused")
        \/ /\ AttestGoto(a, "policy")
           /\ abase' = [abase EXCEPT ![a] = committed \cap Attesters]
    BY <1>1 DEF AttestKey
  <2>3. CASE /\ AttestGoto(a, "policy")
             /\ abase' = [abase EXCEPT ![a] = committed \cap Attesters]
    <3>1. apc'[a] = "policy" /\ abase'[a] \subseteq committed /\ a \notin committed
      BY <1>0, <2>1, <2>3 DEF AttestGoto, LiveCall
    <3> QED
      BY <2>1, <3>1 DEF LiveCall, Holding
  <2> QED
    BY <1>e, <2>1, <2>2, <2>3
<1>2. CASE AttestPolicy(a)
  <2>1. UNCHANGED committed /\ apc[a] = "policy"
    BY <1>2 DEF AttestPolicy, rowVars
  <2>2. AttestEnds(a, "refused") \/ (AttestGoto(a, "message") /\ UNCHANGED abase)
    BY <1>2 DEF AttestPolicy
  <2>3. CASE AttestGoto(a, "message") /\ UNCHANGED abase
    <3>1. apc'[a] = "message"
      BY <1>0, <2>3 DEF AttestGoto
    <3> QED
      BY <1>0, <2>1, <2>3, <3>1 DEF LiveCall, Holding
  <2> QED
    BY <1>e, <2>1, <2>2, <2>3
<1>3. CASE AttestMessage(a)
  <2>1. UNCHANGED committed /\ apc[a] = "message"
    BY <1>3 DEF AttestMessage, rowVars
  <2>2. \/ AttestEnds(a, "refused")
        \/ /\ AttestGoto(a, IF Backend = "memory" THEN "memory" ELSE "update")
           /\ UNCHANGED abase
    BY <1>3 DEF AttestMessage
  <2>3. CASE /\ AttestGoto(a, IF Backend = "memory" THEN "memory" ELSE "update")
             /\ UNCHANGED abase
    <3>1. \/ apc'[a] = "memory" /\ Backend = "memory"
          \/ apc'[a] = "update" /\ Backend = "postgres"
      BY <1>0, <2>3, BackendAssumption DEF AttestGoto
    <3> QED
      BY <1>0, <2>1, <2>3, <3>1 DEF LiveCall, Holding
  <2> QED
    BY <1>e, <2>1, <2>2, <2>3
<1>4. CASE AttestMemory(a) \/ AttestCommit(a)
  <2>1. AttestEnds(a, "ok") /\ committed' = committed \cup {a}
    BY <1>4 DEF AttestMemory, AttestCommit
  <2>2. apc'[a] = "ok" /\ abase' = abase
    BY <1>0, <2>1 DEF AttestEnds, AttestGoto
  <2> QED
    BY <1>0, <2>1, <2>2 DEF LiveCall, Holding
<1>5. CASE AttestUpdate(a)
  <2>1. /\ apc[a] = "update" /\ AttestGoto(a, "wait")
        /\ asnap' = [asnap EXCEPT ![a] = LiveOf(ain[a].msg, ain[a].key)]
        /\ UNCHANGED <<attests, committed, ain, abase>>
    BY <1>5 DEF AttestUpdate, rowVars
  <2>2. apc'[a] = "wait" /\ asnap'[a] = LiveOf(ain[a].msg, ain[a].key)
    BY <1>0, <2>1 DEF AttestGoto
  <2>3. ASSUME NEW i \in DOMAIN attests, attests[i].msg = ain[a].msg,
               attests[i].key = ain[a].key, attests[i].by \in abase[a]
        PROVE  i \in asnap'[a] \/ attests[i].sup \in committed
    BY <1>0, <2>2, <2>3 DEF LiveOf, Live, LiveCall
  <2>4. Snapped(a)'
    BY <2>1, <2>3 DEF Snapped
  <2> QED
    BY <1>0, <2>1, <2>2, <2>4 DEF LiveCall, Holding
<1>6. CASE AttestSupersede(a)
  <2>1. PICK m, k : m = ain[a].msg /\ k = ain[a].key
    OBVIOUS
  <2>2. /\ apc[a] = "wait" /\ AttestGoto(a, "insert")
        /\ attests' = Superseded(asnap[a] \cap LiveOf(m, k), a)
        /\ UNCHANGED <<committed, ain, abase>>
    BY <1>6, <2>1 DEF AttestSupersede
  <2>3. apc'[a] = "insert"
    BY <1>0, <2>2 DEF AttestGoto
  <2>4. /\ DOMAIN attests' = DOMAIN attests
        /\ \A i \in DOMAIN attests :
             /\ attests'[i].by = attests[i].by /\ attests'[i].msg = attests[i].msg
             /\ attests'[i].key = attests[i].key
             /\ i \in asnap[a] \cap LiveOf(m, k) => attests'[i].sup = a
             /\ i \notin asnap[a] \cap LiveOf(m, k) => attests'[i].sup = attests[i].sup
    BY SMT, <1>0, <2>2, Marked
  <2>5. ASSUME NEW i \in DOMAIN attests', attests'[i].msg = m, attests'[i].key = k,
               attests'[i].by \in abase[a]
        PROVE  attests'[i].sup \in committed \cup {a}
    <3>1. /\ i \in DOMAIN attests /\ attests[i].msg = m /\ attests[i].key = k
          /\ attests[i].by \in abase[a] /\ attests[i].by \in committed
      BY <1>0, <2>4, <2>5 DEF LiveCall
    <3>2. i \in asnap[a] \/ attests[i].sup \in committed
      BY <1>0, <2>1, <2>2, <3>1 DEF LiveCall, Snapped
    <3>3. CASE attests[i].sup \in committed
      BY <2>4, <3>1, <3>3
    <3>4. CASE attests[i].sup \notin committed
      <4>1. i \in asnap[a] \cap LiveOf(m, k)
        BY <3>1, <3>2, <3>4 DEF LiveOf, Live
      <4> QED
        BY <2>4, <3>1, <4>1
    <3> QED
      BY <3>3, <3>4
  <2>6. Covered(a, ain[a].msg, ain[a].key)'
    BY <2>1, <2>2, <2>5 DEF Covered
  <2> QED
    BY <1>0, <2>2, <2>3, <2>6 DEF LiveCall, Holding
<1>7. CASE AttestInsert(a) \/ AttestEvent(a)
  <2>1. /\ apc[a] \in {"insert", "event"} /\ UNCHANGED <<committed, abase>>
        /\ AttestGoto(a, "event") \/ AttestGoto(a, "commit")
    BY <1>7 DEF AttestInsert, AttestEvent
  <2>2. apc'[a] \in {"event", "commit"}
    BY <1>0, <2>1 DEF AttestGoto
  <2> QED
    BY <1>0, <2>1, <2>2 DEF LiveCall, Holding
<1>8. CASE AttestAbort(a)
  BY <1>8, <1>e DEF AttestAbort, rowVars
<1> QED
  BY <1>1, <1>2, <1>3, <1>4, <1>5, <1>6, <1>7, <1>8 DEF AttestStep

\* Every row keeps LiveRow over a step of Attest, and a new row has it.
LEMMA LiveRowsAttest ==
  ASSUME TypeInv, LiveInv, NEW a \in Attesters, AttestStep(a) \/ AttestAbort(a),
         committed \subseteq committed'
  PROVE  \A j \in DOMAIN attests' : LiveRow(attests[j])'
<1>0. /\ attests \in Seq(AttRow) /\ DOMAIN apc = Attesters /\ LiveCall(a)
  BY DEF TypeInv, AttestTyped, LiveInv
<1>1. /\ RowsMove
      /\ \A i \in DOMAIN attests' \ DOMAIN attests :
           /\ apc[a] \in {"memory", "insert"} /\ attests'[i].by = a
           /\ attests'[i].msg = ain[a].msg /\ attests'[i].key = ain[a].key
  BY AttestRowsMove
<1>2. \A b \in Attesters \ {a} : apc'[b] = apc[b] /\ abase'[b] = abase[b]
  BY AttestOthers
<1>3. ASSUME NEW j \in DOMAIN attests PROVE LiveRow(attests[j])'
  <2>1. PICK b : b = attests[j].by
    OBVIOUS
  <2>2. b \in Attesters /\ apc[b] \in {"event", "commit", "ok", "aborted"}
    BY <1>0, <2>1, AttestAuthor DEF LiveInv, LiveRow
  <2>3. ASSUME b = a
        PROVE  \/ /\ apc[b] \in Holding /\ apc'[b] \in {"commit", "ok"}
                  /\ abase'[b] = abase[b]
               \/ apc'[b] = "aborted"
    <3>1. AttestEvent(a) \/ AttestCommit(a) \/ AttestAbort(a)
      BY <2>2, <2>3 DEF AttestStep, AttestKey, AttestPolicy, AttestMessage, AttestMemory,
                        AttestUpdate, AttestSupersede, AttestInsert
    <3>2. CASE AttestEvent(a)
      BY <1>0, <2>3, <3>2 DEF AttestEvent, AttestGoto, Holding
    <3>3. CASE AttestCommit(a)
      BY <1>0, <2>3, <3>3 DEF AttestCommit, AttestEnds, AttestGoto, Holding
    <3>4. CASE AttestAbort(a)
      BY <1>0, <2>3, <3>4 DEF AttestAbort, AttestEnds, AttestGoto
    <3> QED
      BY <3>1, <3>2, <3>3, <3>4
  <2>4. \/ apc'[b] = apc[b] /\ abase'[b] = abase[b]
        \/ /\ apc[b] \in Holding /\ apc'[b] \in {"commit", "ok"}
           /\ abase'[b] = abase[b]
        \/ apc'[b] = "aborted"
    BY <1>2, <2>2, <2>3
  <2> QED
    BY <1>0, <1>1, <2>1, <2>4, LiveRowRests
<1>4. ASSUME NEW j \in DOMAIN attests' \ DOMAIN attests PROVE LiveRow(attests[j])'
  <2>1. PICK m, k : m = ain[a].msg /\ k = ain[a].key
    OBVIOUS
  <2>2. /\ apc[a] \in {"memory", "insert"} /\ attests'[j].by = a
        /\ attests'[j].msg = m /\ attests'[j].key = k
    BY <1>1, <1>4, <2>1
  <2>3. AttestInsert(a) \/ AttestMemory(a)
    <3>1. attests' # attests
      BY <1>4
    <3> QED
      BY <2>2, <3>1 DEF AttestStep, AttestKey, AttestPolicy, AttestMessage, AttestUpdate,
                        AttestSupersede, AttestEvent, AttestCommit, AttestAbort, rowVars
  <2>4. apc'[a] \in {"event", "ok"} /\ abase'[a] = abase[a]
    BY <1>0, <2>3 DEF AttestInsert, AttestMemory, AttestEnds, AttestGoto
  <2>5. Covered(a, m, k)'
    <3>1. CASE AttestInsert(a)
      <4>1. apc[a] = "insert" /\ Covered(a, m, k)
        BY <1>0, <2>1, <3>1 DEF AttestInsert, LiveCall
      <4>2. apc[a] \in Holding \cup {"ok"}
        BY <4>1 DEF Holding
      <4> QED
        BY <1>0, <1>1, <2>4, <4>1, <4>2, CoveredKept
    <3>2. CASE AttestMemory(a)
      <4>1. \A i \in DOMAIN attests :
              /\ attests'[i].msg = m /\ attests'[i].key = k /\ attests'[i].by \in abase[a]
              => attests'[i].sup \in committed \cup {a}
        BY <2>1, <3>2, MemoryCovers
      <4>2. a \notin committed /\ abase[a] \subseteq committed
        BY <1>0, <2>2 DEF LiveCall
      <4>3. \A i \in DOMAIN attests' \ DOMAIN attests : attests'[i].by \notin abase[a]
        BY <1>1, <4>2
      <4>4. \A i \in DOMAIN attests' :
              /\ attests'[i].msg = m /\ attests'[i].key = k /\ attests'[i].by \in abase'[a]
              => attests'[i].sup \in committed' \cup {a}
        BY <2>4, <4>1, <4>3
      <4> QED
        BY <4>4 DEF Covered
    <3> QED
      BY <2>3, <3>1, <3>2
  <2> QED
    BY <2>2, <2>4, <2>5 DEF LiveRow, Covered
<1> QED
  BY <1>3, <1>4

\* Every step keeps LiveInv.
LEMMA LiveInvStep ==
  ASSUME TypeInv, LiveInv, [Next]_vars
  PROVE  LiveInv'
<1>0. /\ attests \in Seq(AttRow) /\ DOMAIN abase = Attesters
      /\ \A a \in Attesters : LiveCall(a)
  BY DEF TypeInv, AttestTyped, LiveInv
<1>1. committed \subseteq committed'
  BY CommittedGrows
<1>2. ASSUME NEW a \in Attesters, AttestStep(a) \/ AttestAbort(a)
      PROVE  LiveInv'
  <2>1. /\ DOMAIN abase' = Attesters
        /\ \A b \in Attesters \ {a} : /\ apc'[b] = apc[b] /\ ain'[b] = ain[b]
                                      /\ abase'[b] = abase[b] /\ asnap'[b] = asnap[b]
        /\ committed' = committed \/ committed' = committed \cup {a}
    BY <1>2, AttestOthers
  <2>2. RowsMove
    BY <1>2, AttestRowsMove
  <2>3. LiveCall(a)'
    BY <1>2, LiveCallMoves
  <2>4. ASSUME NEW b \in Attesters \ {a} PROVE LiveCall(b)'
    <3>1. b \in committed' <=> b \in committed
      BY <2>1, <2>4
    <3> QED
      BY <1>0, <1>1, <2>1, <2>2, <3>1, LiveCallRests
  <2>5. \A j \in DOMAIN attests' : LiveRow(attests[j])'
    BY <1>1, <1>2, LiveRowsAttest
  <2> QED
    BY <2>1, <2>3, <2>4, <2>5 DEF LiveInv
<1>3. ASSUME UNCHANGED <<attests, apc, ain, abase, asnap>>,
             \A b \in Attesters : b \in committed' <=> b \in committed
      PROVE  LiveInv'
  <2>1. RowsMove
    BY <1>3, RowsRest
  <2>2. ASSUME NEW b \in Attesters PROVE LiveCall(b)'
    BY <1>0, <1>1, <1>3, <2>1, LiveCallRests
  <2>3. ASSUME NEW j \in DOMAIN attests PROVE LiveRow(attests[j])'
    BY <1>0, <1>1, <1>3, <2>1, LiveRowRests
  <2> QED
    BY <1>0, <1>3, <2>2, <2>3 DEF LiveInv
<1>4. ASSUME NEW p \in Publishers, PublishStep(p) \/ PublishAbort(p)
      PROVE  LiveInv'
  <2>1. /\ committed' = committed \/ committed' = committed \cup {p}
        /\ UNCHANGED attests
    BY <1>4, PublishRows DEF TypeInv
  <2>2. UNCHANGED <<apc, ain, abase, asnap>>
    BY <1>4, PublishFrame
  <2>3. \A b \in Attesters : b \in committed' <=> b \in committed
    <3>1. \A b \in Attesters : b # p
      BY <1>4, CallsAssumption
    <3>2. \A b : b # p => (b \in committed' <=> b \in committed)
      BY <2>1
    <3> QED
      BY <3>1, <3>2
  <2> QED
    BY <1>3, <2>1, <2>2, <2>3
<1>5. CASE \/ \E u \in Putters : PutStep(u) \/ PutAbort(u)
           \/ \E c \in Consumers : ConsumeStep(c) \/ ConsumeAbort(c)
           \/ \E v \in 1..Current : Age(v)
           \/ \E k \in Keys : Revoke(k)
           \/ UNCHANGED vars
  <2>1. UNCHANGED <<attests, apc, ain, abase, asnap, committed>>
    BY <1>5, PutFrame, ConsumeFrame, EnvFrame DEF vars
  <2> QED
    BY <1>3, <2>1
<1> QED
  BY <1>2, <1>4, <1>5 DEF Next

\* LiveInv holds at the start.
LEMMA LiveInvInit ==
  ASSUME Init PROVE LiveInv
<1>1. /\ DOMAIN attests = {} /\ DOMAIN abase = Attesters /\ committed = {}
      /\ \A a \in Attesters : apc[a] = "start" /\ abase[a] = {}
  BY SMT DEF Init
<1> QED
  BY <1>1 DEF LiveInv, LiveCall, Holding

\* An agent's attestation supersedes those it gave before: with either backend
\* two of one key for one message are both live only when the calls that made
\* them overlapped (service.go:546), whatever is rolled back meanwhile.
THEOREM LiveOverlapHolds == Spec => []LiveOverlap
<1>1. ASSUME TypeInv, LiveInv PROVE LiveOverlap
  <2> SUFFICES ASSUME NEW m \in SeenMessages, NEW k \in Keys, NEW i \in LiveOf(m, k),
                      NEW j \in LiveOf(m, k), attests[i].by \in abase[attests[j].by]
               PROVE  FALSE
    BY DEF LiveOverlap
  <2>1. PICK b : b = attests[j].by
    OBVIOUS
  <2>2. /\ i \in DOMAIN attests /\ attests[i].msg = m /\ attests[i].key = k
        /\ attests[i].by \in abase[b] /\ attests[i].sup \notin committed
        /\ j \in DOMAIN attests /\ attests[j].msg = m /\ attests[j].key = k
        /\ b \in committed
    BY <2>1 DEF LiveOf, Live
  <2>3. b \in Attesters
    BY <1>1, <2>1, <2>2, AttestAuthor DEF TypeInv, AttestTyped
  <2>4. apc[b] = "ok"
    BY <1>1, <2>2, <2>3 DEF LiveInv, LiveCall
  <2>5. Covered(b, m, k)
    BY <1>1, <2>1, <2>2, <2>4 DEF LiveInv, LiveRow
  <2>6. attests[i].sup \in committed \cup {b}
    BY <2>2, <2>5 DEF Covered
  <2> QED
    BY <2>2, <2>6
<1>2. TypeInv /\ LiveInv /\ [Next]_vars => LiveInv'
  BY LiveInvStep
<1> QED
  BY <1>1, <1>2, LiveInvInit, TypeInvariance, PTL DEF Spec
-----------------------------------------------------------------------------
(* Approvals *)

\* Some version of the policy lets key k attest.
Entitled(k) == \E v \in 1..Len(policies) : MayAttest(policies[v], k)

Approves(i, m) == /\ attests[i].msg = m /\ attests[i].status = "ok"
                  /\ attests[i].by \in committed

Approved(m) == \E i \in DOMAIN attests : Approves(i, m)

AsksApproval(cond) == cond.minOk > 0 /\ cond.anyDeny # "yes"

\* What a call of Consume has gathered under a condition that asks for
\* approval is approved.
Vouched(c) == /\ cout[c] # {} => cpc[c] = "loop"
              /\ ccond[c].minOk \in Int
              /\ AsksApproval(ccond[c]) => \A m \in cout[c] : Approved(m)

ApprovalInv ==
  /\ \A a \in Attesters : apc[a] \in Attesting \ {"policy"} => Entitled(ain[a].key)
  /\ \A i \in DOMAIN attests : Entitled(attests[i].key)
  /\ DOMAIN ccond = Consumers
  /\ \A c \in Consumers : Vouched(c)

\* A version that lets a key attest stays.
LEMMA EntitledKept ==
  ASSUME PolicyInv, [Next]_vars, NEW k, Entitled(k) PROVE Entitled(k)'
<1>1. \A v \in 1..Len(policies) : v \in 1..Len(policies') /\ policies'[v] = policies[v]
  BY PoliciesGrow
<1>2. PICK v \in 1..Len(policies) : MayAttest(policies[v], k)
  BY DEF Entitled
<1>3. v \in 1..Len(policies') /\ MayAttest(policies'[v], k)
  BY <1>1, <1>2 DEF MayAttest, AgentNamesForKey
<1> QED
  BY <1>3 DEF Entitled, MayAttest, AgentNamesForKey

\* Every step moves the attestations as RowsMove says.
LEMMA RowsMoveStep ==
  ASSUME TypeInv, LiveInv, [Next]_vars PROVE RowsMove
<1>1. CASE \E a \in Attesters : AttestStep(a) \/ AttestAbort(a)
  BY <1>1, AttestRowsMove
<1>2. CASE \E p \in Publishers : PublishStep(p) \/ PublishAbort(p)
  <2>1. attests' = attests
    BY <1>2, PublishRows DEF TypeInv
  <2> QED
    BY <2>1, RowsRest
<1>3. CASE \/ \E u \in Putters : PutStep(u) \/ PutAbort(u)
           \/ \E c \in Consumers : ConsumeStep(c) \/ ConsumeAbort(c)
           \/ \E v \in 1..Current : Age(v)
           \/ \E k \in Keys : Revoke(k)
           \/ UNCHANGED vars
  <2>1. attests' = attests
    BY <1>3, PutFrame, ConsumeFrame, EnvFrame DEF vars
  <2> QED
    BY <2>1, RowsRest
<1> QED
  BY <1>1, <1>2, <1>3 DEF Next

\* An approval stays, superseded or not.
LEMMA ApprovedKept ==
  ASSUME RowsMove, committed \subseteq committed', NEW m, Approved(m) PROVE Approved(m)'
<1>1. PICK i \in DOMAIN attests : Approves(i, m)
  BY DEF Approved
<1>2. i \in DOMAIN attests' /\ SameRow(i)
  BY DEF RowsMove
<1>3. Approves(i, m)'
  BY <1>1, <1>2 DEF Approves, SameRow
<1> QED
  BY <1>2, <1>3 DEF Approved

\* A message that meets a condition asking for approval is approved.
LEMMA MatchApproved ==
  ASSUME NEW cond, cond.minOk \in Int, AsksApproval(cond), NEW doc, NEW m,
         NEW view \in Views(doc, m), MatchCondition(cond, view)
  PROVE  Approved(m)
<1>1. PICK S : S = {n \in AllNames : view.latest[n] = "ok"}
  OBVIOUS
<1>2. Cardinality(S) >= cond.minOk
  BY <1>1 DEF MatchCondition, AsksApproval
<1>3. S # {}
  <2>1. Cardinality({}) = 0
    BY FS_EmptySet
  <2>2. Cardinality(S) # 0
    BY SMT, <1>2 DEF AsksApproval
  <2> QED
    BY <2>1, <2>2
<1>4. PICK n \in AllNames : view.latest[n] = "ok"
  BY <1>1, <1>3
<1>5. PICK nm \in Namings(doc), f \in [AllNames -> Status \cup {"none"}] :
        /\ view = [author |-> nm[messages[m].key], latest |-> f]
        /\ \A x \in AllNames : f[x] \in Said(nm, m, x)
  BY DEF Views
<1>6. "ok" \in Said(nm, m, n)
  <2>1. view.latest = f
    BY SMT, <1>5
  <2> QED
    BY <1>4, <1>5, <2>1
<1>7. PICK i \in Live(m) : attests[i].status = "ok"
  BY <1>6 DEF Said
<1>8. i \in DOMAIN attests /\ Approves(i, m)
  BY <1>7 DEF Live, Approves
<1> QED
  BY <1>8 DEF Approved

\* A call of Consume that does not move keeps Vouched.
LEMMA VouchedRests ==
  ASSUME RowsMove, committed \subseteq committed', NEW c \in Consumers, Vouched(c),
         ccond'[c] = ccond[c], cpc'[c] = cpc[c], cout'[c] = cout[c]
  PROVE  Vouched(c)'
<1>1. \A m \in cout[c] : Approved(m) => Approved(m)'
  BY ApprovedKept
<1>2. AsksApproval(ccond[c])' <=> AsksApproval(ccond[c])
  BY DEF AsksApproval
<1> QED
  BY <1>1, <1>2 DEF Vouched

\* Each statement of Consume keeps Vouched.
LEMMA VouchedMoves ==
  ASSUME PolicyInv, ConsumeInv, ApprovalInv, NEW c \in Consumers,
         ConsumeStep(c) \/ ConsumeAbort(c)
  PROVE  DOMAIN ccond' = Consumers /\ Vouched(c)'
<1>0. /\ DOMAIN ccond = Consumers /\ DOMAIN cpc = Consumers /\ DOMAIN cout = Consumers
      /\ Vouched(c)
  BY DEF ConsumeInv, ApprovalInv
<1>d. DOMAIN ccond' = Consumers
  <2>1. ccond' = ccond \/ \E cond : ccond' = [ccond EXCEPT ![c] = cond]
    BY DEF ConsumeStep, ConsumePolicy, ConsumeLast, ConsumeLock, ConsumeFetch, ConsumeEvent,
           ConsumeEnd, ConsumeAbort, ConsumeReturns
  <2> QED
    BY <1>0, <2>1
<1>e. ASSUME cout'[c] = {}, ccond'[c].minOk \in Int PROVE Vouched(c)'
  BY <1>e DEF Vouched
<1>1. CASE ConsumePolicy(c)
  <2>1. cpc[c] = "idle" /\ cout' = cout
    BY <1>1 DEF ConsumePolicy
  <2>2. cout'[c] = {}
    BY <1>0, <2>1 DEF Vouched
  <2>3. PICK ask \in Asks : /\ Resolvable(policies[Current], ask)
                            /\ ccond' = [ccond EXCEPT
                                 ![c] = ResolveCondition(policies[Current], ask)]
    BY <1>1 DEF ConsumePolicy
  <2>4. policies[Current] \in Documents
    BY SMT, <1>1 DEF ConsumePolicy, PolicyInv, Current
  <2>5. ResolveCondition(policies[Current], ask).minOk \in Int
    BY <2>3, <2>4, ConditionsAssumption
  <2>6. ccond'[c].minOk \in Int
    BY <1>0, <2>3, <2>5
  <2> QED
    BY <1>d, <1>e, <2>2, <2>6
<1>2. CASE ConsumeLast(c) \/ ConsumeLock(c)
  <2>1. cpc[c] \in {"last", "lock"} /\ cout' = cout /\ ccond' = ccond
    BY <1>2 DEF ConsumeLast, ConsumeLock
  <2>2. cout'[c] = {} /\ ccond'[c].minOk \in Int
    BY <1>0, <2>1 DEF Vouched
  <2> QED
    BY <1>d, <1>e, <2>2
<1>3. CASE ConsumeFetch(c)
  <2>1. cout'[c] = {} /\ ccond'[c].minOk \in Int
    BY <1>0, <1>3 DEF ConsumeFetch, Vouched
  <2> QED
    BY <1>d, <1>e, <2>1
<1>4. CASE ConsumeEvent(c)
  <2>1. /\ cpc[c] = "loop" /\ cpc' = cpc /\ ccond' = ccond
        /\ attests' = attests /\ committed' = committed
    BY <1>4 DEF ConsumeEvent, rowVars
  <2>2. ASSUME NEW m \in cout'[c], AsksApproval(ccond[c]) PROVE Approved(m)
    <3>1. CASE m \in cout[c]
      BY <1>0, <2>2, <3>1 DEF Vouched
    <3>2. CASE m \notin cout[c]
      <4>1. PICK e : \E view \in Views(policies[cdoc[c]], events[e].msg) :
                       MatchCondition(ccond[c], view) /\ Take(c, e)
        BY <1>4, <2>2, <3>2 DEF ConsumeEvent, Skip
      <4>2. m = events[e].msg
        <5>1. Take(c, e)
          BY <4>1
        <5>2. cout'[c] = cout[c] \cup {events[e].msg}
          BY <1>0, <5>1 DEF Take
        <5> QED
          BY <2>2, <3>2, <5>2
      <4>3. PICK view \in Views(policies[cdoc[c]], m) : MatchCondition(ccond[c], view)
        BY <4>1, <4>2
      <4> QED
        BY <1>0, <2>2, <4>3, MatchApproved DEF Vouched
    <3> QED
      BY <3>1, <3>2
  <2>3. ASSUME NEW m, Approved(m) PROVE Approved(m)'
    BY <2>1, <2>3 DEF Approved, Approves
  <2>4. AsksApproval(ccond[c])' <=> AsksApproval(ccond[c])
    BY <2>1 DEF AsksApproval
  <2> QED
    BY <1>0, <1>d, <2>1, <2>2, <2>3, <2>4 DEF Vouched
<1>5. CASE ConsumeEnd(c) \/ ConsumeAbort(c)
  <2>1. cout'[c] = {} /\ ccond'[c] = OnPublish
    BY <1>0, <1>5 DEF ConsumeEnd, ConsumeAbort, ConsumeReturns
  <2>2. OnPublish.minOk \in Int
    BY SMT DEF OnPublish
  <2> QED
    BY <1>d, <1>e, <2>1, <2>2
<1> QED
  BY <1>1, <1>2, <1>3, <1>4, <1>5 DEF ConsumeStep

\* Attest goes past the check of the policy, and writes its row, with a key
\* that some version lets attest.
LEMMA EntitledMoves ==
  ASSUME PolicyInv, TypeInv, LiveInv, ApprovalInv, NEW a \in Attesters,
         AttestStep(a) \/ AttestAbort(a)
  PROVE  /\ \A b \in Attesters : apc'[b] \in Attesting \ {"policy"} => Entitled(ain'[b].key)
         /\ \A i \in DOMAIN attests' : Entitled(attests'[i].key)
<1>0. /\ DOMAIN apc = Attesters /\ DOMAIN ain = Attesters
      /\ \A b \in Attesters \ {a} : apc'[b] = apc[b] /\ ain'[b] = ain[b]
  BY AttestOthers DEF TypeInv, AttestTyped
<1>1. apc'[a] \in Attesting \ {"policy"} => Entitled(ain'[a].key)
  <2>1. ASSUME NEW how \in {"refused", "aborted", "ok"}, AttestEnds(a, how)
        PROVE  apc'[a] \notin Attesting
    BY <1>0, <2>1 DEF AttestEnds, AttestGoto, Attesting
  <2>2. CASE AttestKey(a)
    <3>1. AttestEnds(a, "refused") \/ AttestGoto(a, "policy")
      BY <2>2 DEF AttestKey
    <3> QED
      BY <1>0, <2>1, <3>1 DEF AttestGoto
  <2>3. CASE AttestPolicy(a)
    <3>1. \/ AttestEnds(a, "refused")
          \/ /\ AcceptedPolicy(ain[a].ver, TRUE) /\ UNCHANGED ain
             /\ MayAttest(policies[ain[a].ver], ain[a].key)
      BY <2>3 DEF AttestPolicy, MayAttest
    <3>2. AcceptedPolicy(ain[a].ver, TRUE) => ain[a].ver \in 1..Len(policies)
      BY DEF AcceptedPolicy, Current
    <3> QED
      BY <2>1, <3>1, <3>2 DEF Entitled
  <2>4. CASE \/ AttestMessage(a) \/ AttestMemory(a) \/ AttestUpdate(a) \/ AttestSupersede(a)
             \/ AttestInsert(a) \/ AttestEvent(a) \/ AttestCommit(a) \/ AttestAbort(a)
    <3>1. apc[a] \in Attesting \ {"policy"}
      BY <2>4 DEF AttestMessage, AttestMemory, AttestUpdate, AttestSupersede, AttestInsert,
                  AttestEvent, AttestCommit, AttestAbort, Attesting
    <3>2. \/ UNCHANGED ain
          \/ AttestEnds(a, "refused") \/ AttestEnds(a, "aborted") \/ AttestEnds(a, "ok")
      BY <2>4 DEF AttestMessage, AttestMemory, AttestUpdate, AttestSupersede, AttestInsert,
                  AttestEvent, AttestCommit, AttestAbort
    <3>3. Entitled(ain[a].key)
      BY <3>1 DEF ApprovalInv
    <3> QED
      BY <2>1, <3>2, <3>3
  <2> QED
    BY <2>2, <2>3, <2>4 DEF AttestStep
<1>2. ASSUME NEW b \in Attesters \ {a}
      PROVE  apc'[b] \in Attesting \ {"policy"} => Entitled(ain'[b].key)
  BY <1>0, <1>2 DEF ApprovalInv
<1>3. /\ RowsMove
      /\ \A i \in DOMAIN attests' \ DOMAIN attests :
           apc[a] \in {"memory", "insert"} /\ attests'[i].key = ain[a].key
  BY AttestRowsMove
<1>4. ASSUME NEW i \in DOMAIN attests' PROVE Entitled(attests'[i].key)
  <2>1. CASE i \in DOMAIN attests
    BY <1>3, <2>1 DEF RowsMove, SameRow, ApprovalInv
  <2>2. CASE i \notin DOMAIN attests
    <3>1. apc[a] \in Attesting \ {"policy"} /\ attests'[i].key = ain[a].key
      BY <1>3, <1>4, <2>2 DEF Attesting
    <3> QED
      BY <3>1 DEF ApprovalInv
  <2> QED
    BY <2>1, <2>2
<1> QED
  BY <1>1, <1>2, <1>4

\* Every step keeps ApprovalInv.
LEMMA ApprovalInvStep ==
  ASSUME PolicyInv, ConsumeInv, TypeInv, LiveInv, ApprovalInv, [Next]_vars
  PROVE  ApprovalInv'
<1>0. RowsMove /\ committed \subseteq committed'
  BY RowsMoveStep, CommittedGrows
<1>1. ASSUME \A b \in Attesters : apc'[b] \in Attesting \ {"policy"} => Entitled(ain'[b].key),
             \A i \in DOMAIN attests' : Entitled(attests'[i].key)
      PROVE  /\ \A b \in Attesters : apc'[b] \in Attesting \ {"policy"}
                                       => Entitled(ain[b].key)'
             /\ \A i \in DOMAIN attests' : Entitled(attests[i].key)'
  <2>1. ASSUME NEW k, Entitled(k) PROVE Entitled(k)'
    BY <2>1, EntitledKept
  <2>2. ASSUME NEW b \in Attesters, apc'[b] \in Attesting \ {"policy"}
        PROVE  Entitled(ain[b].key)'
    <3>1. PICK k : k = ain'[b].key
      OBVIOUS
    <3>2. Entitled(k)'
      BY <1>1, <2>1, <2>2, <3>1
    <3> QED
      BY <3>1, <3>2 DEF Entitled
  <2>3. ASSUME NEW i \in DOMAIN attests' PROVE Entitled(attests[i].key)'
    <3>1. PICK k : k = attests'[i].key
      OBVIOUS
    <3>2. Entitled(k)'
      BY <1>1, <2>1, <2>3, <3>1
    <3> QED
      BY <3>1, <3>2 DEF Entitled
  <2> QED
    BY <2>2, <2>3
<1>2. ASSUME UNCHANGED <<apc, ain, attests>>
      PROVE  /\ \A b \in Attesters : apc'[b] \in Attesting \ {"policy"}
                                       => Entitled(ain[b].key)'
             /\ \A i \in DOMAIN attests' : Entitled(attests[i].key)'
  <2>1. /\ \A b \in Attesters : apc'[b] \in Attesting \ {"policy"} => Entitled(ain'[b].key)
        /\ \A i \in DOMAIN attests' : Entitled(attests'[i].key)
    BY <1>2 DEF ApprovalInv
  <2> QED
    BY <1>1, <2>1
<1>3. ASSUME NEW c \in Consumers, ccond'[c] = ccond[c], cpc'[c] = cpc[c], cout'[c] = cout[c]
      PROVE  Vouched(c)'
  <2>1. Vouched(c)
    BY DEF ApprovalInv
  <2> QED
    BY <1>0, <1>3, <2>1, VouchedRests
<1>4. CASE \E a \in Attesters : AttestStep(a) \/ AttestAbort(a)
  <2>1. PICK a \in Attesters : AttestStep(a) \/ AttestAbort(a)
    BY <1>4
  <2>2. /\ \A b \in Attesters : apc'[b] \in Attesting \ {"policy"} => Entitled(ain'[b].key)
        /\ \A i \in DOMAIN attests' : Entitled(attests'[i].key)
    BY <2>1, EntitledMoves
  <2>3. UNCHANGED <<ccond, cpc, cout>>
    BY <2>1, AttestFrame
  <2>4. DOMAIN ccond' = Consumers /\ \A c \in Consumers : Vouched(c)'
    BY <1>3, <2>3 DEF ApprovalInv
  <2> QED
    BY <1>1, <2>2, <2>4 DEF ApprovalInv
<1>5. CASE \E c \in Consumers : ConsumeStep(c) \/ ConsumeAbort(c)
  <2>1. PICK c \in Consumers : ConsumeStep(c) \/ ConsumeAbort(c)
    BY <1>5
  <2>2. UNCHANGED <<apc, ain, attests>>
    BY <2>1, ConsumeFrame
  <2>3. DOMAIN ccond' = Consumers /\ Vouched(c)'
    BY <2>1, VouchedMoves
  <2>4. ASSUME NEW d \in Consumers \ {c} PROVE Vouched(d)'
    <3>0. DOMAIN ccond = Consumers /\ DOMAIN cpc = Consumers /\ DOMAIN cout = Consumers
      BY DEF ConsumeInv, ApprovalInv
    <3>1. /\ ccond' = ccond \/ \E cond : ccond' = [ccond EXCEPT ![c] = cond]
          /\ cpc' = cpc \/ \E label : cpc' = [cpc EXCEPT ![c] = label]
          /\ cout' = cout \/ \E out : cout' = [cout EXCEPT ![c] = out]
      BY <2>1 DEF ConsumeStep, ConsumePolicy, ConsumeLast, ConsumeLock, ConsumeFetch,
                  ConsumeEvent, ConsumeEnd, ConsumeAbort, ConsumeReturns, ConsumeGoto,
                  Skip, Take
    <3>2. ccond'[d] = ccond[d] /\ cpc'[d] = cpc[d] /\ cout'[d] = cout[d]
      BY <2>4, <3>0, <3>1
    <3> QED
      BY <1>3, <3>2
  <2> QED
    BY <1>2, <2>2, <2>3, <2>4 DEF ApprovalInv
<1>6. CASE UNCHANGED <<apc, ain, attests, ccond, cpc, cout>>
  <2>1. DOMAIN ccond' = Consumers /\ \A c \in Consumers : Vouched(c)'
    BY <1>3, <1>6 DEF ApprovalInv
  <2> QED
    BY <1>2, <1>6, <2>1 DEF ApprovalInv
<1>7. CASE \E p \in Publishers : PublishStep(p) \/ PublishAbort(p)
  BY <1>6, <1>7, PublishFrame, PublishRows DEF TypeInv
<1>8. CASE \/ \E u \in Putters : PutStep(u) \/ PutAbort(u)
           \/ \E v \in 1..Current : Age(v)
           \/ \E k \in Keys : Revoke(k)
           \/ UNCHANGED vars
  BY <1>6, <1>8, PutFrame, EnvFrame DEF vars
<1> QED
  BY <1>4, <1>5, <1>7, <1>8 DEF Next

\* ApprovalInv holds at the start.
LEMMA ApprovalInvInit ==
  ASSUME Init PROVE ApprovalInv
<1>1. /\ DOMAIN attests = {} /\ DOMAIN ccond = Consumers
      /\ \A a \in Attesters : apc[a] = "start"
      /\ \A c \in Consumers : cout[c] = {} /\ ccond[c] = OnPublish
  BY SMT DEF Init
<1>2. OnPublish.minOk \in Int
  BY SMT DEF OnPublish
<1> QED
  BY <1>1, <1>2 DEF ApprovalInv, Vouched, Attesting

\* What Consume is about to hand over under a condition with minOk is approved
\* by a committed attestation of a key that some version of the policy lets
\* attest, with either backend, although the view is read without a lock
\* while attestations are superseded and policies replaced (consume.go:131).
THEOREM ApprovalsRealHolds == Spec => []ApprovalsReal
<1>1. ASSUME ApprovalInv PROVE ApprovalsReal
  <2> SUFFICES ASSUME NEW c \in Consumers, AsksApproval(ccond[c]), NEW m \in cout[c]
               PROVE  \E i \in DOMAIN attests :
                        /\ attests[i].msg = m /\ attests[i].status = "ok"
                        /\ attests[i].by \in committed
                        /\ \E v \in 1..Current : MayAttest(policies[v], attests[i].key)
    BY DEF ApprovalsReal, AsksApproval
  <2>1. PICK i \in DOMAIN attests : Approves(i, m)
    BY <1>1 DEF ApprovalInv, Vouched, Approved
  <2>2. Entitled(attests[i].key)
    BY <1>1, <2>1 DEF ApprovalInv
  <2> QED
    BY <2>1, <2>2 DEF Approves, Entitled, Current
<1>2. PolicyInv /\ ConsumeInv /\ TypeInv /\ LiveInv /\ ApprovalInv /\ [Next]_vars
        => ApprovalInv'
  BY ApprovalInvStep
<1>3. TypeInv /\ LiveInv /\ [Next]_vars => LiveInv'
  BY LiveInvStep
<1> QED
  BY <1>1, <1>2, <1>3, ApprovalInvInit, LiveInvInit, PolicyInvariance, TypeInvariance,
     ConsumeInvInit, ConsumeInvStep, PTL DEF Spec

-----------------------------------------------------------------------------
(* What a consumer is owed by the in-memory backend *)

\* The calls never enter a transaction, so every row is visible at once.
MemoryCalls ==
  /\ \A p \in Publishers :
       ppc[p] \in {"start", "policy", "memory", "ok", "refused", "aborted"}
  /\ \A a \in Attesters :
       apc[a] \in {"start", "policy", "message", "memory", "ok", "refused", "aborted"}
  /\ \A c \in Consumers : cpc[c] # "last"

AllVisible ==
  /\ \A i \in DOMAIN messages : messages[i].by \in committed
  /\ \A e \in DOMAIN events : events[e].by \in committed
  /\ \A i \in DOMAIN attests : /\ attests[i].by \in committed
                               /\ attests[i].sup \in committed \cup {NoCall}

\* Publish appended its message under mu.
Posts(p) ==
  /\ ppc[p] = "memory" /\ mu = NoCall
  /\ policies[pin[p].ver].chain => ChainOK(p, LastMessage)
  /\ messages' = Append(messages, MessageRow(p))
  /\ events' = Append(events, [by |-> p, msg |-> Len(messages) + 1])
  /\ committed' = committed \cup {p}
  /\ UNCHANGED attests

\* Publish and Attest write their rows in the one step they take under mu.
LEMMA MemoryMoves ==
  ASSUME Backend = "memory", PublishInv, TypeInv, ConsumeInv, MemoryCalls, [Next]_vars
  PROVE  /\ MemoryCalls'
         /\ \/ UNCHANGED <<messages, events, committed, attests>>
            \/ \E p \in Publishers : Posts(p)
            \/ \E a \in Attesters : AttestMemory(a)
<1>d. /\ DOMAIN ppc = Publishers /\ DOMAIN apc = Attesters /\ DOMAIN cpc = Consumers
  BY DEF PublishInv, PublishType, TypeInv, AttestTyped, ConsumeInv
<1>p. ASSUME NEW p \in Publishers, PublishStep(p) \/ PublishAbort(p)
      PROVE  /\ MemoryCalls'
             /\ UNCHANGED <<messages, events, committed, attests>> \/ Posts(p)
  <2>1. UNCHANGED <<apc, cpc>>
    BY <1>p, PublishFrame
  <2>a. ASSUME NEW label \in {"policy", "memory", "ok", "refused", "aborted"},
               PublishGoto(p, label)
        PROVE  MemoryCalls'
    BY <1>d, <2>1, <2>a DEF MemoryCalls, PublishGoto
  <2>2. ppc[p] \in {"start", "policy", "memory", "ok", "refused", "aborted"}
    BY DEF MemoryCalls
  <2>3. CASE PublishKey(p)
    BY <2>3, <2>a DEF PublishKey, PublishEnds, rowVars
  <2>4. CASE PublishPolicy(p)
    BY <2>4, <2>a DEF PublishPolicy, PublishEnds, rowVars
  <2>5. CASE PublishMemory(p)
    BY <2>5, <2>a DEF PublishMemory, PublishEnds, Posts, rowVars
  <2>6. ~(PublishChain(p) \/ PublishLock(p) \/ PublishInsert(p) \/ PublishEvent(p)
            \/ PublishCommit(p) \/ PublishAbort(p))
    BY <2>2 DEF PublishChain, PublishLock, PublishInsert, PublishEvent, PublishCommit,
                PublishAbort, OpenPublish
  <2> QED
    BY <1>p, <2>3, <2>4, <2>5, <2>6 DEF PublishStep
<1>a. ASSUME NEW a \in Attesters, AttestStep(a) \/ AttestAbort(a)
      PROVE  /\ MemoryCalls'
             /\ UNCHANGED <<messages, events, committed, attests>> \/ AttestMemory(a)
  <2>1. UNCHANGED <<ppc, cpc>>
    BY <1>a, AttestFrame
  <2>a. ASSUME NEW label \in {"policy", "message", "memory", "ok", "refused", "aborted"},
               AttestGoto(a, label)
        PROVE  MemoryCalls'
    BY <1>d, <2>1, <2>a DEF MemoryCalls, AttestGoto
  <2>2. apc[a] \in {"start", "policy", "message", "memory", "ok", "refused", "aborted"}
    BY DEF MemoryCalls
  <2>3. CASE AttestKey(a)
    BY <2>3, <2>a DEF AttestKey, AttestEnds, rowVars
  <2>4. CASE AttestPolicy(a) \/ AttestMessage(a)
    BY <2>4, <2>a DEF AttestPolicy, AttestMessage, AttestEnds, rowVars
  <2>5. CASE AttestMemory(a)
    BY <2>5, <2>a DEF AttestMemory, AttestEnds
  <2>6. ~(AttestUpdate(a) \/ AttestSupersede(a) \/ AttestInsert(a) \/ AttestEvent(a)
            \/ AttestCommit(a) \/ AttestAbort(a))
    BY <2>2 DEF AttestUpdate, AttestSupersede, AttestInsert, AttestEvent, AttestCommit,
                AttestAbort
  <2> QED
    BY <1>a, <2>3, <2>4, <2>5, <2>6 DEF AttestStep
<1>c. ASSUME NEW c \in Consumers, ConsumeStep(c) \/ ConsumeAbort(c)
      PROVE  MemoryCalls' /\ UNCHANGED <<messages, events, committed, attests>>
  <2>1. UNCHANGED <<ppc, apc, messages, events, committed, attests>>
    BY <1>c, ConsumeFrame
  <2>2. \E label \in {"lock", "fetch", "loop", "idle"} :
          ConsumeGoto(c, label) \/ UNCHANGED cpc
    <3>1. ~ConsumeLast(c)
      BY DEF ConsumeLast, MemoryCalls
    <3>2. CASE ConsumePolicy(c)
      BY <3>2 DEF ConsumePolicy
    <3>3. CASE ConsumeLock(c) \/ ConsumeFetch(c) \/ ConsumeEvent(c)
      BY <3>3 DEF ConsumeLock, ConsumeFetch, ConsumeEvent
    <3>4. CASE ConsumeEnd(c) \/ ConsumeAbort(c)
      BY <3>4 DEF ConsumeEnd, ConsumeAbort, ConsumeReturns
    <3> QED
      BY <1>c, <3>1, <3>2, <3>3, <3>4 DEF ConsumeStep
  <2> QED
    BY <1>d, <2>1, <2>2 DEF ConsumeGoto, MemoryCalls
<1>e. CASE \/ \E u \in Putters : PutStep(u) \/ PutAbort(u)
           \/ \E v \in 1..Current : Age(v)
           \/ \E k \in Keys : Revoke(k)
           \/ UNCHANGED vars
  <2>1. UNCHANGED <<ppc, apc, cpc, messages, events, committed, attests>>
    BY <1>e, PutFrame, EnvFrame DEF vars
  <2> QED
    BY <2>1 DEF MemoryCalls
<1> QED
  BY <1>p, <1>a, <1>c, <1>e DEF Next

\* What Attest does to the attestations of the in-memory backend: the rows of
\* the message and key that were not superseded are, and a new one follows.
LEMMA MemoryAttests ==
  ASSUME TypeInv, AllVisible, NEW a \in Attesters, AttestMemory(a)
  PROVE  /\ DOMAIN attests' = DOMAIN attests \cup {Len(attests) + 1}
         /\ Len(attests) + 1 \notin DOMAIN attests
         /\ attests'[Len(attests) + 1] = AttestRow(a)
         /\ \A i \in DOMAIN attests :
              /\ attests'[i].by = attests[i].by /\ attests'[i].msg = attests[i].msg
              /\ attests'[i].key = attests[i].key /\ attests'[i].status = attests[i].status
              /\ attests'[i].sup =
                   IF /\ attests[i].msg = ain[a].msg /\ attests[i].key = ain[a].key
                      /\ attests[i].sup = NoCall
                     THEN a ELSE attests[i].sup
<1>0. attests \in Seq(AttRow) /\ NoCall \notin committed
  BY CallsAssumption DEF TypeInv, AttestTyped, EventsTyped
<1>1. \A i \in DOMAIN attests :
        i \in LiveOf(ain[a].msg, ain[a].key) <=>
          /\ attests[i].msg = ain[a].msg /\ attests[i].key = ain[a].key
          /\ attests[i].sup = NoCall
  BY <1>0 DEF LiveOf, Live, AllVisible
<1>2. PICK old : old = Superseded(LiveOf(ain[a].msg, ain[a].key), a)
  OBVIOUS
<1>3. old \in Seq(AttRow) /\ Len(old) = Len(attests)
  BY SMT, <1>0, <1>2, SupersededRows
<1>4. attests' = Append(old, AttestRow(a))
  BY <1>2 DEF AttestMemory
<1>5. DOMAIN old = DOMAIN attests
  BY <1>2 DEF Superseded
<1>6. /\ DOMAIN attests' = DOMAIN attests \cup {Len(attests) + 1}
      /\ Len(attests) + 1 \notin DOMAIN attests
      /\ attests'[Len(attests) + 1] = AttestRow(a)
      /\ \A i \in DOMAIN attests : attests'[i] = old[i]
  BY SMT, <1>3, <1>4, <1>5, Appended
<1>7. ASSUME NEW i \in DOMAIN attests
      PROVE  /\ old[i].by = attests[i].by /\ old[i].msg = attests[i].msg
             /\ old[i].key = attests[i].key /\ old[i].status = attests[i].status
             /\ old[i].sup = IF i \in LiveOf(ain[a].msg, ain[a].key)
                               THEN a ELSE attests[i].sup
  <2>1. attests[i] \in AttRow
    BY SMT, <1>0
  <2>2. old[i] = IF i \in LiveOf(ain[a].msg, ain[a].key)
                   THEN [attests[i] EXCEPT !.sup = a] ELSE attests[i]
    BY <1>2 DEF Superseded
  <2> QED
    BY <2>1, <2>2 DEF AttRow
<1> QED
  BY SMT, <1>1, <1>6, <1>7

\* Every row stays visible.
LEMMA AllVisibleStep ==
  ASSUME Backend = "memory", PublishInv, TypeInv, ConsumeInv, MemoryCalls, AllVisible,
         [Next]_vars
  PROVE  AllVisible'
<1>0. messages \in Seq(MsgRow) /\ events \in Seq(EvRow)
  BY DEF TypeInv, PublishTyped, EventsTyped
<1>1. CASE UNCHANGED <<messages, events, committed, attests>>
  BY <1>1 DEF AllVisible
<1>2. ASSUME NEW p \in Publishers, Posts(p)
      PROVE  AllVisible'
  <2>1. MessageRow(p).by = p /\ [by |-> p, msg |-> Len(messages) + 1].by = p
    BY DEF MessageRow
  <2>2. \A i \in DOMAIN messages' : messages'[i].by \in committed'
    BY SMT, <1>0, <1>2, <2>1, Appended DEF Posts, AllVisible
  <2>3. \A e \in DOMAIN events' : events'[e].by \in committed'
    BY SMT, <1>0, <1>2, <2>1, Appended DEF Posts, AllVisible
  <2> QED
    BY <1>2, <2>2, <2>3 DEF Posts, AllVisible
<1>3. ASSUME NEW a \in Attesters, AttestMemory(a)
      PROVE  AllVisible'
  <2>1. /\ committed' = committed \cup {a} /\ messages' = messages
        /\ events' = Append(events, [by |-> a, msg |-> ain[a].msg])
    BY <1>3 DEF AttestMemory
  <2>2. \A e \in DOMAIN events' : events'[e].by \in committed'
    BY SMT, <1>0, <2>1, Appended DEF AllVisible
  <2>3. AttestRow(a).by = a /\ AttestRow(a).sup = NoCall
    BY DEF AttestRow
  <2>4. \A i \in DOMAIN attests' : /\ attests'[i].by \in committed'
                                   /\ attests'[i].sup \in committed' \cup {NoCall}
    BY SMT, <1>3, <2>1, <2>3, MemoryAttests DEF AllVisible
  <2> QED
    BY <2>1, <2>2, <2>4 DEF AllVisible
<1> QED
  BY <1>1, <1>2, <1>3, MemoryMoves

\* The facts the result below rests on.
MemoryInv == PolicyInv /\ PublishInv /\ TypeInv /\ ConsumeInv /\ MemoryCalls /\ AllVisible

\* They hold of the empty tables of a new Service.
LEMMA MemoryInvInit ==
  ASSUME Backend = "memory", Init PROVE MemoryInv
<1>1. MemoryCalls /\ AllVisible
  BY SMT DEF Init, MemoryCalls, AllVisible
<1> QED
  BY <1>1, PolicyInvInit, PublishInvInit, TypeInvInit, ConsumeInvInit DEF MemoryInv

\* Every step of a call keeps them.
LEMMA MemoryInvStep ==
  ASSUME Backend = "memory", MemoryInv, [Next]_vars PROVE MemoryInv'
BY PolicyInvStep, PublishInvStep, TypeInvStep, ConsumeInvStep, MemoryMoves, AllVisibleStep
   DEF MemoryInv

\* Every view of message m under doc meets what some caller asks for.
Wanted(doc, m) ==
  \E ask \in Asks : /\ Resolvable(doc, ask)
                    /\ \A v \in Views(doc, m) :
                         MatchCondition(ResolveCondition(doc, ask), v)

\* A message that is wanted and not yet done with has an event past last.
Reached(last, done) ==
  \A doc \in Documents : \A m \in DOMAIN messages \ done :
    Wanted(doc, m) => \E e \in DOMAIN events : e > last /\ events[e].msg = m

\* The condition cond is what a caller asks for under some document.
AskedFor(cond) ==
  \E doc \in Documents, ask \in Asks :
    Resolvable(doc, ask) /\ cond = ResolveCondition(doc, ask)

\* The documents differ in who may publish and attest, and in the chain, not
\* in the names of the keys; and all that the callers ask for under the one
\* consumer name comes to the same condition.
SameDelivery ==
  /\ \A d, e \in Documents : d.agents = e.agents
  /\ \A cond, other : AskedFor(cond) /\ AskedFor(other) => cond = other

\* Whoever holds mu is looking at the events past the cursor in their order,
\* and all it has passed are taken or unwanted.
Looking(c) ==
  /\ cpc[c] \in {"lock", "fetch", "loop"} =>
       cdoc[c] \in 1..Len(policies) /\ AskedFor(ccond[c])
  /\ cpc[c] = "fetch" => clast[c] = sublast
  /\ cpc[c] = "loop" =>
       /\ Reached(cseen[c], delivered \cup cout[c])
       /\ \/ cevs[c] = {}
          \/ cevs[c] = {e \in DOMAIN events : e > cseen[c]}

ReachInv ==
  /\ Reached(sublast, delivered)
  /\ DOMAIN cdoc = Consumers /\ DOMAIN ccond = Consumers
  /\ \A c \in Consumers : Looking(c)

\* Documents that agree on the names of the keys show the same views, and what
\* is wanted under one of them meets any condition that is asked for.
LEMMA SameWanted ==
  ASSUME SameDelivery, NEW d \in Documents, NEW e \in Documents, NEW m,
         NEW cond, AskedFor(cond), Wanted(d, m), NEW view \in Views(e, m)
  PROVE  MatchCondition(cond, view)
<1>1. d.agents = e.agents
  BY DEF SameDelivery
<1>2. \A k : AgentNamesForKey(d, k) = AgentNamesForKey(e, k)
  BY <1>1 DEF AgentNamesForKey
<1>3. Namings(d) = Namings(e)
  BY SMT, <1>2 DEF Namings
<1>4. Views(d, m) = Views(e, m)
  BY <1>3 DEF Views
<1>5. PICK ask \in Asks : /\ Resolvable(d, ask)
                         /\ \A v \in Views(d, m) :
                              MatchCondition(ResolveCondition(d, ask), v)
  BY DEF Wanted
<1>6. AskedFor(ResolveCondition(d, ask))
  BY <1>5 DEF AskedFor
<1>7. cond = ResolveCondition(d, ask)
  BY <1>6 DEF SameDelivery
<1> QED
  BY <1>4, <1>5, <1>7

\* A message whose attestations that count stay as they are keeps its views.
LEMMA ViewsKept ==
  ASSUME NEW m, NEW doc, messages'[m] = messages[m], Live(m)' = Live(m),
         \A i \in Live(m) : /\ attests'[i].status = attests[i].status
                            /\ attests'[i].key = attests[i].key
  PROVE  Wanted(doc, m)' <=> Wanted(doc, m)
<1>1. ASSUME NEW nm, NEW n PROVE Said(nm, m, n)' = Said(nm, m, n)
  <2>1. {i \in Live(m)' : nm[attests'[i].key] = n} = {i \in Live(m) : nm[attests[i].key] = n}
    OBVIOUS
  <2>2. {attests'[i].status : i \in {i \in Live(m)' : nm[attests'[i].key] = n}}
          = {attests[i].status : i \in {i \in Live(m) : nm[attests[i].key] = n}}
    BY <2>1
  <2> QED
    BY <2>2 DEF Said
<1>2. Views(doc, m)' = Views(doc, m)
  BY SMT, <1>1 DEF Views
<1> QED
  BY <1>2 DEF Wanted

\* A new message and an attestation come with an event past the cursor; the
\* rest keep their views.
LEMMA ReachedGrows ==
  ASSUME Backend = "memory", MemoryInv, [Next]_vars, Reached(sublast, delivered),
         UNCHANGED <<sublast, delivered>>
  PROVE  Reached(sublast, delivered)'
<1>0. /\ messages \in Seq(MsgRow) /\ events \in Seq(EvRow)
      /\ sublast \in 0 .. Len(events) /\ NoCall \notin committed
      /\ Len(events) \in Nat /\ DOMAIN events = 1 .. Len(events)
  BY SMT, CallsAssumption DEF MemoryInv, TypeInv, PublishTyped, EventsTyped, ConsumeTyped
<1>l. \A m : Live(m) = {i \in DOMAIN attests : attests[i].msg = m /\ attests[i].sup = NoCall}
  BY <1>0 DEF Live, MemoryInv, AllVisible
<1>v. \A m : Live(m)' = {i \in DOMAIN attests' : attests'[i].msg = m /\ attests'[i].sup = NoCall}
  <2>1. MemoryInv'
    BY MemoryInvStep
  <2>2. NoCall \notin committed'
    BY <2>1, CallsAssumption DEF MemoryInv, TypeInv, EventsTyped
  <2> QED
    BY <2>1, <2>2 DEF Live, MemoryInv, AllVisible
<1>e. ASSUME NEW x, NEW m, events' = Append(events, x), x.msg = m
      PROVE  /\ \E e \in DOMAIN events' : e > sublast /\ events'[e].msg = m
             /\ DOMAIN events \subseteq DOMAIN events'
             /\ \A e \in DOMAIN events : events'[e] = events[e]
  <2>1. /\ DOMAIN events' = DOMAIN events \cup {Len(events) + 1}
        /\ events'[Len(events) + 1] = x
        /\ \A e \in DOMAIN events : events'[e] = events[e]
    BY SMT, <1>0, <1>e, Appended
  <2>2. Len(events) + 1 > sublast
    BY SMT, <1>0
  <2> QED
    BY <1>e, <2>1, <2>2
<1>k. ASSUME NEW doc \in Documents, NEW m \in DOMAIN messages \ delivered, Wanted(doc, m)',
             messages'[m] = messages[m], Live(m)' = Live(m),
             \A i \in Live(m) : /\ attests'[i].status = attests[i].status
                                /\ attests'[i].key = attests[i].key,
             DOMAIN events \subseteq DOMAIN events',
             \A e \in DOMAIN events : events'[e] = events[e]
      PROVE  \E e \in DOMAIN events' : e > sublast' /\ events'[e].msg = m
  <2>1. Wanted(doc, m)
    BY <1>k, ViewsKept
  <2>2. PICK e \in DOMAIN events : e > sublast /\ events[e].msg = m
    BY <2>1 DEF Reached
  <2> QED
    BY <1>k, <2>2
<1>1. CASE UNCHANGED <<messages, events, committed, attests>>
  <2>1. ASSUME NEW doc \in Documents, NEW m \in DOMAIN messages' \ delivered', Wanted(doc, m)'
        PROVE  \E e \in DOMAIN events' : e > sublast' /\ events'[e].msg = m
    <3>1. Live(m)' = Live(m)
      BY <1>1 DEF Live
    <3> QED
      BY <1>1, <1>k, <2>1, <3>1
  <2> QED
    BY <2>1 DEF Reached
<1>2. ASSUME NEW p \in Publishers, Posts(p)
      PROVE  Reached(sublast, delivered)'
  <2>1. /\ DOMAIN messages' = DOMAIN messages \cup {Len(messages) + 1}
        /\ \A i \in DOMAIN messages : messages'[i] = messages[i]
    BY SMT, <1>0, <1>2, Appended DEF Posts
  <2>2. PICK x : x = [by |-> p, msg |-> Len(messages) + 1]
    OBVIOUS
  <2>3. x.msg = Len(messages) + 1 /\ events' = Append(events, x) /\ UNCHANGED attests
    BY <1>2, <2>2 DEF Posts
  <2>4. /\ \E e \in DOMAIN events' : e > sublast /\ events'[e].msg = Len(messages) + 1
        /\ DOMAIN events \subseteq DOMAIN events'
        /\ \A e \in DOMAIN events : events'[e] = events[e]
    BY <2>3, <1>e
  <2>5. ASSUME NEW doc \in Documents, NEW m \in DOMAIN messages' \ delivered', Wanted(doc, m)'
        PROVE  \E e \in DOMAIN events' : e > sublast' /\ events'[e].msg = m
    <3>1. CASE m = Len(messages) + 1
      BY <2>4, <3>1
    <3>2. CASE m \in DOMAIN messages
      <4>1. Live(m)' = Live(m)
        BY <1>l, <1>v, <2>3
      <4> QED
        BY <1>k, <2>1, <2>3, <2>4, <2>5, <3>2, <4>1
    <3> QED
      BY <2>1, <3>1, <3>2
  <2> QED
    BY <2>5 DEF Reached
<1>3. ASSUME NEW a \in Attesters, AttestMemory(a)
      PROVE  Reached(sublast, delivered)'
  <2>1. PICK x : x = [by |-> a, msg |-> ain[a].msg]
    OBVIOUS
  <2>2. x.msg = ain[a].msg /\ events' = Append(events, x) /\ UNCHANGED messages
    BY <1>3, <2>1 DEF AttestMemory
  <2>3. /\ \E e \in DOMAIN events' : e > sublast /\ events'[e].msg = ain[a].msg
        /\ DOMAIN events \subseteq DOMAIN events'
        /\ \A e \in DOMAIN events : events'[e] = events[e]
    BY <2>2, <1>e
  <2>4. /\ DOMAIN attests' = DOMAIN attests \cup {Len(attests) + 1}
        /\ attests'[Len(attests) + 1].msg = ain[a].msg
        /\ \A i \in DOMAIN attests :
             /\ attests'[i].msg = attests[i].msg
             /\ attests'[i].key = attests[i].key /\ attests'[i].status = attests[i].status
             /\ attests[i].msg # ain[a].msg => attests'[i].sup = attests[i].sup
    <3>1. AttestRow(a).msg = ain[a].msg
      BY DEF AttestRow
    <3> QED
      BY <1>3, <3>1, MemoryAttests DEF MemoryInv
  <2>5. ASSUME NEW doc \in Documents, NEW m \in DOMAIN messages' \ delivered', Wanted(doc, m)'
        PROVE  \E e \in DOMAIN events' : e > sublast' /\ events'[e].msg = m
    <3>1. CASE m = ain[a].msg
      BY <2>3, <3>1
    <3>2. CASE m # ain[a].msg
      <4>1. Live(m)' = Live(m)
        <5>1. ASSUME NEW i \in Live(m) PROVE i \in Live(m)'
          BY <1>l, <1>v, <2>4, <3>2
        <5>2. ASSUME NEW i \in Live(m)' PROVE i \in Live(m)
          <6>1. i \in DOMAIN attests' /\ attests'[i].msg = m /\ attests'[i].sup = NoCall
            BY <1>v
          <6>2. i \in DOMAIN attests
            BY <2>4, <3>2, <6>1
          <6> QED
            BY <1>l, <2>4, <3>2, <6>1, <6>2
        <5> QED
          BY <5>1, <5>2
      <4>2. \A i \in Live(m) : /\ attests'[i].status = attests[i].status
                               /\ attests'[i].key = attests[i].key
        BY <2>4 DEF Live
      <4> QED
        BY <1>k, <2>2, <2>3, <2>5, <4>1, <4>2
    <3> QED
      BY <3>1, <3>2
  <2> QED
    BY <2>5 DEF Reached
<1> QED
  BY <1>1, <1>2, <1>3, MemoryMoves DEF MemoryInv

\* Without a new row nothing changes in what is wanted.
LEMMA ReachedKept ==
  ASSUME UNCHANGED <<messages, events, committed, attests>>
  PROVE  \A doc, m : Wanted(doc, m)' <=> Wanted(doc, m)
<1>1. ASSUME NEW doc, NEW m PROVE Wanted(doc, m)' <=> Wanted(doc, m)
  <2>1. Live(m)' = Live(m)
    BY DEF Live
  <2> QED
    BY <2>1, ViewsKept
<1> QED
  BY <1>1

\* The views of the message of event e do not all meet the condition, or it is
\* taken, or it was done with: the cursor may pass e.
LEMMA ReachedPasses ==
  ASSUME EventsTyped, NEW last, NEW done, NEW more, Reached(last, done),
         NEW e \in DOMAIN events, \A f \in DOMAIN events : f > last => e <= f,
         \/ events[e].msg \in done \cup more
         \/ \A doc \in Documents : ~Wanted(doc, events[e].msg)
  PROVE  Reached(e, done \cup more)
<1>1. ASSUME NEW doc \in Documents, NEW m \in DOMAIN messages \ (done \cup more), Wanted(doc, m)
      PROVE  \E f \in DOMAIN events : f > e /\ events[f].msg = m
  <2>1. PICK f \in DOMAIN events : f > last /\ events[f].msg = m
    BY <1>1 DEF Reached
  <2>2. f # e
    BY <1>1, <2>1
  <2>3. e <= f /\ e \in Nat /\ f \in Nat
    BY SMT, <2>1 DEF EventsTyped
  <2> QED
    BY SMT, <2>1, <2>2, <2>3
<1> QED
  BY <1>1 DEF Reached

\* A step of Consume keeps ReachInv: it passes an event only with the message
\* taken, delivered before, or not wanted.
LEMMA ReachInvConsume ==
  ASSUME Backend = "memory", SameDelivery, MemoryInv, ReachInv,
         NEW c \in Consumers, ConsumeStep(c) \/ ConsumeAbort(c)
  PROVE  ReachInv'
<1>0. UNCHANGED <<policies, messages, events, committed, attests>>
  BY ConsumeFrame
<1>d. /\ DOMAIN cpc = Consumers /\ DOMAIN cdoc = Consumers /\ DOMAIN ccond = Consumers
      /\ DOMAIN clast = Consumers /\ DOMAIN cseen = Consumers
      /\ DOMAIN cevs = Consumers /\ DOMAIN cout = Consumers
      /\ \A b \in Consumers : cpc[b] \in {"fetch", "loop"} => mu = b
      /\ NoCall \notin Consumers
  BY CallsAssumption DEF MemoryInv, ConsumeInv, TypeInv, ConsumeTyped, ReachInv
<1>t. /\ EventsTyped /\ policies \in Seq(Documents)
      /\ Len(events) \in Nat /\ DOMAIN events = 1 .. Len(events)
      /\ SeenEvents = DOMAIN events
      /\ \A b \in Consumers : /\ clast[b] \in 0 .. Len(events) /\ cseen[b] \in 0 .. Len(events)
                              /\ cevs[b] \subseteq DOMAIN events
  <2>1. EventsTyped /\ ConsumeTyped /\ policies \in Seq(Documents)
    BY DEF MemoryInv, TypeInv, PolicyInv
  <2>2. Len(events) \in Nat /\ DOMAIN events = 1 .. Len(events)
    BY SMT, <2>1 DEF EventsTyped
  <2>3. SeenEvents = DOMAIN events
    BY DEF MemoryInv, AllVisible, SeenEvents
  <2>4. \A b \in Consumers : /\ clast[b] \in 0 .. Len(events) /\ cseen[b] \in 0 .. Len(events)
                              /\ cevs[b] \subseteq DOMAIN events
    BY <2>1 DEF ConsumeTyped
  <2> QED
    BY <2>1, <2>2, <2>3, <2>4
<1>w. \A doc, m : Wanted(doc, m)' <=> Wanted(doc, m)
  BY <1>0, ReachedKept
<1>r. \A last, done : Reached(last, done) =>
        \A doc \in Documents : \A m \in DOMAIN messages' \ done :
          Wanted(doc, m)' => \E e \in DOMAIN events' : e > last /\ events'[e].msg = m
  BY <1>0, <1>w DEF Reached
<1>s. UNCHANGED <<sublast, delivered>> => Reached(sublast, delivered)'
  BY SMT, <1>r DEF Reached, ReachInv
<1>o. ASSUME NEW b \in Consumers,
             /\ cpc'[b] = cpc[b] /\ cdoc'[b] = cdoc[b] /\ ccond'[b] = ccond[b]
             /\ clast'[b] = clast[b]
             /\ cseen'[b] = cseen[b] /\ cevs'[b] = cevs[b] /\ cout'[b] = cout[b],
             UNCHANGED <<sublast, delivered>> \/ cpc[b] \notin {"fetch", "loop"}
      PROVE  Looking(b)'
  <2>1. Looking(b)
    BY DEF ReachInv
  <2>2. ASSUME cpc[b] = "loop"
        PROVE  Reached(cseen[b], delivered \cup cout[b])'
    <3>1. Reached(cseen[b], delivered \cup cout[b])
      BY <2>1, <2>2 DEF Looking
    <3>2. \A doc \in Documents : \A m \in DOMAIN messages' \ (delivered \cup cout[b]) :
            Wanted(doc, m)' => \E e \in DOMAIN events' : e > cseen[b] /\ events'[e].msg = m
      BY <1>r, <3>1
    <3>3. cseen'[b] = cseen[b] /\ delivered' \cup cout'[b] = delivered \cup cout[b]
      BY <1>o, <2>2
    <3> QED
      BY <3>2, <3>3 DEF Reached
  <2> QED
    BY <1>0, <1>o, <2>1, <2>2 DEF Looking
<1>1. CASE ConsumePolicy(c)
  <2>1. /\ Current > 0 /\ cdoc' = [cdoc EXCEPT ![c] = Current]
        /\ cpc' = [cpc EXCEPT ![c] = "lock"]
        /\ UNCHANGED <<sublast, delivered, clast, cevs, cseen, cout>>
    BY <1>1 DEF ConsumePolicy, ConsumeGoto, subVars
  <2>2. PICK ask \in Asks :
          /\ Resolvable(policies[Current], ask)
          /\ ccond' = [ccond EXCEPT ![c] = ResolveCondition(policies[Current], ask)]
    BY <1>1 DEF ConsumePolicy
  <2>3. Current \in 1..Len(policies) /\ policies[Current] \in Documents
    BY SMT, <1>t, <2>1 DEF Current
  <2>4. AskedFor(ccond'[c])
    <3>1. ccond'[c] = ResolveCondition(policies[Current], ask)
      BY <1>d, <2>2
    <3> QED
      BY <2>2, <2>3, <3>1 DEF AskedFor
  <2>5. Looking(c)'
    <3>1. cpc'[c] = "lock" /\ cdoc'[c] \in 1..Len(policies')
      BY <1>0, <1>d, <2>1, <2>3
    <3> QED
      BY <2>4, <3>1 DEF Looking
  <2>6. ASSUME NEW b \in Consumers \ {c} PROVE Looking(b)'
    <3>1. /\ cpc'[b] = cpc[b] /\ cdoc'[b] = cdoc[b] /\ ccond'[b] = ccond[b]
          /\ UNCHANGED <<sublast, delivered, clast, cevs, cseen, cout>>
      BY <1>d, <2>1, <2>2
    <3> QED
      BY <1>o, <3>1
  <2>7. DOMAIN cdoc' = Consumers /\ DOMAIN ccond' = Consumers
    BY <1>d, <2>1, <2>2
  <2> QED
    BY <1>s, <2>1, <2>5, <2>6, <2>7 DEF ReachInv
<1>2. CASE ConsumeLast(c) \/ ConsumeAbort(c)
  BY <1>2 DEF ConsumeLast, ConsumeAbort, MemoryInv, MemoryCalls
<1>3. CASE ConsumeLock(c)
  <2>1. /\ cpc[c] = "lock" /\ cpc' = [cpc EXCEPT ![c] = "fetch"]
        /\ clast' = [clast EXCEPT ![c] = sublast]
        /\ UNCHANGED <<sublast, delivered, cdoc, ccond, cevs, cseen, cout>>
    BY <1>3 DEF ConsumeLock, ConsumeGoto
  <2>2. Looking(c)'
    <3>1. cdoc[c] \in 1..Len(policies) /\ AskedFor(ccond[c])
      BY <2>1 DEF ReachInv, Looking
    <3> QED
      BY <1>0, <1>d, <2>1, <3>1 DEF Looking
  <2>3. \A b \in Consumers \ {c} : Looking(b)'
    BY <1>d, <1>o, <2>1
  <2> QED
    BY <1>d, <1>s, <2>1, <2>2, <2>3 DEF ReachInv
<1>4. CASE ConsumeFetch(c)
  <2>1. /\ cpc[c] = "fetch" /\ cpc' = [cpc EXCEPT ![c] = "loop"]
        /\ cevs' = [cevs EXCEPT ![c] = Page(clast[c])]
        /\ cseen' = [cseen EXCEPT ![c] = clast[c]]
        /\ cout' = [cout EXCEPT ![c] = {}]
        /\ UNCHANGED <<sublast, delivered, cdoc, ccond, clast>>
    BY <1>4 DEF ConsumeFetch, ConsumeGoto, subVars
  <2>2. Looking(c)'
    <3>1. /\ cdoc[c] \in 1..Len(policies) /\ AskedFor(ccond[c])
          /\ clast[c] = sublast
      BY <2>1 DEF ReachInv, Looking
    <3>2. Page(clast[c]) = {e \in DOMAIN events : e > clast[c]}
      BY <1>t DEF Page
    <3>3. /\ cpc'[c] = "loop" /\ cevs'[c] = {e \in DOMAIN events' : e > cseen'[c]}
          /\ cseen'[c] = sublast /\ cout'[c] = {}
      BY <1>0, <1>d, <2>1, <3>1, <3>2
    <3>4. Reached(cseen[c], delivered \cup cout[c])'
      BY SMT, <1>r, <2>1, <3>3 DEF Reached, ReachInv
    <3> QED
      BY <1>0, <2>1, <3>1, <3>3, <3>4 DEF Looking
  <2>3. \A b \in Consumers \ {c} : Looking(b)'
    BY <1>d, <1>o, <2>1
  <2> QED
    BY <1>d, <1>s, <2>1, <2>2, <2>3 DEF ReachInv
<1>5. CASE ConsumeEvent(c)
  <2>1. PICK e \in cevs[c] :
          /\ \A f \in cevs[c] : e <= f
          /\ cseen' = [cseen EXCEPT ![c] = e]
          /\ \/ events[e].msg \in delivered \cup cout[c] /\ Skip(c, e)
             \/ \E view \in Views(policies[cdoc[c]], events[e].msg) :
                  ~MatchCondition(ccond[c], view) /\ Skip(c, e)
             \/ Take(c, e)
    BY <1>5 DEF ConsumeEvent
  <2>2. cpc[c] = "loop" /\ UNCHANGED <<cpc, cdoc, ccond, clast, sublast, delivered>>
    BY <1>5 DEF ConsumeEvent, subVars
  <2>3. /\ cdoc[c] \in 1..Len(policies) /\ AskedFor(ccond[c])
        /\ Reached(cseen[c], delivered \cup cout[c])
        /\ cevs[c] = {f \in DOMAIN events : f > cseen[c]}
    BY <2>1, <2>2 DEF ReachInv, Looking
  <2>4. e \in DOMAIN events /\ e > cseen[c] /\ e \in Nat /\ cseen[c] \in Nat
    BY SMT, <1>t, <2>1, <2>3
  <2>5. \A f \in DOMAIN events : f > cseen[c] => e <= f
    BY <2>1, <2>3
  <2>6. cevs'[c] = {} \/ cevs'[c] = cevs[c] \ {e}
    BY <1>d, <2>1 DEF Skip, Take
  <2>7. cevs[c] \ {e} = {f \in DOMAIN events : f > e}
    <3>1. \A f \in DOMAIN events : f > cseen[c] /\ f # e <=> f > e
      <4>1. \A f \in DOMAIN events : f \in Nat
        BY SMT, <1>t
      <4> QED
        BY SMT, <2>4, <2>5, <4>1
    <3> QED
      BY <2>3, <3>1
  <2>8. Reached(e, delivered \cup cout'[c])
    <3>1. CASE events[e].msg \in delivered \cup cout[c] /\ Skip(c, e)
      <4>1. Reached(e, (delivered \cup cout[c]) \cup {})
        BY <1>t, <2>3, <2>4, <2>5, <3>1, ReachedPasses
      <4>2. cout'[c] = cout[c] /\ (delivered \cup cout[c]) \cup {} = delivered \cup cout[c]
        BY <3>1 DEF Skip
      <4> QED
        BY <4>1, <4>2
    <3>2. ASSUME NEW view \in Views(policies[cdoc[c]], events[e].msg),
                 ~MatchCondition(ccond[c], view), Skip(c, e)
          PROVE  Reached(e, delivered \cup cout'[c])
      <4>1. policies[cdoc[c]] \in Documents
        BY SMT, <1>t, <2>3
      <4>2. \A doc \in Documents : ~Wanted(doc, events[e].msg)
        BY <2>3, <3>2, <4>1, SameWanted
      <4>3. Reached(e, (delivered \cup cout[c]) \cup {})
        BY <1>t, <2>3, <2>4, <2>5, <4>2, ReachedPasses
      <4>4. cout'[c] = cout[c] /\ (delivered \cup cout[c]) \cup {} = delivered \cup cout[c]
        BY <3>2 DEF Skip
      <4> QED
        BY <4>3, <4>4
    <3>3. CASE Take(c, e)
      <4>1. Reached(e, (delivered \cup cout[c]) \cup {events[e].msg})
        BY <1>t, <2>3, <2>4, <2>5, ReachedPasses
      <4>2. delivered \cup cout'[c] = (delivered \cup cout[c]) \cup {events[e].msg}
        BY <1>d, <3>3 DEF Take
      <4> QED
        BY <4>1, <4>2
    <3> QED
      BY <2>1, <3>1, <3>2, <3>3
  <2>9. Looking(c)'
    <3>1. cseen'[c] = e
      BY <1>d, <2>1
    <3>2. Reached(cseen[c], delivered \cup cout[c])'
      <4>1. \A doc \in Documents : \A m \in DOMAIN messages' \ (delivered \cup cout'[c]) :
              Wanted(doc, m)' => \E f \in DOMAIN events' : f > e /\ events'[f].msg = m
        BY <1>r, <2>8
      <4> QED
        BY <2>2, <3>1, <4>1 DEF Reached
    <3> QED
      BY <1>0, <2>2, <2>3, <2>6, <2>7, <3>1, <3>2 DEF Looking
  <2>10. ASSUME NEW b \in Consumers \ {c} PROVE Looking(b)'
    <3>1. cseen'[b] = cseen[b] /\ cevs'[b] = cevs[b] /\ cout'[b] = cout[b]
      BY <1>d, <2>1 DEF Skip, Take
    <3> QED
      BY <1>o, <2>2, <3>1
  <2> QED
    BY <1>d, <1>s, <2>2, <2>9, <2>10 DEF ReachInv
<1>6. CASE ConsumeEnd(c)
  <2>1. /\ cpc[c] = "loop" /\ sublast' = cseen[c] /\ delivered' = delivered \cup cout[c]
        /\ ConsumeReturns(c)
    BY <1>6 DEF ConsumeEnd
  <2>2. Reached(cseen[c], delivered \cup cout[c])
    BY <2>1 DEF ReachInv, Looking
  <2>3. Reached(sublast, delivered)'
    BY SMT, <1>r, <2>1, <2>2 DEF Reached
  <2>4. cpc'[c] = "idle" /\ DOMAIN cdoc' = Consumers /\ DOMAIN ccond' = Consumers
    BY <1>d, <2>1 DEF ConsumeReturns, ConsumeGoto
  <2>5. Looking(c)'
    BY <2>4 DEF Looking
  <2>6. ASSUME NEW b \in Consumers \ {c} PROVE Looking(b)'
    <3>1. /\ cpc'[b] = cpc[b] /\ cdoc'[b] = cdoc[b] /\ ccond'[b] = ccond[b]
          /\ clast'[b] = clast[b]
          /\ cseen'[b] = cseen[b] /\ cevs'[b] = cevs[b] /\ cout'[b] = cout[b]
      BY <1>d, <2>1 DEF ConsumeReturns, ConsumeGoto
    <3>2. cpc[b] \notin {"fetch", "loop"}
      BY <1>d, <2>1
    <3> QED
      BY <1>o, <3>1, <3>2
  <2> QED
    BY <2>3, <2>4, <2>5, <2>6 DEF ReachInv
<1> QED
  BY <1>1, <1>2, <1>3, <1>4, <1>5, <1>6 DEF ConsumeStep

\* Every step keeps ReachInv: while a consumer looks at the events it holds mu,
\* and no row is added.
LEMMA ReachInvStep ==
  ASSUME Backend = "memory", SameDelivery, MemoryInv, ReachInv, [Next]_vars
  PROVE  ReachInv'
<1>1. CASE \E c \in Consumers : ConsumeStep(c) \/ ConsumeAbort(c)
  BY <1>1, ReachInvConsume
<1>2. CASE UNCHANGED <<sublast, delivered, cpc, cdoc, ccond, clast, cevs, cseen, cout>>
  <2>1. Reached(sublast, delivered)'
    BY <1>2, ReachedGrows DEF ReachInv
  <2>2. \A v \in 1..Len(policies) : v \in 1..Len(policies')
    <3>1. CASE policies' = policies
      BY <3>1
    <3>2. ASSUME NEW doc \in Documents, policies' = Append(policies, doc)
          PROVE  \A v \in 1..Len(policies) : v \in 1..Len(policies')
      <4>1. Len(policies) \in Nat /\ Len(policies') = Len(policies) + 1
        BY SMT, <3>2, Appended DEF MemoryInv, PolicyInv
      <4> QED
        BY SMT, <4>1
    <3> QED
      BY <3>1, <3>2, PolicyInvStep DEF MemoryInv
  <2>3. ASSUME NEW c \in Consumers PROVE Looking(c)'
    <3>1. Looking(c)
      BY DEF ReachInv
    <3>2. CASE cpc[c] \notin {"fetch", "loop"}
      BY <1>2, <2>2, <3>1, <3>2 DEF Looking
    <3>3. CASE cpc[c] \in {"fetch", "loop"}
      <4>1. mu # NoCall
        BY <3>3, CallsAssumption DEF MemoryInv, ConsumeInv
      <4>2. UNCHANGED <<messages, events, committed, attests>>
        BY <4>1, MemoryMoves DEF MemoryInv, Posts, AttestMemory
      <4>3. \A doc, m : Wanted(doc, m)' <=> Wanted(doc, m)
        BY <4>2, ReachedKept
      <4>4. cpc[c] = "loop" => Reached(cseen[c], delivered \cup cout[c])'
        BY <1>2, <3>1, <4>2, <4>3 DEF Looking, Reached
      <4> QED
        BY <1>2, <2>2, <3>1, <4>2, <4>4 DEF Looking
    <3> QED
      BY <3>2, <3>3
  <2> QED
    BY <1>2, <2>1, <2>3 DEF ReachInv
<1>3. CASE \/ \E u \in Putters : PutStep(u) \/ PutAbort(u)
           \/ \E p \in Publishers : PublishStep(p) \/ PublishAbort(p)
           \/ \E a \in Attesters : AttestStep(a) \/ AttestAbort(a)
           \/ \E v \in 1..Current : Age(v)
           \/ \E k \in Keys : Revoke(k)
           \/ UNCHANGED vars
  BY <1>2, <1>3, PutFrame, PublishFrame, AttestFrame, EnvFrame DEF vars
<1> QED
  BY <1>1, <1>3 DEF Next

\* With the in-memory backend, when the policies agree on the agents' keys and
\* the callers on the condition of delivery, no message is lost to the
\* consumer: one that meets the condition is delivered or has an event ahead of
\* last_event_id, however its attestations arrive around the calls of Consume.
THEOREM NothingSkippedHolds ==
  ASSUME Backend = "memory", SameDelivery PROVE Spec => []NothingSkipped
<1>1. ASSUME Init PROVE MemoryInv /\ ReachInv
  <2>1. /\ DOMAIN messages = {} /\ DOMAIN cdoc = Consumers /\ DOMAIN ccond = Consumers
        /\ \A c \in Consumers : cpc[c] = "idle"
    BY SMT, <1>1 DEF Init
  <2>2. Reached(sublast, delivered)
    BY <2>1 DEF Reached
  <2>3. \A c \in Consumers : Looking(c)
    BY <2>1 DEF Looking
  <2> QED
    BY <1>1, <2>1, <2>2, <2>3, MemoryInvInit DEF ReachInv
<1>2. MemoryInv /\ ReachInv /\ [Next]_vars => MemoryInv' /\ ReachInv'
  BY MemoryInvStep, ReachInvStep
<1>3. ASSUME MemoryInv, ReachInv PROVE NothingSkipped
  <2>1. SeenMessages = DOMAIN messages /\ SeenEvents = DOMAIN events
    BY <1>3 DEF MemoryInv, AllVisible, SeenMessages, SeenEvents
  <2>2. Current > 0 => policies[Current] \in Documents
    BY SMT, <1>3 DEF MemoryInv, PolicyInv, Current
  <2> QED
    BY <1>3, <2>1, <2>2 DEF NothingSkipped, ReachInv, Reached, Wanted
<1> QED
  BY <1>1, <1>2, <1>3, PTL DEF Spec

=============================================================================
