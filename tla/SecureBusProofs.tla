-------------------------- MODULE SecureBusProofs --------------------------
(***************************************************************************)
(* Theorems about SecureBus for any number of calls, keys and documents.    *)
(* Policies, deliveries, publications, nonces and types, each with its own  *)
(* inductive invariant and lemmas on what the other calls leave alone.      *)
(***************************************************************************)
EXTENDS SecureBus, FiniteSetTheorems, NaturalsInduction, WellFoundedInduction, TLAPS

\* The leaves are first-order unless they name the SMT solver.
USE Zenon

-----------------------------------------------------------------------------
(* Which variables a call can touch *)

\* Publish writes no policy, no subscription and nothing of another kind of
\* call.
LEMMA PublishFrame ==
  ASSUME NEW p \in Publishers, PublishStep(p) \/ PublishAbort(p)
  PROVE  UNCHANGED <<policies, aged, revoked, sublast, delivered, returned,
                     mu, upc, udoc, uver, apc, ain, abase, asnap, cpc, cdoc,
                     ccond, clast, cevs, cseen, cout>>
BY DEF PublishStep, PublishKey, PublishPolicy, PublishMemory, PublishChain,
       PublishLock, PublishInsert, PublishEvent, PublishCommit, PublishAbort,
       polVars, subVars, uVars, aVars, cVars

\* Attest writes no policy, no message, no subscription and nothing of another
\* kind of call.
LEMMA AttestFrame ==
  ASSUME NEW a \in Attesters, AttestStep(a) \/ AttestAbort(a)
  PROVE  UNCHANGED <<policies, aged, revoked, messages, sublast, delivered,
                     returned, mu, upc, udoc, uver, ppc, pin, pbase, plast,
                     cpc, cdoc, ccond, clast, cevs, cseen, cout>>
BY DEF AttestStep, AttestKey, AttestPolicy, AttestMessage, AttestMemory,
       AttestUpdate, AttestSupersede, AttestInsert, AttestEvent, AttestCommit,
       AttestAbort, polVars, rowVars, subVars, uVars, pVars, cVars

\* Consume writes its subscription and nothing else.
LEMMA ConsumeFrame ==
  ASSUME NEW c \in Consumers, ConsumeStep(c) \/ ConsumeAbort(c)
  PROVE  UNCHANGED <<policies, aged, revoked, messages, attests, events,
                     committed, upc, udoc, uver, ppc, pin, pbase, plast,
                     apc, ain, abase, asnap>>
BY DEF ConsumeStep, ConsumePolicy, ConsumeLast, ConsumeLock, ConsumeFetch,
       ConsumeEvent, ConsumeEnd, ConsumeAbort, polVars, rowVars, subVars,
       uVars, pVars, aVars

\* PutPolicy writes policies, nothing else.
LEMMA PutFrame ==
  ASSUME NEW u \in Putters, PutStep(u) \/ PutAbort(u)
  PROVE  UNCHANGED <<aged, revoked, messages, attests, events, committed,
                     sublast, delivered, returned, mu, ppc, pin, pbase, plast,
                     apc, ain, abase, asnap, cpc, cdoc, ccond, clast, cevs,
                     cseen, cout>>
BY DEF PutStep, PutCheckKeys, PutMemory, PutReadMax, PutInsert, PutCommit,
       PutAbort, polVars, rowVars, subVars, pVars, aVars, cVars

\* Time and revocation touch one variable each.
LEMMA EnvFrame ==
  ASSUME (\E v \in 1..Current : Age(v)) \/ (\E k \in Keys : Revoke(k))
  PROVE  /\ UNCHANGED <<policies, messages, attests, events, committed,
                        sublast, delivered, returned, mu, upc, udoc, uver, ppc,
                        pin, pbase, plast, apc, ain, abase, asnap, cpc, cdoc,
                        ccond, clast, cevs, cseen, cout>>
         /\ revoked \subseteq revoked'
BY DEF Age, Revoke, polVars, rowVars, subVars, uVars, pVars, aVars, cVars

-----------------------------------------------------------------------------
(* Policy versions *)

\* A version a call is about to commit is the next one, and nobody else is
\* about to commit it.
PolicyInv ==
  /\ policies \in Seq(Documents)
  /\ upc \in [Putters -> {"start", "version", "insert", "commit", "ok",
                          "refused", "aborted"}]
  /\ udoc \in [Putters -> Documents] /\ uver \in [Putters -> Nat]
  /\ \A u \in Putters :
       /\ upc[u] = "insert" => uver[u] \in 1..(Len(policies) + 1)
       /\ upc[u] = "commit" => uver[u] = Len(policies) + 1
       /\ upc[u] \in {"insert", "commit"} => Backend = "postgres"
  /\ \A u, v \in Putters : upc[u] = "commit" /\ upc[v] = "commit" => u = v

\* Inserting the next version appends it.
LEMMA NextVersion ==
  ASSUME policies \in Seq(Documents), NEW doc \in Documents
  PROVE  WithVersion(Len(policies) + 1, doc) = Append(policies, doc)
<1>1. DOMAIN policies \cup {Len(policies) + 1} = 1..(Len(policies) + 1)
  BY SMT
<1>2. Append(policies, doc)
        = [w \in 1..(Len(policies) + 1) |-> IF w = Len(policies) + 1 THEN doc ELSE policies[w]]
  <2> DEFINE f == [w \in 1..(Len(policies) + 1) |->
                     IF w = Len(policies) + 1 THEN doc ELSE policies[w]]
  <2>1. f \in Seq(Documents) /\ Len(f) = Len(policies) + 1
    <3>1. f \in [1..(Len(policies) + 1) -> Documents]
      BY SMT
    <3> QED
      BY SMT, <3>1
  <2>2. Append(policies, doc) \in Seq(Documents)
        /\ Len(Append(policies, doc)) = Len(policies) + 1
    BY SMT
  <2>3. \A w \in 1..(Len(policies) + 1) : Append(policies, doc)[w] = f[w]
    BY SMT
  <2> HIDE DEF f
  <2>4. Append(policies, doc) = f
    BY SMT, <2>1, <2>2, <2>3
  <2> QED
    BY <2>4 DEF f
<1> QED
  BY <1>1, <1>2 DEF WithVersion

\* PolicyInv holds of an empty topic.
LEMMA PolicyInvInit ==
  ASSUME Init PROVE PolicyInv
BY SMT, DocumentsAssumption DEF Init, PolicyInv, Current

\* What each statement of PutPolicy does to the versions.
LEMMA PolicyInvPut ==
  ASSUME PolicyInv, NEW u \in Putters, PutStep(u) \/ PutAbort(u)
  PROVE  /\ PolicyInv'
         /\ \/ policies' = policies
            \/ \E doc \in Documents : policies' = Append(policies, doc)
<1> USE DEF Current
<1>1. CASE PutCheckKeys(u)
  BY SMT, <1>1 DEF PutCheckKeys, polVars, PolicyInv
<1>2. CASE PutMemory(u)
  <2>1. policies' = Append(policies, udoc[u])
    BY <1>2, NextVersion DEF PutMemory, PolicyInv
  <2>2. udoc[u] \in Documents
    BY DEF PolicyInv
  <2>3. \A v \in Putters : upc[v] \notin {"insert", "commit"}
    BY <1>2 DEF PutMemory, PolicyInv
  <2>4. policies' \in Seq(Documents) /\ Len(policies') = Len(policies) + 1
    BY SMT, <2>1, <2>2 DEF PolicyInv
  <2> QED
    BY SMT, <1>2, <2>1, <2>2, <2>3, <2>4 DEF PutMemory, PolicyInv
<1>3. CASE PutReadMax(u)
  BY SMT, <1>3 DEF PutReadMax, polVars, PolicyInv
<1>4. CASE PutInsert(u)
  <2>1. UNCHANGED <<policies, udoc, uver>>
    BY <1>4 DEF PutInsert, polVars
  <2>2. CASE upc' = [upc EXCEPT ![u] = "refused"]
    BY <2>1, <2>2 DEF PolicyInv
  <2>3. CASE upc' = [upc EXCEPT ![u] = "commit"] /\ uver[u] \notin 1..Len(policies)
    <3>1. uver[u] = Len(policies) + 1 /\ Backend = "postgres"
      BY SMT, <1>4, <2>3 DEF PutInsert, PolicyInv
    <3>2. \A v \in Putters : upc[v] # "commit"
      BY <1>4, <3>1 DEF PutInsert, PolicyInv
    <3> QED
      BY <2>1, <2>3, <3>1, <3>2 DEF PolicyInv
  <2> QED
    BY <1>4, <2>2, <2>3 DEF PutInsert
<1>5. CASE PutCommit(u)
  <2>1. uver[u] = Len(policies) + 1 /\ udoc[u] \in Documents /\ Backend = "postgres"
    BY <1>5 DEF PutCommit, PolicyInv
  <2>2. policies' = Append(policies, udoc[u])
    BY <1>5, <2>1, NextVersion DEF PutCommit, PolicyInv
  <2>3. policies' \in Seq(Documents) /\ Len(policies') = Len(policies) + 1
    BY SMT, <2>1, <2>2 DEF PolicyInv
  <2>4. \A v \in Putters : v # u => upc[v] # "commit"
    BY <1>5 DEF PutCommit, PolicyInv
  <2> QED
    BY SMT, <1>5, <2>1, <2>2, <2>3, <2>4 DEF PutCommit, PolicyInv
<1>6. CASE PutAbort(u)
  BY <1>6 DEF PutAbort, polVars, PolicyInv
<1> QED
  BY <1>1, <1>2, <1>3, <1>4, <1>5, <1>6 DEF PutStep

\* A step keeps PolicyInv and leaves the versions alone or appends one.
LEMMA PolicyInvStep ==
  ASSUME PolicyInv, [Next]_vars
  PROVE  /\ PolicyInv'
         /\ \/ policies' = policies
            \/ \E doc \in Documents : policies' = Append(policies, doc)
<1>1. CASE \E u \in Putters : PutStep(u) \/ PutAbort(u)
  BY <1>1, PolicyInvPut
<1>2. CASE UNCHANGED <<policies, upc, udoc, uver>>
  BY <1>2 DEF PolicyInv, Current
<1>3. CASE \E p \in Publishers : PublishStep(p) \/ PublishAbort(p)
  BY <1>2, <1>3, PublishFrame
<1>4. CASE \E a \in Attesters : AttestStep(a) \/ AttestAbort(a)
  BY <1>2, <1>4, AttestFrame
<1>5. CASE \E c \in Consumers : ConsumeStep(c) \/ ConsumeAbort(c)
  BY <1>2, <1>5, ConsumeFrame
<1>6. CASE (\E v \in 1..Current : Age(v)) \/ (\E k \in Keys : Revoke(k))
  BY <1>2, <1>6, EnvFrame
<1>7. CASE UNCHANGED vars
  BY <1>2, <1>7 DEF vars
<1> QED
  BY <1>1, <1>3, <1>4, <1>5, <1>6, <1>7 DEF Next

\* PolicyInv holds throughout.
LEMMA PolicyInvariance == Spec => []PolicyInv
BY PolicyInvInit, PolicyInvStep, PTL DEF Spec

\* No step of any call changes or drops a committed policy version: the
\* primary key turns away the second of two PutPolicy calls that read the same
\* MAX(version).
THEOREM VersionsKeptHolds == Spec => VersionsKept
<1>1. PolicyInv /\ [Next]_vars
        => [\A v \in 1..Current :
              v \in DOMAIN policies' /\ policies'[v] = policies[v]]_vars
  <2> SUFFICES ASSUME PolicyInv, [Next]_vars, NEW v \in 1..Current
               PROVE  v \in DOMAIN policies' /\ policies'[v] = policies[v]
    OBVIOUS
  <2>1. policies \in Seq(Documents)
    BY DEF PolicyInv
  <2> QED
    BY SMT, <2>1, PolicyInvStep DEF Current
<1> QED
  BY <1>1, PolicyInvariance, PTL DEF Spec, VersionsKept

-----------------------------------------------------------------------------
(* Deliveries *)

\* Whoever is between the lock and the commit of Consume is alone there, and
\* what it collected is not delivered yet.
ConsumeInv ==
  /\ cpc \in [Consumers -> {"idle", "last", "lock", "fetch", "loop"}]
  /\ DOMAIN cout = Consumers /\ cout = [c \in Consumers |-> cout[c]]
  /\ \A c \in Consumers : cpc[c] \in {"fetch", "loop"} => mu = c
  /\ \A c \in Consumers : cpc[c] = "loop" => cout[c] \cap delivered = {}
  /\ returned = [m \in 1..Cardinality(Publishers) |->
                   IF m \in delivered THEN 1 ELSE 0]

\* ConsumeInv holds before anything is consumed.
LEMMA ConsumeInvInit ==
  ASSUME Init PROVE ConsumeInv
BY DEF Init, ConsumeInv

\* Each statement of Consume keeps ConsumeInv.
LEMMA ConsumeInvConsume ==
  ASSUME ConsumeInv, NEW c \in Consumers, ConsumeStep(c) \/ ConsumeAbort(c)
  PROVE  ConsumeInv'
<1> USE DEF ConsumeGoto
<1>1. CASE ConsumePolicy(c)
  BY <1>1 DEF ConsumePolicy, subVars, ConsumeInv
<1>2. CASE ConsumeLast(c)
  BY <1>2 DEF ConsumeLast, subVars, ConsumeInv
<1>3. CASE ConsumeLock(c)
  BY <1>3, CallsAssumption DEF ConsumeLock, ConsumeInv
<1>4. CASE ConsumeFetch(c)
  BY <1>4 DEF ConsumeFetch, subVars, ConsumeInv
<1>5. CASE ConsumeEvent(c)
  <2>1. PICK e \in cevs[c] :
          \/ Skip(c, e)
          \/ Take(c, e) /\ events[e].msg \notin delivered
    BY <1>5 DEF ConsumeEvent
  <2>2. UNCHANGED <<cpc, delivered, returned, mu>>
    BY <1>5 DEF ConsumeEvent, subVars
  <2>3. CASE Skip(c, e)
    BY <2>2, <2>3 DEF Skip, ConsumeInv
  <2>4. CASE Take(c, e) /\ events[e].msg \notin delivered
    <3>1. cout' = [cout EXCEPT ![c] = @ \cup {events[e].msg}]
      BY <2>4 DEF Take
    <3>2. \A d \in Consumers : cout'[d] = IF d = c THEN cout[d] \cup {events[e].msg}
                                                 ELSE cout[d]
      BY <3>1 DEF ConsumeInv
    <3>3. ASSUME NEW d \in Consumers, cpc[d] = "loop"
          PROVE  cout'[d] \cap delivered = {}
      <4>1. cout[d] \cap delivered = {}
        BY <3>3 DEF ConsumeInv
      <4> QED
        BY <2>4, <3>2, <4>1
    <3>4. cout' = [d \in Consumers |-> cout'[d]]
      BY <3>1 DEF ConsumeInv
    <3> QED
      BY <2>2, <3>3, <3>4 DEF ConsumeInv
  <2> QED
    BY <2>1, <2>3, <2>4
<1>6. CASE ConsumeEnd(c)
  <2>1. cpc[c] = "loop" /\ cout[c] \cap delivered = {}
    BY <1>6 DEF ConsumeEnd, ConsumeInv
  <2>2. \A d \in Consumers : cpc'[d] \notin {"fetch", "loop"}
    BY <1>6, <2>1 DEF ConsumeEnd, ConsumeReturns, ConsumeInv
  <2>3. returned' = [m \in 1..Cardinality(Publishers) |->
                       IF m \in delivered' THEN 1 ELSE 0]
    <3>1. \A m \in 1..Cardinality(Publishers) :
            returned[m] + (IF m \in cout[c] THEN 1 ELSE 0)
              = IF m \in delivered \cup cout[c] THEN 1 ELSE 0
      BY SMT, <2>1 DEF ConsumeInv
    <3> QED
      BY <1>6, <3>1 DEF ConsumeEnd
  <2> QED
    BY <1>6, <2>2, <2>3 DEF ConsumeEnd, ConsumeReturns, ConsumeInv
<1>7. CASE ConsumeAbort(c)
  BY <1>7 DEF ConsumeAbort, ConsumeReturns, ConsumeInv
<1> QED
  BY <1>1, <1>2, <1>3, <1>4, <1>5, <1>6, <1>7 DEF ConsumeStep

\* No other call disturbs ConsumeInv.
LEMMA ConsumeInvStep ==
  ASSUME ConsumeInv, [Next]_vars PROVE ConsumeInv'
<1>1. CASE \E c \in Consumers : ConsumeStep(c) \/ ConsumeAbort(c)
  BY <1>1, ConsumeInvConsume
<1>2. CASE UNCHANGED <<delivered, returned, mu, cpc, cout>>
  BY <1>2 DEF ConsumeInv
<1>3. CASE \E u \in Putters : PutStep(u) \/ PutAbort(u)
  BY <1>2, <1>3, PutFrame
<1>4. CASE \E p \in Publishers : PublishStep(p) \/ PublishAbort(p)
  BY <1>2, <1>4, PublishFrame
<1>5. CASE \E a \in Attesters : AttestStep(a) \/ AttestAbort(a)
  BY <1>2, <1>5, AttestFrame
<1>6. CASE (\E v \in 1..Current : Age(v)) \/ (\E k \in Keys : Revoke(k))
  BY <1>2, <1>6, EnvFrame
<1>7. CASE UNCHANGED vars
  BY <1>2, <1>7 DEF vars
<1> QED
  BY <1>1, <1>3, <1>4, <1>5, <1>6, <1>7 DEF Next

\* Consume returns each message to the consumer once, and records exactly the
\* messages it returned, for any number of overlapping, rolled back and
\* repeated calls, with either backend.
THEOREM DeliveredOnceHolds == Spec => []DeliveredOnce
<1>1. ConsumeInv => DeliveredOnce
  BY DEF ConsumeInv, DeliveredOnce
<1> QED
  BY <1>1, ConsumeInvInit, ConsumeInvStep, PTL DEF Spec

\* The holder of mu is a Consume call on its way from the lock to its end.
HolderInside ==
  /\ mu \in Consumers \cup {NoCall}
  /\ \A c \in Consumers : mu = c => cpc[c] \in {"fetch", "loop"}

\* Each statement of Consume keeps HolderInside.
LEMMA HolderConsume ==
  ASSUME ConsumeInv, HolderInside, NEW c \in Consumers, ConsumeStep(c) \/ ConsumeAbort(c)
  PROVE  HolderInside'
<1>0. /\ DOMAIN cpc = Consumers /\ NoCall \notin Consumers
      /\ cpc[c] \in {"fetch", "loop"} <=> mu = c
  BY CallsAssumption DEF ConsumeInv, HolderInside
<1>1. CASE ConsumePolicy(c) \/ ConsumeLast(c)
  BY <1>0, <1>1 DEF ConsumePolicy, ConsumeLast, ConsumeGoto, subVars, HolderInside
<1>2. CASE ConsumeLock(c)
  BY <1>0, <1>2 DEF ConsumeLock, ConsumeGoto, HolderInside
<1>3. CASE ConsumeFetch(c) \/ ConsumeEvent(c)
  BY <1>0, <1>3 DEF ConsumeFetch, ConsumeEvent, ConsumeGoto, subVars, HolderInside
<1>4. CASE ConsumeEnd(c)
  BY <1>0, <1>4 DEF ConsumeEnd, ConsumeReturns, ConsumeGoto, HolderInside
<1>5. CASE ConsumeAbort(c)
  BY <1>0, <1>5 DEF ConsumeAbort, ConsumeReturns, ConsumeGoto, HolderInside
<1> QED
  BY <1>1, <1>2, <1>3, <1>4, <1>5 DEF ConsumeStep

\* With either backend and however Consume ends, the lock of the subscription
\* (mu, or the upserted row) is held by exactly the call between its lock and
\* its end: no call that has returned or rolled back leaves it behind, so a
\* call that waits for it waits for one that is running (consume.go:37, 89).
THEOREM LockHeldInsideHolds ==
  Spec => [](/\ mu \in Consumers \cup {NoCall}
             /\ \A c \in Consumers : mu = c <=> cpc[c] \in {"fetch", "loop"})
<1>1. ASSUME Init PROVE HolderInside
  BY <1>1, CallsAssumption DEF Init, HolderInside
<1>2. ASSUME ConsumeInv, HolderInside, [Next]_vars PROVE HolderInside'
  <2>1. CASE UNCHANGED <<mu, cpc>>
    BY <1>2, <2>1 DEF HolderInside
  <2>2. CASE \E c \in Consumers : ConsumeStep(c) \/ ConsumeAbort(c)
    BY <1>2, <2>2, HolderConsume
  <2>3. CASE \E u \in Putters : PutStep(u) \/ PutAbort(u)
    BY <2>1, <2>3, PutFrame
  <2>4. CASE \E p \in Publishers : PublishStep(p) \/ PublishAbort(p)
    BY <2>1, <2>4, PublishFrame
  <2>5. CASE \E a \in Attesters : AttestStep(a) \/ AttestAbort(a)
    BY <2>1, <2>5, AttestFrame
  <2>6. CASE (\E v \in 1..Current : Age(v)) \/ (\E k \in Keys : Revoke(k))
    BY <2>1, <2>6, EnvFrame
  <2>7. CASE UNCHANGED vars
    BY <2>1, <2>7 DEF vars, subVars, cVars
  <2> QED
    BY <1>2, <2>2, <2>3, <2>4, <2>5, <2>6, <2>7 DEF Next
<1>3. ConsumeInv /\ HolderInside =>
        /\ mu \in Consumers \cup {NoCall}
        /\ \A c \in Consumers : mu = c <=> cpc[c] \in {"fetch", "loop"}
  BY DEF ConsumeInv, HolderInside
<1> QED
  BY <1>1, <1>2, <1>3, ConsumeInvInit, ConsumeInvStep, PTL DEF Spec

-----------------------------------------------------------------------------
(* Published messages *)

Checked == {"memory", "chain", "lock", "insert", "event", "commit", "ok"}

\* What the checks of Publish leave true of a call that passed them.
PassedUnder(docs, in, base) ==
  /\ in.ver \in 1..Len(docs)
  /\ MayPublish(docs[in.ver], in.key)
  /\ in.ver + 1 >= base.ver
  /\ in.key \notin base.revoked

Passed(p) == PassedUnder(policies, pin[p], pbase[p])

PublishRow == [by : Publishers, key : Keys \cup {NoCall}, ver : Nat,
               nonce : Nonces \cup {NoCall}, prev : Publishers \cup {NoCall}]

PublishType ==
  /\ policies \in Seq(Documents)
  /\ ppc \in [Publishers -> Checked \cup {"start", "policy", "refused", "aborted"}]
  /\ pin \in [Publishers -> [key : Keys \cup {NoCall}, ver : Nat,
                             nonce : Nonces \cup {NoCall},
                             prev : Publishers \cup {NoCall},
                             flaw : {"none", "owner", "hash", "signature"}]]
  /\ pbase \in [Publishers -> [ver : Nat, revoked : SUBSET Keys, seen : SUBSET Publishers]]
  /\ messages \in Seq(PublishRow)
  /\ revoked \subseteq Keys

\* A call remembers the checks it has passed.
CallOK(p) ==
  /\ ppc[p] = "policy" => /\ pin[p].key \notin pbase[p].revoked
                          /\ pbase[p].ver <= Len(policies)
  /\ ppc[p] \in Checked => Passed(p)
  /\ p \in committed => ppc[p] = "ok"

\* A row says what its call was checked for.
RowOK(row) ==
  /\ ppc[row.by] \in {"event", "commit", "ok", "aborted"}
  /\ ppc[row.by] # "aborted" => /\ row.key = pin[row.by].key
                                /\ row.ver = pin[row.by].ver
                                /\ row.prev = pin[row.by].prev

\* What a call was checked against is what its row says, for as long as the
\* row can be seen or become visible.
PublishInv ==
  /\ PublishType
  /\ \A p \in Publishers : CallOK(p)
  /\ \A i \in DOMAIN messages : RowOK(messages[i])

\* Every row was written by a call of Publish.
LEMMA RowAuthor ==
  ASSUME PublishType, NEW i \in DOMAIN messages
  PROVE  messages[i].by \in Publishers
<1>1. messages[i] \in PublishRow
  BY SMT DEF PublishType
<1> QED
  BY <1>1 DEF PublishRow

\* The row a call inserts carries the call's own key, policy version and
\* predecessor.
LEMMA MessageRowFields ==
  ASSUME NEW p \in Publishers
  PROVE  /\ MessageRow(p).by = p /\ MessageRow(p).key = pin[p].key
         /\ MessageRow(p).ver = pin[p].ver /\ MessageRow(p).prev = pin[p].prev
BY DEF MessageRow

\* A version one behind the current one at most is no more than one behind an
\* earlier one.
LEMMA OneBehind ==
  ASSUME NEW want \in Nat, NEW base \in Nat, NEW current \in Nat,
         base <= current, want = current \/ want = current - 1
  PROVE  want + 1 >= base
BY SMT

\* PublishInv holds of an empty topic.
LEMMA PublishInvInit ==
  ASSUME Init PROVE PublishInv
<1>1. PublishType
  <2>1. /\ NoPublish \in [key : Keys \cup {NoCall}, ver : Nat,
                          nonce : Nonces \cup {NoCall},
                          prev : Publishers \cup {NoCall},
                          flaw : {"none", "owner", "hash", "signature"}]
        /\ NoBase \in [ver : Nat, revoked : SUBSET Keys, seen : SUBSET Publishers]
    BY DEF NoPublish, NoBase
  <2>2. /\ ppc = [p \in Publishers |-> "start"]
        /\ pin = [p \in Publishers |-> NoPublish]
        /\ pbase = [p \in Publishers |-> NoBase]
        /\ policies = <<>> /\ messages = <<>> /\ revoked = {}
    BY DEF Init
  <2> QED
    BY SMT, <2>1, <2>2 DEF PublishType
<1>2. \A p \in Publishers : ppc[p] = "start" /\ p \notin committed
  BY DEF Init
<1>3. DOMAIN messages = {}
  BY SMT DEF Init
<1> QED
  BY <1>1, <1>2, <1>3 DEF PublishInv, CallOK, RowOK, Checked

\* New policy versions disturb nothing.
LEMMA PublishInvAppend ==
  ASSUME PublishInv, revoked' \subseteq Keys,
         UNCHANGED <<messages, ppc, pin, pbase>>,
         committed' \cap Publishers = committed \cap Publishers,
         \/ policies' = policies
         \/ \E doc \in Documents : policies' = Append(policies, doc)
  PROVE  PublishInv'
<1>1. /\ policies' \in Seq(Documents) /\ Len(policies) <= Len(policies')
      /\ \A v \in 1..Len(policies) : policies'[v] = policies[v]
  <2>1. policies \in Seq(Documents)
    BY DEF PublishInv, PublishType
  <2> QED
    BY SMT, <2>1
<1>2. PublishType'
  BY <1>1 DEF PublishInv, PublishType
<1>3. ASSUME NEW p \in Publishers, ppc[p] \in Checked
      PROVE  Passed(p)'
  <2>1. Passed(p) /\ Len(policies) \in Nat /\ Len(policies') \in Nat
    BY SMT, <1>1, <1>3 DEF PublishInv, PublishType, CallOK
  <2>2. policies'[pin[p].ver] = policies[pin[p].ver]
    BY <1>1, <2>1 DEF Passed, PassedUnder
  <2>3. MayPublish(policies[pin[p].ver], pin[p].key)'
    BY <2>1, <2>2 DEF Passed, PassedUnder
  <2> QED
    BY SMT, <1>1, <2>1, <2>3 DEF Passed, PassedUnder
<1>4. ASSUME NEW p \in Publishers, ppc[p] = "policy"
      PROVE  pin[p].key \notin pbase[p].revoked /\ pbase[p].ver <= Len(policies')
  <2>1. pbase[p].ver \in Nat /\ Len(policies) \in Nat /\ Len(policies') \in Nat
    BY SMT, <1>1 DEF PublishInv, PublishType
  <2> QED
    BY SMT, <1>1, <1>4, <2>1 DEF PublishInv, CallOK, RowOK
<1>5. \A p \in Publishers : p \in committed' => ppc[p] = "ok"
  BY DEF PublishInv, CallOK, RowOK
<1>6. ASSUME NEW i \in DOMAIN messages' PROVE RowOK(messages[i])'
  <2>1. i \in DOMAIN messages /\ messages'[i] = messages[i]
    OBVIOUS
  <2>2. RowOK(messages[i])
    BY <2>1 DEF PublishInv
  <2> QED
    BY <2>1, <2>2 DEF RowOK
<1>7. ppc' = ppc /\ pin' = pin /\ pbase' = pbase
  OBVIOUS
<1>8. ASSUME NEW p \in Publishers PROVE CallOK(p)'
  BY <1>3, <1>4, <1>5, <1>7 DEF CallOK
<1> QED
  BY <1>2, <1>6, <1>8 DEF PublishInv

\* The ways a step of Publish can act, with what each needs to keep PublishInv.
LEMMA PublishInvEnds ==
  ASSUME PublishInv, NEW p \in Publishers, NEW how \in {"refused", "aborted"},
         PublishEnds(p, how), ppc[p] # "ok",
         how = "refused" => ppc[p] \notin {"event", "commit", "aborted"},
         UNCHANGED <<policies, revoked, messages, committed>>
  PROVE  PublishInv'
<1>1. /\ ppc' = [ppc EXCEPT ![p] = how]
      /\ pin' = [pin EXCEPT ![p] = NoPublish]
      /\ pbase' = [pbase EXCEPT ![p] = NoBase]
  BY DEF PublishEnds, PublishGoto
<1>2. PublishType'
  BY <1>1 DEF PublishInv, PublishType, NoPublish, NoBase
<1>3. ppc'[p] = how /\ p \notin committed
  <2>1. CallOK(p) /\ ppc \in [Publishers -> Checked \cup {"start", "policy",
                                                        "refused", "aborted"}]
    BY DEF PublishInv, PublishType
  <2>2. p \notin committed
    BY <2>1 DEF CallOK
  <2> QED
    BY <1>1, <2>1, <2>2
<1>4. \A q \in Publishers \ {p} :
        ppc'[q] = ppc[q] /\ pin'[q] = pin[q] /\ pbase'[q] = pbase[q]
  BY <1>1 DEF PublishInv, PublishType
<1>5. \A q \in Publishers \ {p} : Passed(q)' = Passed(q)
  BY <1>4 DEF Passed
<1>6. ASSUME NEW i \in DOMAIN messages
      PROVE  LET q == messages[i].by IN
               /\ ppc'[q] \in {"event", "commit", "ok", "aborted"}
               /\ ppc'[q] # "aborted" => /\ messages[i].key = pin'[q].key
                                         /\ messages[i].ver = pin'[q].ver
                                         /\ messages[i].prev = pin'[q].prev
  <2>1. messages[i].by \in Publishers
    BY RowAuthor DEF PublishInv, CallOK, RowOK
  <2>2. CASE messages[i].by = p
    BY <1>3, <2>2 DEF PublishInv, CallOK, RowOK
  <2>3. CASE messages[i].by # p
    <3>1. ppc'[messages[i].by] = ppc[messages[i].by]
          /\ pin'[messages[i].by] = pin[messages[i].by]
      BY <1>4, <2>1, <2>3
    <3> QED
      BY <3>1 DEF PublishInv, CallOK, RowOK
  <2> QED
    BY <2>2, <2>3
<1>7. \A q \in Publishers :
        /\ ppc'[q] = "policy" => /\ pin'[q].key \notin pbase'[q].revoked
                                 /\ pbase'[q].ver <= Len(policies)
        /\ ppc'[q] \in Checked => Passed(q)'
        /\ q \in committed => ppc'[q] = "ok"
  BY SMT, <1>3, <1>4, <1>5 DEF PublishInv, CallOK, RowOK, Checked
<1> QED
  BY <1>2, <1>6, <1>7 DEF PublishInv, CallOK, RowOK

\* A call past its checks moves on; its row, if it inserts it now, is its own.
LEMMA PublishInvMoves ==
  ASSUME PublishInv, NEW p \in Publishers, NEW label \in Checked,
         Passed(p), ppc[p] \in (Checked \cup {"policy"}) \ {"ok"},
         PublishGoto(p, label),
         UNCHANGED <<policies, revoked, pin, pbase>>,
         \/ messages' = messages
         \/ messages' = Append(messages, MessageRow(p)) /\ label \in {"event", "ok"},
         \/ committed' = committed
         \/ committed' = committed \cup {p} /\ label = "ok",
         ppc[p] \in {"event", "commit"} => label \in {"event", "commit", "ok"}
  PROVE  PublishInv'
<1>1. ppc' = [ppc EXCEPT ![p] = label]
  BY DEF PublishGoto
<1>2. PublishType'
  <2>1. MessageRow(p) \in PublishRow
    <3>1. pin[p] \in [key : Keys \cup {NoCall}, ver : Nat,
                      nonce : Nonces \cup {NoCall},
                      prev : Publishers \cup {NoCall},
                      flaw : {"none", "owner", "hash", "signature"}]
      BY DEF PublishInv, PublishType
    <3> QED
      BY <3>1 DEF MessageRow, PublishRow
  <2>2. messages' \in Seq(PublishRow)
    <3>1. messages \in Seq(PublishRow)
      BY DEF PublishInv, PublishType
    <3> QED
      BY SMT, <2>1, <3>1
  <2>3. ppc' \in [Publishers -> Checked \cup {"start", "policy", "refused", "aborted"}]
    BY <1>1 DEF PublishInv, PublishType
  <2> QED
    BY <2>2, <2>3 DEF PublishInv, PublishType
<1>3. /\ ppc'[p] = label
      /\ \A q \in Publishers \ {p} : ppc'[q] = ppc[q]
  BY <1>1 DEF PublishInv, PublishType
<1>4. \A q \in Publishers : Passed(q)' = Passed(q)
  BY DEF Passed
<1>5. \A q \in Publishers :
        /\ ppc'[q] = "policy" => /\ pin'[q].key \notin pbase'[q].revoked
                                 /\ pbase'[q].ver <= Len(policies')
        /\ ppc'[q] \in Checked => Passed(q)'
        /\ q \in committed' => ppc'[q] = "ok"
  <2>1. \A q \in Publishers :
          /\ ppc[q] = "policy" => /\ pin[q].key \notin pbase[q].revoked
                                  /\ pbase[q].ver <= Len(policies)
          /\ ppc[q] \in Checked => Passed(q)
          /\ q \in committed => ppc[q] = "ok"
    BY DEF PublishInv, CallOK, RowOK
  <2>2. label # "policy"
    BY DEF Checked
  <2> QED
    BY <1>3, <1>4, <2>1, <2>2
<1>6. ASSUME NEW i \in DOMAIN messages
      PROVE  LET q == messages[i].by IN
               /\ ppc'[q] \in {"event", "commit", "ok", "aborted"}
               /\ ppc'[q] # "aborted" => /\ messages[i].key = pin[q].key
                                         /\ messages[i].ver = pin[q].ver
                                         /\ messages[i].prev = pin[q].prev
  <2>1. messages[i].by \in Publishers
    BY RowAuthor DEF PublishInv, CallOK, RowOK
  <2>2. CASE messages[i].by = p
    <3>1. label \in {"event", "commit", "ok"}
      BY <2>2 DEF PublishInv, CallOK, RowOK, Checked
    <3>2. /\ messages[i].key = pin[p].key /\ messages[i].ver = pin[p].ver
          /\ messages[i].prev = pin[p].prev
      BY <2>2 DEF PublishInv, CallOK, RowOK, Checked
    <3> QED
      BY <1>3, <2>2, <3>1, <3>2
  <2>3. CASE messages[i].by # p
    <3>1. ppc'[messages[i].by] = ppc[messages[i].by]
      BY <1>3, <2>1, <2>3
    <3> QED
      BY <3>1 DEF PublishInv, CallOK, RowOK
  <2> QED
    BY <2>2, <2>3
<1>7. ASSUME NEW i \in DOMAIN messages', i \in DOMAIN messages,
             messages'[i] = messages[i]
      PROVE  RowOK(messages[i])'
  BY <1>6, <1>7 DEF RowOK
<1>8. ASSUME NEW i \in DOMAIN messages', messages'[i] = MessageRow(p),
             label \in {"event", "ok"}
      PROVE  RowOK(messages[i])'
  <2>1. /\ messages'[i].by = p /\ messages'[i].key = pin[p].key
        /\ messages'[i].ver = pin[p].ver /\ messages'[i].prev = pin[p].prev
    BY <1>8, MessageRowFields
  <2>2. ppc'[p] \in {"event", "commit", "ok", "aborted"} /\ pin' = pin
    BY <1>3, <1>8
  <2> QED
    BY <2>1, <2>2 DEF RowOK
<1>9. ASSUME NEW i \in DOMAIN messages' PROVE RowOK(messages[i])'
  <2>1. messages \in Seq(PublishRow)
    BY DEF PublishInv, PublishType
  <2>2. \/ i \in DOMAIN messages /\ messages'[i] = messages[i]
        \/ messages'[i] = MessageRow(p) /\ label \in {"event", "ok"}
    BY SMT, <2>1
  <2> QED
    BY <1>7, <1>8, <2>2
<1>10. ASSUME NEW q \in Publishers PROVE CallOK(q)'
  BY <1>5 DEF CallOK
<1> QED
  BY <1>2, <1>9, <1>10 DEF PublishInv

\* Each statement of Publish keeps PublishInv.
LEMMA PublishInvPublish ==
  ASSUME PublishInv, NEW p \in Publishers, PublishStep(p) \/ PublishAbort(p)
  PROVE  PublishInv'
<1>1. ppc[p] \in Checked => Passed(p)
  BY DEF PublishInv, CallOK, RowOK
<1>2. policies \in Seq(Documents) /\ Len(policies) \in Nat
  <2>1. policies \in Seq(Documents)
    BY DEF PublishInv, PublishType
  <2> QED
    BY SMT, <2>1
<1>3. UNCHANGED <<policies, revoked>>
  BY PublishFrame
<1> USE DEF rowVars
<1>4. CASE PublishKey(p)
  <2>1. CASE PublishEnds(p, "refused")
    BY <1>3, <1>4, <2>1, PublishInvEnds DEF PublishKey
  <2>2. CASE ~PublishEnds(p, "refused")
    <3>1. PICK in \in PublishInput :
            /\ in.key \notin revoked
            /\ ppc' = [ppc EXCEPT ![p] = "policy"]
            /\ pin' = [pin EXCEPT ![p] = in]
            /\ pbase' = [pbase EXCEPT ![p] = [ver |-> Current, revoked |-> revoked,
                                              seen |-> Hashes]]
      BY <1>4, <2>2 DEF PublishKey, PublishGoto, BelongsToCaller
    <3>2. \A h \in Hashes : h \in Publishers
      <4>1. PublishType
        BY DEF PublishInv, CallOK, RowOK
      <4>2. \A i \in DOMAIN messages : messages[i].by \in Publishers
        BY <4>1, RowAuthor
      <4> QED
        BY <4>2 DEF Hashes, SeenMessages
    <3>3. in \in [key : Keys \cup {NoCall}, ver : Nat, nonce : Nonces \cup {NoCall},
                  prev : Publishers \cup {NoCall},
                  flaw : {"none", "owner", "hash", "signature"}]
      BY SMT, <1>2, <3>2 DEF PublishInput, Flaws, Current
    <3>4. UNCHANGED <<messages, committed>> /\ ppc[p] = "start"
      BY <1>4 DEF PublishKey
    <3>5. PublishType'
      <4>1. [ver |-> Current, revoked |-> revoked, seen |-> Hashes]
              \in [ver : Nat, revoked : SUBSET Keys, seen : SUBSET Publishers]
        BY <1>2, <3>2 DEF PublishInv, PublishType, Current
      <4>2. /\ ppc' \in [Publishers -> Checked \cup {"start", "policy", "refused", "aborted"}]
            /\ pbase' \in [Publishers -> [ver : Nat, revoked : SUBSET Keys,
                                          seen : SUBSET Publishers]]
        BY <3>1, <4>1 DEF PublishInv, PublishType
      <4> QED
        BY <1>3, <3>1, <3>3, <3>4, <4>2 DEF PublishInv, PublishType
    <3>6. /\ ppc'[p] = "policy" /\ pin'[p] = in
          /\ pbase'[p] = [ver |-> Current, revoked |-> revoked, seen |-> Hashes]
          /\ \A q \in Publishers \ {p} :
               ppc'[q] = ppc[q] /\ pin'[q] = pin[q] /\ pbase'[q] = pbase[q]
      BY <3>1 DEF PublishInv, PublishType
    <3>7. \A q \in Publishers \ {p} : Passed(q)' = Passed(q)
      BY <1>3, <3>6 DEF Passed
    <3>8. \A i \in DOMAIN messages : messages[i].by \in Publishers \ {p}
      BY <3>4, RowAuthor DEF PublishInv, CallOK, RowOK
    <3>9. \A q \in Publishers :
            /\ ppc'[q] = "policy" => /\ pin'[q].key \notin pbase'[q].revoked
                                     /\ pbase'[q].ver <= Len(policies')
            /\ ppc'[q] \in Checked => Passed(q)'
            /\ q \in committed' => ppc'[q] = "ok"
      <4> TAKE q \in Publishers
      <4>1. CASE q = p
        <5>1. p \notin committed'
          BY <3>4 DEF PublishInv, CallOK, RowOK
        <5>2. pbase'[p].ver = Len(policies') /\ pbase'[p].revoked = revoked
          BY SMT, <1>3, <3>6 DEF Current
        <5>3. pin'[p].key \notin pbase'[p].revoked /\ pbase'[p].ver <= Len(policies')
          <6>1. Len(policies') \in Nat
            BY <1>2, <1>3
          <6> QED
            BY SMT, <3>1, <3>6, <5>2, <6>1
        <5>4. ppc'[p] \notin Checked
          BY <3>6 DEF Checked
        <5> QED
          BY <4>1, <5>1, <5>3, <5>4
      <4>2. CASE q # p
        BY <1>3, <3>4, <3>6, <3>7, <4>2 DEF PublishInv, CallOK, RowOK
      <4> QED
        BY <4>1, <4>2
    <3>10. \A i \in DOMAIN messages' :
             LET q == messages'[i].by IN
               /\ ppc'[q] \in {"event", "commit", "ok", "aborted"}
               /\ ppc'[q] # "aborted" => /\ messages'[i].key = pin'[q].key
                                         /\ messages'[i].ver = pin'[q].ver
                                         /\ messages'[i].prev = pin'[q].prev
      <4> TAKE i \in DOMAIN messages'
      <4>1. i \in DOMAIN messages /\ messages'[i] = messages[i]
        BY <3>4
      <4>2. /\ ppc'[messages[i].by] = ppc[messages[i].by]
            /\ pin'[messages[i].by] = pin[messages[i].by]
        BY <3>6, <3>8, <4>1
      <4> QED
        BY SMT, <4>1, <4>2 DEF PublishInv, CallOK, RowOK
    <3> QED
      BY <3>5, <3>9, <3>10 DEF PublishInv, CallOK, RowOK
  <2> QED
    BY <2>1, <2>2
<1>5. CASE PublishPolicy(p)
  <2>1. CASE PublishEnds(p, "refused")
    BY <1>3, <1>5, <2>1, PublishInvEnds DEF PublishPolicy
  <2>2. CASE ~PublishEnds(p, "refused")
    <3>1. PICK name \in AgentNamesForKey(policies[pin[p].ver], pin[p].key) :
            /\ AcceptedPolicy(pin[p].ver, pin[p].flaw # "hash")
            /\ name \in policies[pin[p].ver].publish
            /\ PublishGoto(p, IF Backend = "memory" THEN "memory"
                              ELSE IF policies[pin[p].ver].chain THEN "chain"
                              ELSE "insert")
            /\ UNCHANGED <<pin, pbase>>
      BY <1>5, <2>2 DEF PublishPolicy
    <3>2. ppc[p] = "policy" /\ UNCHANGED <<messages, committed>>
      BY <1>5 DEF PublishPolicy
    <3>3. pin[p].ver \in Nat /\ pbase[p].ver \in Nat
      BY DEF PublishInv, PublishType
    <3>4. pin[p].key \notin pbase[p].revoked /\ pbase[p].ver <= Len(policies)
      BY <3>2 DEF PublishInv, CallOK, RowOK
    <3>5. pin[p].ver \in 1..Len(policies) /\ pin[p].ver + 1 >= pbase[p].ver
      <4>1. /\ acceptPolicyVersion(pin[p].ver, pin[p].flaw # "hash")
            /\ pin[p].ver \in 1..Len(policies)
        BY <3>1 DEF AcceptedPolicy, Current
      <4>2. pin[p].ver = Len(policies) \/ pin[p].ver = Len(policies) - 1
        BY <4>1 DEF acceptPolicyVersion, Current
      <4> QED
        BY <1>2, <3>3, <3>4, <4>1, <4>2, OneBehind
    <3>6. Passed(p)
      BY <3>1, <3>4, <3>5 DEF Passed, PassedUnder, MayPublish
    <3>7. \E label \in {"memory", "chain", "insert"} : PublishGoto(p, label)
      BY <3>1
    <3> QED
      BY <1>3, <3>1, <3>2, <3>6, <3>7, PublishInvMoves DEF Checked
  <2> QED
    BY <2>1, <2>2
<1>6. CASE PublishMemory(p)
  BY <1>1, <1>3, <1>6, PublishInvEnds, PublishInvMoves DEF PublishMemory, Checked
<1>7. CASE PublishChain(p)
  BY <1>1, <1>3, <1>7, PublishInvMoves DEF PublishChain, Checked
<1>8. CASE PublishLock(p)
  BY <1>1, <1>3, <1>8, PublishInvEnds, PublishInvMoves DEF PublishLock, Checked
<1>9. CASE PublishInsert(p)
  BY <1>1, <1>3, <1>9, PublishInvEnds, PublishInvMoves DEF PublishInsert, Checked
<1>10. CASE PublishEvent(p)
  BY <1>1, <1>3, <1>10, PublishInvMoves DEF PublishEvent, Checked
<1>11. CASE PublishCommit(p)
  BY <1>1, <1>3, <1>11, PublishInvMoves DEF PublishCommit, Checked
<1>12. CASE PublishAbort(p)
  BY <1>3, <1>12, PublishInvEnds DEF PublishAbort, OpenPublish
<1> QED
  BY <1>4, <1>5, <1>6, <1>7, <1>8, <1>9, <1>10, <1>11, <1>12 DEF PublishStep

\* Attest commits only its own rows.
LEMMA AttestCommits ==
  ASSUME NEW a \in Attesters, AttestStep(a) \/ AttestAbort(a)
  PROVE  committed' \cap Publishers = committed \cap Publishers
<1>1. committed' = committed \/ committed' = committed \cup {a}
  BY DEF AttestStep, AttestKey, AttestPolicy, AttestMessage, AttestMemory,
         AttestUpdate, AttestSupersede, AttestInsert, AttestEvent,
         AttestCommit, AttestAbort, rowVars
<1> QED
  BY <1>1, CallsAssumption

\* Every step keeps PublishInv.
LEMMA PublishInvStep ==
  ASSUME PolicyInv, PublishInv, [Next]_vars PROVE PublishInv'
<1>1. \/ policies' = policies
      \/ \E doc \in Documents : policies' = Append(policies, doc)
  BY PolicyInvStep
<1>2. revoked \subseteq Keys
  BY DEF PublishInv, PublishType
<1>3. CASE \E p \in Publishers : PublishStep(p) \/ PublishAbort(p)
  BY <1>3, PublishInvPublish
<1>4. CASE \E u \in Putters : PutStep(u) \/ PutAbort(u)
  BY <1>1, <1>2, <1>4, PutFrame, PublishInvAppend
<1>5. CASE \E a \in Attesters : AttestStep(a) \/ AttestAbort(a)
  BY <1>1, <1>2, <1>5, AttestFrame, AttestCommits, PublishInvAppend
<1>6. CASE \E c \in Consumers : ConsumeStep(c) \/ ConsumeAbort(c)
  BY <1>1, <1>2, <1>6, ConsumeFrame, PublishInvAppend
<1>7. CASE (\E v \in 1..Current : Age(v)) \/ (\E k \in Keys : Revoke(k))
  <2>1. revoked' \subseteq Keys
    BY <1>2, <1>7 DEF Age, Revoke
  <2> QED
    BY <1>1, <1>7, <2>1, EnvFrame, PublishInvAppend
<1>8. CASE UNCHANGED vars
  BY <1>1, <1>2, <1>8, PublishInvAppend DEF vars
<1> QED
  BY <1>3, <1>4, <1>5, <1>6, <1>7, <1>8 DEF Next

\* Publish checks the key, the policy and the author's right in separate
\* reads before its transaction commits; still every visible message was
\* allowed by the version it names, which was at most one behind when the call
\* began, under a key not revoked by then.
THEOREM PublishedUnderPolicyHolds == Spec => []PublishedUnderPolicy
<1>1. PublishInv => PublishedUnderPolicy
  <2> SUFFICES ASSUME PublishInv, NEW i \in SeenMessages
               PROVE  LET row == messages[i] base == pbase[row.by] IN
                        /\ row.ver \in 1..Current
                        /\ MayPublish(policies[row.ver], row.key)
                        /\ row.ver + 1 >= base.ver
                        /\ row.key \notin base.revoked
    BY DEF PublishedUnderPolicy
  <2>1. i \in DOMAIN messages /\ messages[i].by \in Publishers \cap committed
    BY RowAuthor DEF SeenMessages, PublishInv
  <2>2. ppc[messages[i].by] = "ok" /\ Passed(messages[i].by)
    BY <2>1 DEF PublishInv, CallOK, RowOK, Checked
  <2>3. /\ messages[i].key = pin[messages[i].by].key
        /\ messages[i].ver = pin[messages[i].by].ver
    BY <2>1, <2>2 DEF PublishInv, CallOK, RowOK
  <2> QED
    BY <2>2, <2>3 DEF Passed, PassedUnder, Current
<1> QED
  BY <1>1, PolicyInvariance, PublishInvInit, PublishInvStep, PTL DEF Spec

-----------------------------------------------------------------------------
(* Nonces *)

\* A call whose row is in the table for good, or may come to be.
Standing(p) == ppc[p] \in {"event", "commit", "ok"}

\* With Postgres the standing rows have nonces of their own: those of
\* committed calls, and those of calls that still hold their transaction.
NonceInv ==
  /\ \A p \in Publishers : /\ ppc[p] # "memory"
                           /\ ppc[p] = "ok" => p \in committed
  /\ \A i \in DOMAIN messages :
       Standing(messages[i].by) => messages[i].nonce = pin[messages[i].by].nonce
  /\ \A i, j \in DOMAIN messages :
       /\ Standing(messages[i].by) /\ Standing(messages[j].by)
       /\ messages[i].nonce = messages[j].nonce
       => i = j

\* A step that inserts and commits nothing of Publish.
LEMMA NonceRests ==
  ASSUME PublishInv, NonceInv, messages' = messages,
         committed' \cap Publishers = committed \cap Publishers,
         \A q \in Publishers :
           \/ ppc'[q] = ppc[q] /\ pin'[q] = pin[q]
           \/ ppc'[q] \notin {"memory", "event", "commit", "ok"}
  PROVE  NonceInv'
<1>1. \A i \in DOMAIN messages : messages[i].by \in Publishers
  BY RowAuthor DEF PublishInv
<1>2. \A q \in Publishers : Standing(q)' => Standing(q) /\ pin'[q] = pin[q]
  BY DEF Standing
<1>3. \A q \in Publishers : ppc'[q] # "memory" /\ (ppc'[q] = "ok" => q \in committed')
  BY DEF NonceInv
<1>4. \A i \in DOMAIN messages : Standing(messages[i].by)' =>
        /\ Standing(messages[i].by)
        /\ messages[i].nonce = pin'[messages[i].by].nonce
  BY <1>1, <1>2 DEF NonceInv
<1>5. \A i, j \in DOMAIN messages :
        /\ Standing(messages[i].by)' /\ Standing(messages[j].by)'
        /\ messages[i].nonce = messages[j].nonce
        => i = j
  <2>1. \A i, j \in DOMAIN messages :
          /\ Standing(messages[i].by) /\ Standing(messages[j].by)
          /\ messages[i].nonce = messages[j].nonce
          => i = j
    BY DEF NonceInv
  <2> QED
    BY <1>4, <2>1
<1>6. /\ \A i \in DOMAIN messages' :
           ppc'[messages'[i].by] \in {"event", "commit", "ok"} =>
           messages'[i].nonce = pin'[messages'[i].by].nonce
      /\ \A i, j \in DOMAIN messages' :
           /\ ppc'[messages'[i].by] \in {"event", "commit", "ok"}
           /\ ppc'[messages'[j].by] \in {"event", "commit", "ok"}
           /\ messages'[i].nonce = messages'[j].nonce
           => i = j
  BY <1>4, <1>5 DEF Standing
<1> QED
  BY <1>3, <1>6 DEF NonceInv, Standing

\* The row of a call with an open transaction becomes visible, or comes closer
\* to it.
LEMMA NonceCommits ==
  ASSUME PublishInv, NonceInv, NEW p \in Publishers,
         PublishEvent(p) \/ PublishCommit(p)
  PROVE  NonceInv'
<1>0. ppc \in [Publishers -> Checked \cup {"start", "policy", "refused", "aborted"}]
  BY DEF PublishInv, PublishType
<1>1. /\ messages' = messages /\ pin' = pin
      /\ \A q \in Publishers \ {p} : ppc'[q] = ppc[q]
      /\ ppc[p] \in {"event", "commit"} /\ committed \subseteq committed'
      /\ \/ ppc'[p] = "commit"
         \/ ppc'[p] = "ok" /\ p \in committed'
  BY <1>0 DEF PublishEvent, PublishCommit, PublishGoto
<1>2. \A q \in Publishers : Standing(q)' <=> Standing(q)
  BY <1>1 DEF Standing
<1>3. \A i \in DOMAIN messages : messages[i].by \in Publishers
  BY RowAuthor DEF PublishInv
<1>4. \A q \in Publishers : ppc'[q] # "memory" /\ (ppc'[q] = "ok" => q \in committed')
  BY <1>1 DEF NonceInv
<1>5. \A i \in DOMAIN messages : Standing(messages[i].by)' <=> Standing(messages[i].by)
  BY <1>1, <1>2, <1>3 DEF Standing
<1>6. /\ \A i \in DOMAIN messages' :
           ppc'[messages'[i].by] \in {"event", "commit", "ok"} =>
           messages'[i].nonce = pin'[messages'[i].by].nonce
      /\ \A i, j \in DOMAIN messages' :
           /\ ppc'[messages'[i].by] \in {"event", "commit", "ok"}
           /\ ppc'[messages'[j].by] \in {"event", "commit", "ok"}
           /\ messages'[i].nonce = messages'[j].nonce
           => i = j
  BY <1>1, <1>5 DEF NonceInv, Standing
<1> QED
  BY <1>4, <1>6 DEF NonceInv, Standing

\* The insert waits for open transactions with its nonce, and fails on a
\* committed row that has it.
LEMMA NonceInserts ==
  ASSUME PublishInv, NonceInv, NEW p \in Publishers, PublishInsert(p)
  PROVE  NonceInv'
<1>0. /\ ppc \in [Publishers -> Checked \cup {"start", "policy", "refused", "aborted"}]
      /\ messages \in Seq(PublishRow) /\ DOMAIN pin = Publishers
  BY DEF PublishInv, PublishType
<1>1. CASE PublishEnds(p, "refused") /\ UNCHANGED messages
  <2>1. /\ ppc'[p] = "refused" /\ committed' = committed
        /\ \A q \in Publishers \ {p} : ppc'[q] = ppc[q] /\ pin'[q] = pin[q]
    BY <1>0, <1>1 DEF PublishEnds, PublishGoto, PublishInsert
  <2> QED
    BY <1>1, <2>1, NonceRests
<1>2. CASE /\ ~\E i \in SeenMessages : messages[i].nonce = pin[p].nonce
           /\ messages' = Append(messages, MessageRow(p))
           /\ PublishGoto(p, "event") /\ UNCHANGED <<pin, pbase, plast>>
  <2>1. /\ ppc[p] = "insert" /\ ppc'[p] = "event" /\ committed' = committed /\ pin' = pin
        /\ \A q \in Publishers \ {p} : ppc'[q] = ppc[q]
        /\ \A q \in Publishers : ppc[q] \in {"event", "commit"} =>
             pin[q].nonce # pin[p].nonce
    BY <1>0, <1>2 DEF PublishInsert, PublishGoto
  <2>2. PICK row : row = MessageRow(p)
    OBVIOUS
  <2>3. row.by = p /\ row.nonce = pin[p].nonce
    BY <2>2 DEF MessageRow
  <2>4. /\ DOMAIN messages' = DOMAIN messages \cup {Len(messages) + 1}
        /\ messages'[Len(messages) + 1] = row
        /\ \A i \in DOMAIN messages : messages'[i] = messages[i]
        /\ Len(messages) + 1 \notin DOMAIN messages
    <3>1. /\ DOMAIN messages = 1 .. Len(messages) /\ Len(messages) \in Nat
          /\ DOMAIN Append(messages, row) = 1 .. Len(messages) + 1
          /\ Append(messages, row)[Len(messages) + 1] = row
          /\ \A i \in 1 .. Len(messages) : Append(messages, row)[i] = messages[i]
      BY SMT, <1>0
    <3>2. \A n \in Nat : /\ 1 .. n + 1 = (1 .. n) \cup {n + 1}
                        /\ n + 1 \notin 1 .. n
      BY SMT
    <3>3. messages' = Append(messages, row)
      BY <1>2, <2>2
    <3> QED
      BY <3>1, <3>2, <3>3
  <2>5. \A i \in DOMAIN messages : messages[i].by \in Publishers \ {p}
    <3>1. \A i \in DOMAIN messages : messages[i].by \in Publishers
      BY RowAuthor DEF PublishInv
    <3>2. \A i \in DOMAIN messages : ppc[messages[i].by] # "insert"
      BY DEF PublishInv, RowOK
    <3> QED
      BY <2>1, <3>1, <3>2
  <2>6. \A i \in DOMAIN messages : Standing(messages[i].by) =>
          messages[i].nonce # pin[p].nonce
    <3> SUFFICES ASSUME NEW i \in DOMAIN messages, Standing(messages[i].by)
                 PROVE  messages[i].nonce # pin[p].nonce
      OBVIOUS
    <3>1. messages[i].nonce = pin[messages[i].by].nonce
      BY DEF NonceInv
    <3>2. CASE ppc[messages[i].by] \in {"event", "commit"}
      BY <2>1, <2>5, <3>1, <3>2
    <3>3. CASE ppc[messages[i].by] = "ok"
      <4>1. messages[i].by \in committed
        BY <2>5, <3>3 DEF NonceInv
      <4> QED
        BY <1>2, <4>1 DEF SeenMessages
    <3> QED
      BY <3>2, <3>3 DEF Standing
  <2>7. \A i \in DOMAIN messages :
          /\ ppc'[messages[i].by] = ppc[messages[i].by]
          /\ pin'[messages[i].by] = pin[messages[i].by]
    BY <2>1, <2>5
  <2>8. \A q \in Publishers : ppc'[q] # "memory" /\ (ppc'[q] = "ok" => q \in committed')
    BY <2>1 DEF NonceInv
  <2>9. \A i \in DOMAIN messages' :
          ppc'[messages'[i].by] \in {"event", "commit", "ok"} =>
          messages'[i].nonce = pin'[messages'[i].by].nonce
    BY SMT, <2>1, <2>3, <2>4, <2>7 DEF NonceInv, Standing
  <2>10. \A i, j \in DOMAIN messages' :
           /\ ppc'[messages'[i].by] \in {"event", "commit", "ok"}
           /\ ppc'[messages'[j].by] \in {"event", "commit", "ok"}
           /\ messages'[i].nonce = messages'[j].nonce
           => i = j
    BY SMT, <2>3, <2>4, <2>6, <2>7 DEF NonceInv, Standing
  <2> QED
    BY <2>8, <2>9, <2>10 DEF NonceInv, Standing
<1> QED
  BY <1>1, <1>2 DEF PublishInsert

\* Every step keeps NonceInv.
LEMMA NonceStep ==
  ASSUME Backend = "postgres", PublishInv, NonceInv, [Next]_vars PROVE NonceInv'
<1>0. /\ ppc \in [Publishers -> Checked \cup {"start", "policy", "refused", "aborted"}]
      /\ DOMAIN pin = Publishers
  BY DEF PublishInv, PublishType
<1>a. CASE /\ UNCHANGED <<messages, ppc, pin>>
           /\ committed' \cap Publishers = committed \cap Publishers
  BY <1>a, NonceRests
<1>1. ASSUME NEW p \in Publishers, PublishStep(p) \/ PublishAbort(p) PROVE NonceInv'
  <2>a. ASSUME NEW label \in {"policy", "chain", "insert", "lock"},
               PublishGoto(p, label), UNCHANGED <<messages, committed>>,
               \A q \in Publishers \ {p} : pin'[q] = pin[q]
        PROVE  NonceInv'
    <3>1. /\ ppc'[p] \notin {"memory", "event", "commit", "ok"}
          /\ \A q \in Publishers \ {p} : ppc'[q] = ppc[q]
      BY <1>0, <2>a DEF PublishGoto
    <3> QED
      BY <2>a, <3>1, NonceRests
  <2>b. ASSUME NEW how \in {"refused", "aborted"}, PublishEnds(p, how),
               UNCHANGED <<messages, committed>>
        PROVE  NonceInv'
    <3>1. /\ ppc'[p] \notin {"memory", "event", "commit", "ok"}
          /\ \A q \in Publishers \ {p} : ppc'[q] = ppc[q] /\ pin'[q] = pin[q]
      BY <1>0, <2>b DEF PublishEnds, PublishGoto
    <3> QED
      BY <2>b, <3>1, NonceRests
  <2>1. CASE PublishKey(p)
    <3>1. UNCHANGED <<messages, committed>>
      BY <2>1 DEF PublishKey, rowVars
    <3>2. \/ PublishEnds(p, "refused")
          \/ PublishGoto(p, "policy") /\ \E in \in PublishInput : pin' = [pin EXCEPT ![p] = in]
      BY <2>1 DEF PublishKey
    <3>3. CASE PublishGoto(p, "policy") /\ \E in \in PublishInput : pin' = [pin EXCEPT ![p] = in]
      <4>1. \A q \in Publishers \ {p} : pin'[q] = pin[q]
        BY <1>0, <3>3
      <4> QED
        BY <2>a, <3>1, <3>3, <4>1
    <3> QED
      BY <2>b, <3>1, <3>2, <3>3
  <2>2. CASE PublishPolicy(p)
    <3>1. UNCHANGED <<messages, committed>>
      BY <2>2 DEF PublishPolicy, rowVars
    <3>2. \/ PublishEnds(p, "refused")
          \/ (PublishGoto(p, "chain") \/ PublishGoto(p, "insert")) /\ UNCHANGED pin
      BY <2>2 DEF PublishPolicy
    <3> QED
      BY <2>a, <2>b, <3>1, <3>2
  <2>3. CASE PublishMemory(p)
    BY <2>3 DEF PublishMemory, NonceInv
  <2>4. CASE PublishChain(p)
    BY <2>4, <2>a DEF PublishChain, rowVars
  <2>5. CASE PublishLock(p)
    <3>1. UNCHANGED <<messages, committed>>
      BY <2>5 DEF PublishLock, rowVars
    <3>2. PublishEnds(p, "refused") \/ (PublishGoto(p, "insert") /\ UNCHANGED pin)
      BY <2>5 DEF PublishLock
    <3> QED
      BY <2>a, <2>b, <3>1, <3>2
  <2>6. CASE PublishAbort(p)
    BY <2>6, <2>b DEF PublishAbort, rowVars
  <2> QED
    BY <1>1, <2>1, <2>2, <2>3, <2>4, <2>5, <2>6, NonceInserts, NonceCommits DEF PublishStep
<1>2. CASE \E u \in Putters : PutStep(u) \/ PutAbort(u)
  BY <1>a, <1>2, PutFrame
<1>3. CASE \E a \in Attesters : AttestStep(a) \/ AttestAbort(a)
  BY <1>a, <1>3, AttestFrame, AttestCommits
<1>4. CASE \E c \in Consumers : ConsumeStep(c) \/ ConsumeAbort(c)
  BY <1>a, <1>4, ConsumeFrame
<1>5. CASE (\E v \in 1..Current : Age(v)) \/ (\E k \in Keys : Revoke(k))
  BY <1>a, <1>5, EnvFrame
<1>6. CASE UNCHANGED vars
  BY <1>a, <1>6 DEF vars
<1> QED
  BY <1>1, <1>2, <1>3, <1>4, <1>5, <1>6 DEF Next

\* With Postgres no two visible messages have the same nonce, however many
\* calls insert it at once and whichever of them are rolled back
\* (UNIQUE (object_id, nonce)); the in-memory path of Publish has no such check.
THEOREM NonceUniqueHolds ==
  ASSUME Backend = "postgres" PROVE Spec => []NonceUnique
<1>1. Init => NonceInv
  <2> SUFFICES ASSUME Init PROVE NonceInv
    OBVIOUS
  <2>1. DOMAIN messages = {} /\ \A p \in Publishers : ppc[p] = "start"
    BY SMT DEF Init
  <2> QED
    BY <2>1 DEF NonceInv
<1>2. PublishInv /\ NonceInv => NonceUnique
  <2> SUFFICES ASSUME PublishInv, NonceInv PROVE NonceUnique
    OBVIOUS
  <2>1. \A i \in SeenMessages : i \in DOMAIN messages /\ Standing(messages[i].by)
    <3> SUFFICES ASSUME NEW i \in SeenMessages
                 PROVE  i \in DOMAIN messages /\ Standing(messages[i].by)
      OBVIOUS
    <3>1. i \in DOMAIN messages /\ messages[i].by \in committed \cap Publishers
      BY RowAuthor DEF SeenMessages, PublishInv
    <3> QED
      BY <3>1 DEF PublishInv, CallOK, Standing
  <2> QED
    BY <2>1 DEF NonceInv, NonceUnique
<1>3. PublishInv /\ NonceInv /\ [Next]_vars => NonceInv'
  BY NonceStep
<1> QED
  BY <1>1, <1>2, <1>3, PolicyInvariance, PublishInvInit, PublishInvStep, PTL DEF Spec

-----------------------------------------------------------------------------
(* Types *)

\* What Publish holds once it has begun, and the rows it has inserted.
PublishTyped ==
  /\ \A p \in Publishers : ppc[p] \in Checked \cup {"policy"} =>
       pin[p].key \in Keys /\ pin[p].nonce \in Nonces
  /\ messages \in Seq(MsgRow)
  /\ \A p \in Publishers : ppc[p] = "event" =>
       \E i \in DOMAIN messages : messages[i].by = p

Attesting == {"policy", "message", "memory", "update", "wait", "insert", "event",
              "commit"}

\* What Attest holds once it has begun, and the rows it has inserted.
AttestTyped ==
  /\ apc \in [Attesters -> Attesting \cup {"start", "ok", "refused", "aborted"}]
  /\ DOMAIN ain = Attesters /\ DOMAIN asnap = Attesters
  /\ \A a \in Attesters : apc[a] \in Attesting =>
       /\ ain[a].key \in Keys /\ ain[a].status \in Status
       /\ ain[a].msg \in DOMAIN messages
  /\ attests \in Seq(AttRow)

\* Events refer to messages.
EventsTyped ==
  /\ events \in Seq(EvRow)
  /\ \A e \in DOMAIN events : events[e].msg \in DOMAIN messages
  /\ committed \subseteq Publishers \cup Attesters

\* The subscription and the calls of Consume stay within the tables.
ConsumeTyped ==
  /\ sublast \in 0..Len(events) /\ delivered \subseteq DOMAIN messages
  /\ mu \in Consumers \cup {NoCall}
  /\ clast \in [Consumers -> 0..Len(events)] /\ cseen \in [Consumers -> 0..Len(events)]
  /\ cevs \in [Consumers -> SUBSET DOMAIN events]
  /\ cout \in [Consumers -> SUBSET DOMAIN messages]

TypeInv == /\ PublishTyped /\ AttestTyped /\ EventsTyped /\ ConsumeTyped
           /\ aged \subseteq 1..Current

\* Rows that are appended come after the others.
LEMMA Appended ==
  ASSUME NEW S, NEW seq \in Seq(S), NEW x
  PROVE  /\ DOMAIN Append(seq, x) = DOMAIN seq \cup {Len(seq) + 1}
         /\ Len(seq) \in Nat /\ DOMAIN seq = 1 .. Len(seq)
         /\ Len(seq) + 1 \notin DOMAIN seq /\ Len(Append(seq, x)) = Len(seq) + 1
         /\ Append(seq, x)[Len(seq) + 1] = x
         /\ \A i \in DOMAIN seq : Append(seq, x)[i] = seq[i]
         /\ x \in S => Append(seq, x) \in Seq(S)
<1>1. /\ DOMAIN seq = 1 .. Len(seq) /\ Len(seq) \in Nat
      /\ DOMAIN Append(seq, x) = 1 .. Len(seq) + 1
      /\ Len(Append(seq, x)) = Len(seq) + 1
      /\ Append(seq, x)[Len(seq) + 1] = x
      /\ \A i \in 1 .. Len(seq) : Append(seq, x)[i] = seq[i]
  BY SMT
<1>2. \A n \in Nat : 1 .. n + 1 = (1 .. n) \cup {n + 1} /\ n + 1 \notin 1 .. n
  BY SMT
<1>3. x \in S => Append(seq, x) \in Seq(S)
  BY SMT
<1> QED
  BY <1>1, <1>2, <1>3

\* A step of Publish keeps its types: the inputs are kept until the call ends,
\* and the row is made of them.
LEMMA PublishTypedStep ==
  ASSUME PublishInv, PublishTyped, NEW p \in Publishers, PublishStep(p) \/ PublishAbort(p)
  PROVE  PublishTyped'
<1>0. /\ ppc \in [Publishers -> Checked \cup {"start", "policy", "refused", "aborted"}]
      /\ DOMAIN pin = Publishers /\ messages \in Seq(MsgRow)
      /\ pin[p].prev \in Publishers \cup {NoCall} /\ pin[p].ver \in Nat
  BY DEF PublishInv, PublishType, PublishTyped
<1>a. ASSUME NEW label \in Checked \cup {"policy"}, PublishGoto(p, label),
             label # "event", UNCHANGED messages,
             \/ UNCHANGED pin /\ ppc[p] \in Checked \cup {"policy"}
             \/ \E in \in PublishInput : pin' = [pin EXCEPT ![p] = in]
      PROVE  PublishTyped'
  <2>1. ppc'[p] = label /\ \A q \in Publishers \ {p} : ppc'[q] = ppc[q]
    BY <1>0, <1>a DEF PublishGoto
  <2>2. pin'[p].key \in Keys /\ pin'[p].nonce \in Nonces
    BY <1>0, <1>a DEF PublishTyped, PublishInput
  <2>3. \A q \in Publishers \ {p} : pin'[q] = pin[q]
    BY <1>0, <1>a
  <2> QED
    BY SMT, <1>a, <2>1, <2>2, <2>3 DEF PublishTyped
<1>b. ASSUME NEW how \in {"refused", "aborted"}, PublishEnds(p, how), UNCHANGED messages
      PROVE  PublishTyped'
  <2>1. /\ ppc'[p] = how
        /\ \A q \in Publishers \ {p} : ppc'[q] = ppc[q] /\ pin'[q] = pin[q]
    BY <1>0, <1>b DEF PublishEnds, PublishGoto
  <2> QED
    BY <1>b, <2>1 DEF PublishTyped, Checked
<1>c. ASSUME NEW label \in {"event", "ok"}, PublishGoto(p, label), UNCHANGED pin,
             ppc[p] \in Checked, messages' = Append(messages, MessageRow(p))
      PROVE  PublishTyped'
  <2>1. ppc'[p] = label /\ \A q \in Publishers \ {p} : ppc'[q] = ppc[q]
    BY <1>0, <1>c DEF PublishGoto
  <2>2. pin[p].key \in Keys /\ pin[p].nonce \in Nonces
    BY <1>c DEF PublishTyped
  <2>3. MessageRow(p) \in MsgRow /\ MessageRow(p).by = p
    BY <1>0, <2>2 DEF MessageRow, MsgRow
  <2>4. /\ messages' \in Seq(MsgRow) /\ DOMAIN messages \subseteq DOMAIN messages'
        /\ \A i \in DOMAIN messages : messages'[i] = messages[i]
        /\ \E i \in DOMAIN messages' : messages'[i].by = p
    BY SMT, <1>0, <1>c, <2>3, Appended
  <2> QED
    BY SMT, <1>c, <2>1, <2>2, <2>4 DEF PublishTyped
<1>1. CASE PublishKey(p)
  <2>1. \/ PublishEnds(p, "refused")
        \/ PublishGoto(p, "policy") /\ \E in \in PublishInput : pin' = [pin EXCEPT ![p] = in]
    BY <1>1 DEF PublishKey
  <2> QED
    BY <1>1, <1>a, <1>b, <2>1 DEF PublishKey, rowVars, Checked
<1>2. CASE PublishPolicy(p)
  <2>1. \/ PublishEnds(p, "refused")
        \/ /\ PublishGoto(p, "memory") \/ PublishGoto(p, "chain") \/ PublishGoto(p, "insert")
           /\ UNCHANGED pin
    BY <1>2 DEF PublishPolicy
  <2>2. ppc[p] = "policy" /\ UNCHANGED messages
    BY <1>2 DEF PublishPolicy, rowVars
  <2> QED
    BY <1>a, <1>b, <2>1, <2>2 DEF Checked
<1>3. CASE PublishMemory(p)
  <2>1. \/ PublishEnds(p, "refused") /\ UNCHANGED messages
        \/ /\ PublishGoto(p, "ok") /\ UNCHANGED pin
           /\ messages' = Append(messages, MessageRow(p))
    BY <1>3 DEF PublishMemory, rowVars
  <2>2. ppc[p] = "memory"
    BY <1>3 DEF PublishMemory
  <2> QED
    BY <1>b, <1>c, <2>1, <2>2 DEF Checked
<1>4. CASE PublishChain(p)
  BY <1>4, <1>a DEF PublishChain, rowVars, Checked
<1>5. CASE PublishLock(p)
  <2>1. PublishEnds(p, "refused") \/ (PublishGoto(p, "insert") /\ UNCHANGED pin)
    BY <1>5 DEF PublishLock
  <2>2. ppc[p] = "lock" /\ UNCHANGED messages
    BY <1>5 DEF PublishLock, rowVars
  <2> QED
    BY <1>a, <1>b, <2>1, <2>2 DEF Checked
<1>6. CASE PublishInsert(p)
  <2>1. \/ PublishEnds(p, "refused") /\ UNCHANGED messages
        \/ /\ PublishGoto(p, "event") /\ UNCHANGED pin
           /\ messages' = Append(messages, MessageRow(p))
    BY <1>6 DEF PublishInsert
  <2>2. ppc[p] = "insert"
    BY <1>6 DEF PublishInsert
  <2> QED
    BY <1>b, <1>c, <2>1, <2>2 DEF Checked
<1>7. CASE PublishEvent(p)
  BY <1>7, <1>a DEF PublishEvent, Checked
<1>8. CASE PublishCommit(p)
  BY <1>8, <1>a DEF PublishCommit, Checked
<1>9. CASE PublishAbort(p)
  BY <1>9, <1>b DEF PublishAbort, rowVars
<1> QED
  BY <1>1, <1>2, <1>3, <1>4, <1>5, <1>6, <1>7, <1>8, <1>9 DEF PublishStep

\* What a step of Publish can do to the tables.
LEMMA PublishRows ==
  ASSUME PublishTyped, NEW p \in Publishers, PublishStep(p) \/ PublishAbort(p)
  PROVE  /\ messages' = messages \/ messages' = Append(messages, MessageRow(p))
         /\ \/ events' = events
            \/ \E m \in DOMAIN messages' : events' = Append(events, [by |-> p, msg |-> m])
         /\ committed' = committed \/ committed' = committed \cup {p}
         /\ UNCHANGED attests
<1>1. CASE PublishEvent(p)
  <2>1. \E i \in DOMAIN messages : messages[i].by = p
    BY <1>1 DEF PublishEvent, PublishTyped
  <2>2. RowOf(p) \in DOMAIN messages
    BY <2>1 DEF RowOf
  <2> QED
    BY <1>1, <2>2 DEF PublishEvent
<1>2. CASE PublishMemory(p)
  <2>1. CASE UNCHANGED rowVars
    BY <2>1 DEF rowVars
  <2>2. CASE /\ messages' = Append(messages, MessageRow(p))
             /\ events' = Append(events, [by |-> p, msg |-> Len(messages) + 1])
             /\ committed' = committed \cup {p} /\ UNCHANGED attests
    <3>1. Len(messages) + 1 \in DOMAIN messages'
      BY SMT, <2>2, Appended DEF PublishTyped
    <3> QED
      BY <2>2, <3>1
  <2> QED
    BY <1>2, <2>1, <2>2 DEF PublishMemory
<1>3. CASE \/ PublishKey(p) \/ PublishPolicy(p) \/ PublishChain(p) \/ PublishLock(p)
           \/ PublishAbort(p)
  BY <1>3 DEF PublishKey, PublishPolicy, PublishChain, PublishLock, PublishAbort, rowVars
<1>4. CASE PublishInsert(p) \/ PublishCommit(p)
  BY <1>4 DEF PublishInsert, PublishCommit
<1> QED
  BY <1>1, <1>2, <1>3, <1>4 DEF PublishStep

\* Marking rows superseded changes nothing else about them.
LEMMA SupersededRows ==
  ASSUME attests \in Seq(AttRow), NEW S, NEW a \in Attesters
  PROVE  /\ Superseded(S, a) \in Seq(AttRow) /\ Len(Superseded(S, a)) = Len(attests)
         /\ DOMAIN Superseded(S, a) = DOMAIN attests
         /\ \A i \in DOMAIN attests :
              /\ Superseded(S, a)[i].by = attests[i].by
              /\ Superseded(S, a)[i].msg = attests[i].msg
              /\ Superseded(S, a)[i].key = attests[i].key
              /\ Superseded(S, a)[i].status = attests[i].status
              /\ Superseded(S, a)[i].sup = IF i \in S THEN a ELSE attests[i].sup
              /\ i \notin S => Superseded(S, a)[i] = attests[i]
<1> DEFINE new == Superseded(S, a)
<1>0. Len(attests) \in Nat /\ DOMAIN attests = 1 .. Len(attests)
  BY SMT
<1>1. new = [i \in 1 .. Len(attests) |->
               IF i \in S THEN [attests[i] EXCEPT !.sup = a] ELSE attests[i]]
  BY <1>0 DEF Superseded
<1>2. ASSUME NEW i \in 1 .. Len(attests)
      PROVE  /\ new[i] \in AttRow
             /\ new[i].by = attests[i].by /\ new[i].msg = attests[i].msg
             /\ new[i].key = attests[i].key /\ new[i].status = attests[i].status
             /\ new[i].sup = IF i \in S THEN a ELSE attests[i].sup
             /\ i \notin S => new[i] = attests[i]
  <2>1. attests[i] \in AttRow
    BY SMT
  <2>2. new[i] = IF i \in S THEN [attests[i] EXCEPT !.sup = a] ELSE attests[i]
    BY <1>1
  <2> HIDE DEF new
  <2> QED
    BY <2>1, <2>2 DEF AttRow
<1>3. new \in [1 .. Len(attests) -> AttRow]
  <2> HIDE DEF new
  <2> QED
    BY <1>1, <1>2
<1>4. new \in Seq(AttRow) /\ Len(new) = Len(attests)
  <2> HIDE DEF new
  <2> QED
    BY SMT, <1>0, <1>3
<1> QED
  BY <1>0, <1>1, <1>2, <1>4

\* A step of Attest keeps its types.
LEMMA AttestTypedStep ==
  ASSUME AttestTyped, messages \in Seq(MsgRow),
         NEW a \in Attesters, AttestStep(a) \/ AttestAbort(a)
  PROVE  AttestTyped'
<1>0. /\ apc \in [Attesters -> Attesting \cup {"start", "ok", "refused", "aborted"}]
      /\ DOMAIN ain = Attesters /\ DOMAIN asnap = Attesters
      /\ attests \in Seq(AttRow)
  BY DEF AttestTyped
<1>m. messages' = messages
  BY AttestFrame
<1>a. ASSUME NEW label \in Attesting, AttestGoto(a, label), DOMAIN asnap' = Attesters,
             attests' \in Seq(AttRow),
             \/ UNCHANGED ain /\ apc[a] \in Attesting
             \/ \E in \in AttestInput : ain' = [ain EXCEPT ![a] = in]
      PROVE  AttestTyped'
  <2>1. /\ apc' \in [Attesters -> Attesting \cup {"start", "ok", "refused", "aborted"}]
        /\ \A b \in Attesters \ {a} : apc'[b] = apc[b]
    BY <1>0, <1>a DEF AttestGoto
  <2>2. /\ DOMAIN ain' = Attesters /\ \A b \in Attesters \ {a} : ain'[b] = ain[b]
        /\ ain'[a].key \in Keys /\ ain'[a].status \in Status
        /\ ain'[a].msg \in DOMAIN messages
    BY <1>0, <1>a DEF AttestTyped, AttestInput
  <2> QED
    BY <1>a, <1>m, <2>1, <2>2 DEF AttestTyped
<1>b. ASSUME NEW how \in {"ok", "refused", "aborted"}, AttestEnds(a, how),
             attests' \in Seq(AttRow)
      PROVE  AttestTyped'
  <2>1. /\ apc' \in [Attesters -> Attesting \cup {"start", "ok", "refused", "aborted"}]
        /\ apc'[a] \notin Attesting
        /\ \A b \in Attesters \ {a} : apc'[b] = apc[b] /\ ain'[b] = ain[b]
        /\ DOMAIN ain' = Attesters /\ DOMAIN asnap' = Attesters
    BY <1>0, <1>b DEF AttestEnds, AttestGoto, Attesting
  <2> QED
    BY <1>b, <1>m, <2>1 DEF AttestTyped
<1>c. apc[a] \in Attesting => AttestRow(a) \in AttRow
  <2>1. apc[a] \in Attesting => ain[a].msg \in Nat
    BY SMT DEF AttestTyped
  <2> QED
    BY <2>1 DEF AttestTyped, AttestRow, AttRow
<1>1. CASE AttestKey(a)
  <2>1. \/ AttestEnds(a, "refused")
        \/ /\ AttestGoto(a, "policy") /\ UNCHANGED asnap
           /\ \E in \in AttestInput : ain' = [ain EXCEPT ![a] = in]
    BY <1>1 DEF AttestKey
  <2> QED
    BY <1>0, <1>1, <1>a, <1>b, <2>1 DEF AttestKey, rowVars, Attesting
<1>2. CASE AttestPolicy(a) \/ AttestMessage(a)
  <2>1. \/ AttestEnds(a, "refused")
        \/ /\ \/ AttestGoto(a, "message") \/ AttestGoto(a, "memory")
              \/ AttestGoto(a, "update")
           /\ UNCHANGED <<ain, asnap>>
    BY <1>2 DEF AttestPolicy, AttestMessage
  <2>2. apc[a] \in Attesting /\ UNCHANGED attests
    BY <1>2 DEF AttestPolicy, AttestMessage, rowVars, Attesting
  <2> QED
    BY <1>0, <1>a, <1>b, <2>1, <2>2 DEF Attesting
<1>3. CASE AttestMemory(a)
  <2>1. attests' \in Seq(AttRow)
    <3>1. AttestRow(a) \in AttRow
      BY <1>3, <1>c DEF AttestMemory, Attesting
    <3>2. PICK old : old = Superseded(LiveOf(ain[a].msg, ain[a].key), a)
      OBVIOUS
    <3>3. old \in Seq(AttRow)
      BY <1>0, <3>2, SupersededRows
    <3>4. attests' = Append(old, AttestRow(a))
      BY <1>3, <3>2 DEF AttestMemory
    <3> QED
      BY <3>1, <3>3, <3>4, Appended
  <2> QED
    BY <1>3, <1>b, <2>1 DEF AttestMemory
<1>4. CASE AttestUpdate(a)
  <2>1. /\ apc[a] = "update" /\ AttestGoto(a, "wait") /\ UNCHANGED <<ain, attests>>
        /\ DOMAIN asnap' = Attesters
    BY <1>0, <1>4 DEF AttestUpdate, rowVars
  <2> QED
    BY <1>0, <1>a, <2>1 DEF Attesting
<1>5. CASE AttestSupersede(a)
  <2>1. attests' \in Seq(AttRow)
    BY <1>0, <1>5, SupersededRows DEF AttestSupersede
  <2>2. apc[a] = "wait" /\ AttestGoto(a, "insert") /\ UNCHANGED <<ain, asnap>>
    BY <1>5 DEF AttestSupersede
  <2> QED
    BY <1>0, <1>a, <2>1, <2>2 DEF Attesting
<1>6. CASE AttestInsert(a)
  <2>1. apc[a] = "insert" /\ AttestGoto(a, "event") /\ UNCHANGED <<ain, asnap>>
    BY <1>6 DEF AttestInsert
  <2>2. attests' \in Seq(AttRow)
    BY <1>0, <1>6, <1>c, <2>1, Appended DEF AttestInsert, Attesting
  <2> QED
    BY <1>0, <1>a, <2>1, <2>2 DEF Attesting
<1>7. CASE AttestEvent(a)
  BY <1>0, <1>7, <1>a DEF AttestEvent, Attesting
<1>8. CASE AttestCommit(a) \/ AttestAbort(a)
  BY <1>0, <1>8, <1>b DEF AttestCommit, AttestAbort, rowVars
<1> QED
  BY <1>1, <1>2, <1>3, <1>4, <1>5, <1>6, <1>7, <1>8 DEF AttestStep

\* What a step of Attest can do to the tables.
LEMMA AttestRows ==
  ASSUME AttestTyped, NEW a \in Attesters, AttestStep(a) \/ AttestAbort(a)
  PROVE  /\ \/ events' = events
            \/ \E m \in DOMAIN messages : events' = Append(events, [by |-> a, msg |-> m])
         /\ committed' = committed \/ committed' = committed \cup {a}
<1>1. CASE AttestMemory(a) \/ AttestEvent(a)
  <2>1. ain[a].msg \in DOMAIN messages
    BY <1>1 DEF AttestMemory, AttestEvent, AttestTyped, Attesting
  <2> QED
    BY <1>1, <2>1 DEF AttestMemory, AttestEvent
<1>2. CASE \/ AttestKey(a) \/ AttestPolicy(a) \/ AttestMessage(a) \/ AttestUpdate(a)
           \/ AttestSupersede(a) \/ AttestInsert(a) \/ AttestCommit(a) \/ AttestAbort(a)
  BY <1>2 DEF AttestKey, AttestPolicy, AttestMessage, AttestUpdate, AttestSupersede,
              AttestInsert, AttestCommit, AttestAbort, rowVars
<1> QED
  BY <1>1, <1>2 DEF AttestStep

\* What any step can do to the tables.
LEMMA TablesStep ==
  ASSUME PublishTyped, AttestTyped, [Next]_vars
  PROVE  /\ \/ messages' = messages
            \/ \E p \in Publishers : messages' = Append(messages, MessageRow(p))
         /\ \/ events' = events
            \/ \E w \in Publishers \cup Attesters, m \in DOMAIN messages' :
                 events' = Append(events, [by |-> w, msg |-> m])
         /\ \/ committed' = committed
            \/ \E w \in Publishers \cup Attesters : committed' = committed \cup {w}
<1>1. CASE \E p \in Publishers : PublishStep(p) \/ PublishAbort(p)
  <2>1. PICK p \in Publishers : PublishStep(p) \/ PublishAbort(p)
    BY <1>1
  <2>2. /\ messages' = messages \/ messages' = Append(messages, MessageRow(p))
        /\ \/ events' = events
           \/ \E m \in DOMAIN messages' : events' = Append(events, [by |-> p, msg |-> m])
        /\ committed' = committed \/ committed' = committed \cup {p}
    BY <2>1, PublishRows
  <2> QED
    BY <2>2
<1>2. CASE \E a \in Attesters : AttestStep(a) \/ AttestAbort(a)
  <2>1. PICK a \in Attesters : AttestStep(a) \/ AttestAbort(a)
    BY <1>2
  <2>2. /\ \/ events' = events
           \/ \E m \in DOMAIN messages : events' = Append(events, [by |-> a, msg |-> m])
        /\ committed' = committed \/ committed' = committed \cup {a}
    BY <2>1, AttestRows
  <2>3. messages' = messages
    BY <2>1, AttestFrame
  <2> QED
    BY <2>2, <2>3
<1>3. CASE \/ \E u \in Putters : PutStep(u) \/ PutAbort(u)
           \/ \E c \in Consumers : ConsumeStep(c) \/ ConsumeAbort(c)
           \/ \E v \in 1..Current : Age(v)
           \/ \E k \in Keys : Revoke(k)
           \/ UNCHANGED vars
  <2>1. UNCHANGED <<messages, events, committed>>
    BY <1>3, PutFrame, ConsumeFrame, EnvFrame DEF vars
  <2> QED
    BY <2>1
<1> QED
  BY <1>1, <1>2, <1>3 DEF Next

\* The tables grow, and the rows in them stay.
LEMMA TablesGrow ==
  ASSUME PublishTyped, AttestTyped, EventsTyped, [Next]_vars
  PROVE  /\ DOMAIN messages \subseteq DOMAIN messages'
         /\ \A i \in DOMAIN messages : messages'[i] = messages[i]
         /\ DOMAIN events \subseteq DOMAIN events' /\ Len(events) <= Len(events')
         /\ Len(events) \in Nat /\ Len(events') \in Nat
         /\ \A e \in DOMAIN events : events'[e] = events[e]
         /\ EventsTyped'
<1>0. messages \in Seq(MsgRow) /\ events \in Seq(EvRow)
  BY DEF PublishTyped, EventsTyped
<1>1. /\ DOMAIN messages \subseteq DOMAIN messages'
      /\ \A i \in DOMAIN messages : messages'[i] = messages[i]
  <2>1. CASE messages' = messages
    BY <2>1
  <2>2. ASSUME NEW p \in Publishers, messages' = Append(messages, MessageRow(p))
        PROVE  /\ DOMAIN messages \subseteq DOMAIN messages'
               /\ \A i \in DOMAIN messages : messages'[i] = messages[i]
    BY SMT, <1>0, <2>2, Appended
  <2> QED
    BY <2>1, <2>2, TablesStep
<1>2. /\ DOMAIN events \subseteq DOMAIN events' /\ Len(events) <= Len(events')
      /\ Len(events) \in Nat /\ Len(events') \in Nat
      /\ \A e \in DOMAIN events : events'[e] = events[e]
      /\ events' \in Seq(EvRow)
      /\ \A e \in DOMAIN events' : events'[e].msg \in DOMAIN messages'
  <2>1. CASE events' = events
    BY SMT, <1>0, <1>1, <2>1 DEF EventsTyped
  <2>2. ASSUME NEW w \in Publishers \cup Attesters, NEW m \in DOMAIN messages',
               events' = Append(events, [by |-> w, msg |-> m])
        PROVE  /\ DOMAIN events \subseteq DOMAIN events' /\ Len(events) <= Len(events')
               /\ Len(events) \in Nat /\ Len(events') \in Nat
               /\ \A e \in DOMAIN events : events'[e] = events[e]
               /\ events' \in Seq(EvRow)
               /\ \A e \in DOMAIN events' : events'[e].msg \in DOMAIN messages'
    <3>1. PICK row : row = [by |-> w, msg |-> m]
      OBVIOUS
    <3>2. m \in Nat
      <4>1. messages' \in Seq(MsgRow) \/ \E x : messages' = Append(messages, x)
        BY <1>0, TablesStep
      <4>2. DOMAIN messages' \subseteq Nat
        BY SMT, <1>0, <4>1, Appended
      <4> QED
        BY <4>2
    <3>3. row \in EvRow /\ row.msg = m
      BY <3>1, <3>2 DEF EvRow
    <3>4. events' = Append(events, row)
      BY <2>2, <3>1
    <3>5. /\ DOMAIN events' = DOMAIN events \cup {Len(events) + 1}
          /\ Len(events) \in Nat /\ Len(events') = Len(events) + 1
          /\ events'[Len(events) + 1] = row
          /\ \A i \in DOMAIN events : events'[i] = events[i]
          /\ events' \in Seq(EvRow)
      BY SMT, <1>0, <3>3, <3>4, Appended
    <3>6. \A e \in DOMAIN events' : events'[e].msg \in DOMAIN messages'
      BY <1>1, <3>3, <3>5 DEF EventsTyped
    <3>7. Len(events) <= Len(events') /\ Len(events') \in Nat
      BY SMT, <3>5
    <3> QED
      BY <3>5, <3>6, <3>7
  <2> QED
    BY <2>1, <2>2, TablesStep
<1>3. committed' \subseteq Publishers \cup Attesters
  BY TablesStep DEF EventsTyped
<1> QED
  BY <1>1, <1>2, <1>3 DEF EventsTyped

\* A set of row numbers that is not empty has a greatest one: the rows are
\* counted, and the order of the numbers is well-founded.
LEMMA GreatestRow ==
  ASSUME NEW N \in Nat, NEW S \in SUBSET (1 .. N), S # {}
  PROVE  \E m \in S : \A n \in S : n <= m
<1> DEFINE R == OpToRel(<, Nat)
           Below == {N - n : n \in S}
<1>1. IsWellFoundedOn(R, Nat)
  BY NatLessThanWellFounded
<1>2. \A x, y \in Nat : x < y => <<x, y>> \in R
  BY DEF OpToRel
<1>0. \A n \in S : N - n \in Nat
  BY SMT
<1>3. Below \in SUBSET Nat /\ Below # {}
  BY <1>0
<1> HIDE DEF R
<1>4. PICK d \in Below : \A e \in Below : ~ (<<e, d>> \in R)
  <2> HIDE DEF Below
  <2> QED
    BY <1>1, <1>3, WFMin
<1>5. PICK m \in S : d = N - m
  BY <1>4
<1>6. ASSUME NEW n \in S PROVE n <= m
  <2>1. N - n \in Below /\ N - n \in Nat /\ d \in Nat
    BY <1>3, <1>4
  <2>2. ~(N - n < d)
    BY <1>2, <1>4, <2>1
  <2> QED
    BY SMT, <1>5, <2>1, <2>2
<1> QED
  BY <1>6

\* A page lies within the events, past the last one seen.
LEMMA PageRows ==
  ASSUME NEW last
  PROVE  \A e \in Page(last) : e \in SeenEvents /\ e > last
BY DEF Page

\* A step of Consume keeps its types.
LEMMA ConsumeTypedStep ==
  ASSUME ConsumeTyped, EventsTyped, NEW c \in Consumers, ConsumeStep(c) \/ ConsumeAbort(c)
  PROVE  ConsumeTyped'
<1>m. messages' = messages /\ events' = events
  BY ConsumeFrame
<1>n. Len(events) \in Nat /\ DOMAIN events = 1 .. Len(events)
  BY SMT DEF EventsTyped
<1>r. ASSUME ConsumeReturns(c)
      PROVE  /\ clast' \in [Consumers -> 0..Len(events)]
             /\ cseen' \in [Consumers -> 0..Len(events)]
             /\ cevs' \in [Consumers -> SUBSET DOMAIN events]
             /\ cout' \in [Consumers -> SUBSET DOMAIN messages]
  BY SMT, <1>n, <1>r DEF ConsumeReturns, ConsumeTyped
<1>1. CASE ConsumePolicy(c)
  BY <1>1, <1>m DEF ConsumePolicy, subVars, ConsumeTyped
<1>2. CASE ConsumeLast(c) \/ ConsumeLock(c)
  BY <1>2, <1>m DEF ConsumeLast, ConsumeLock, subVars, ConsumeTyped
<1>3. CASE ConsumeFetch(c)
  <2>1. PICK page : page = Page(clast[c])
    OBVIOUS
  <2>2. page \subseteq DOMAIN events
    BY <2>1, PageRows DEF SeenEvents
  <2>3. page # {} => (CHOOSE e \in page : \A f \in page : f <= e) \in DOMAIN events
    <3>1. page # {} => \E e \in page : \A f \in page : f <= e
      BY <1>n, <2>2, GreatestRow
    <3> QED
      BY <2>2, <3>1
  <2>4. /\ cevs' = [cevs EXCEPT ![c] = page]
        /\ cseen' = [cseen EXCEPT ![c] =
                       IF Backend = "memory" \/ page = {} THEN clast[c]
                       ELSE CHOOSE e \in page : \A f \in page : f <= e]
        /\ cout' = [cout EXCEPT ![c] = {}]
        /\ UNCHANGED <<clast, sublast, delivered, mu>>
    BY SMT, <1>3, <2>1 DEF ConsumeFetch, subVars
  <2>5. cseen' \in [Consumers -> 0..Len(events)]
    BY SMT, <1>n, <2>3, <2>4 DEF ConsumeTyped
  <2> QED
    BY <1>m, <2>2, <2>4, <2>5 DEF ConsumeTyped
<1>4. CASE ConsumeEvent(c)
  <2>1. PICK e \in cevs[c] :
          /\ cseen' = [cseen EXCEPT ![c] = IF Backend = "memory" THEN e ELSE @]
          /\ Skip(c, e) \/ Take(c, e)
    BY <1>4 DEF ConsumeEvent
  <2>2. e \in DOMAIN events /\ events[e].msg \in DOMAIN messages /\ cevs[c] \subseteq DOMAIN events
    BY DEF ConsumeTyped, EventsTyped
  <2>3. cseen' \in [Consumers -> 0..Len(events)]
    BY SMT, <1>n, <2>1, <2>2 DEF ConsumeTyped
  <2>4. /\ cevs' \in [Consumers -> SUBSET DOMAIN events]
        /\ cout' \in [Consumers -> SUBSET DOMAIN messages]
    <3>1. CASE Skip(c, e)
      BY <2>2, <3>1 DEF Skip, ConsumeTyped
    <3>2. CASE Take(c, e)
      <4>1. cevs'  = [cevs EXCEPT ![c] = {}] \/ cevs' = [cevs EXCEPT ![c] = @ \ {e}]
        BY <3>2 DEF Take
      <4>2. cout' = [cout EXCEPT ![c] = @ \cup {events[e].msg}]
        BY <3>2 DEF Take
      <4> QED
        BY <2>2, <4>1, <4>2 DEF ConsumeTyped
    <3> QED
      BY <2>1, <3>1, <3>2
  <2> QED
    BY <1>4, <1>m, <2>3, <2>4 DEF ConsumeEvent, subVars, ConsumeTyped
<1>5. CASE ConsumeEnd(c) \/ ConsumeAbort(c)
  <2>1. ConsumeReturns(c)
    BY <1>5 DEF ConsumeEnd, ConsumeAbort
  <2>2. sublast' \in 0..Len(events) /\ delivered' \subseteq DOMAIN messages
        /\ mu' \in Consumers \cup {NoCall}
    BY SMT, <1>5 DEF ConsumeEnd, ConsumeAbort, ConsumeTyped
  <2> QED
    BY <1>m, <1>r, <2>1, <2>2 DEF ConsumeTyped
<1> QED
  BY <1>1, <1>2, <1>3, <1>4, <1>5 DEF ConsumeStep

\* Every step keeps the types of the whole.
LEMMA TypeInvStep ==
  ASSUME PolicyInv, PublishInv, TypeInv, [Next]_vars
  PROVE  TypeInv'
<1>0. PublishTyped /\ AttestTyped /\ EventsTyped /\ ConsumeTyped /\ aged \subseteq 1..Current
  BY DEF TypeInv
<1>g. /\ DOMAIN messages \subseteq DOMAIN messages'
      /\ Len(events) <= Len(events') /\ Len(events) \in Nat /\ Len(events') \in Nat
      /\ DOMAIN events \subseteq DOMAIN events'
      /\ EventsTyped'
  BY <1>0, TablesGrow
<1>1. aged' \subseteq 1..Current'
  <2>1. /\ Len(policies) \in Nat /\ Len(policies') \in Nat
        /\ Len(policies) <= Len(policies')
    <3>1. CASE policies' = policies
      BY SMT, <3>1 DEF PolicyInv
    <3>2. ASSUME NEW doc \in Documents, policies' = Append(policies, doc)
          PROVE  /\ Len(policies) \in Nat /\ Len(policies') \in Nat
                 /\ Len(policies) <= Len(policies')
      BY SMT, <3>2, Appended DEF PolicyInv
    <3> QED
      BY <3>1, <3>2, PolicyInvStep
  <2>2. aged' = aged \/ \E v \in 1..Current : aged' = aged \cup {v}
    <3>1. CASE \/ \E u \in Putters : PutStep(u) \/ PutAbort(u)
               \/ \E p \in Publishers : PublishStep(p) \/ PublishAbort(p)
               \/ \E a \in Attesters : AttestStep(a) \/ AttestAbort(a)
               \/ \E c \in Consumers : ConsumeStep(c) \/ ConsumeAbort(c)
               \/ UNCHANGED vars
      BY <3>1, PutFrame, PublishFrame, AttestFrame, ConsumeFrame DEF vars
    <3>2. CASE (\E v \in 1..Current : Age(v)) \/ (\E k \in Keys : Revoke(k))
      BY <3>2 DEF Age, Revoke, polVars
    <3> QED
      BY <3>1, <3>2 DEF Next
  <2>3. \A x, y \in Nat : x <= y => 1 .. x \subseteq 1 .. y
    BY SMT
  <2> QED
    BY <1>0, <2>1, <2>2, <2>3 DEF Current
<1>2. PublishTyped'
  <2>1. CASE \E p \in Publishers : PublishStep(p) \/ PublishAbort(p)
    BY <1>0, <2>1, PublishTypedStep
  <2>2. CASE UNCHANGED <<ppc, pin, messages>>
    BY <1>0, <2>2 DEF PublishTyped
  <2>3. CASE \/ \E u \in Putters : PutStep(u) \/ PutAbort(u)
             \/ \E a \in Attesters : AttestStep(a) \/ AttestAbort(a)
             \/ \E c \in Consumers : ConsumeStep(c) \/ ConsumeAbort(c)
             \/ \E v \in 1..Current : Age(v)
             \/ \E k \in Keys : Revoke(k)
             \/ UNCHANGED vars
    BY <2>2, <2>3, PutFrame, AttestFrame, ConsumeFrame, EnvFrame DEF vars
  <2> QED
    BY <2>1, <2>3 DEF Next
<1>3. AttestTyped'
  <2>1. CASE \E a \in Attesters : AttestStep(a) \/ AttestAbort(a)
    BY <1>0, <2>1, AttestTypedStep DEF PublishTyped
  <2>2. CASE UNCHANGED <<apc, ain, asnap, attests>>
    BY <1>0, <1>g, <2>2 DEF AttestTyped
  <2>3. CASE \/ \E u \in Putters : PutStep(u) \/ PutAbort(u)
             \/ \E p \in Publishers : PublishStep(p) \/ PublishAbort(p)
             \/ \E c \in Consumers : ConsumeStep(c) \/ ConsumeAbort(c)
             \/ \E v \in 1..Current : Age(v)
             \/ \E k \in Keys : Revoke(k)
    <3>1. UNCHANGED <<apc, ain, asnap>>
      BY <2>3, PutFrame, PublishFrame, ConsumeFrame, EnvFrame
    <3>2. UNCHANGED attests
      BY <1>0, <2>3, PutFrame, ConsumeFrame, EnvFrame, PublishRows
    <3> QED
      BY <2>2, <3>1, <3>2
  <2>4. CASE UNCHANGED vars
    BY <2>2, <2>4 DEF vars
  <2> QED
    BY <2>1, <2>3, <2>4 DEF Next
<1>4. ConsumeTyped'
  <2>1. CASE \E c \in Consumers : ConsumeStep(c) \/ ConsumeAbort(c)
    BY <1>0, <2>1, ConsumeTypedStep
  <2>2. CASE UNCHANGED <<sublast, delivered, mu, clast, cseen, cevs, cout>>
    <3>1. 0 .. Len(events) \subseteq 0 .. Len(events')
      BY SMT, <1>g
    <3>2. sublast' \in 0..Len(events') /\ delivered' \subseteq DOMAIN messages'
      BY <1>0, <1>g, <2>2, <3>1 DEF ConsumeTyped
    <3>3. /\ clast' \in [Consumers -> 0..Len(events')]
          /\ cseen' \in [Consumers -> 0..Len(events')]
      BY <1>0, <2>2, <3>1 DEF ConsumeTyped
    <3>4. /\ cevs' \in [Consumers -> SUBSET DOMAIN events']
          /\ cout' \in [Consumers -> SUBSET DOMAIN messages']
      BY <1>0, <1>g, <2>2 DEF ConsumeTyped
    <3> QED
      BY <1>0, <2>2, <3>2, <3>3, <3>4 DEF ConsumeTyped
  <2>3. CASE \/ \E u \in Putters : PutStep(u) \/ PutAbort(u)
             \/ \E p \in Publishers : PublishStep(p) \/ PublishAbort(p)
             \/ \E a \in Attesters : AttestStep(a) \/ AttestAbort(a)
             \/ \E v \in 1..Current : Age(v)
             \/ \E k \in Keys : Revoke(k)
             \/ UNCHANGED vars
    BY <2>2, <2>3, PutFrame, PublishFrame, AttestFrame, EnvFrame DEF vars
  <2> QED
    BY <2>1, <2>3 DEF Next
<1> QED
  BY <1>1, <1>2, <1>3, <1>4, <1>g DEF TypeInv

\* The types hold of the empty tables.
LEMMA TypeInvInit ==
  ASSUME Init PROVE TypeInv
<1>1. PublishTyped
  BY SMT DEF Init, PublishTyped, Checked
<1>2. AttestTyped
  BY SMT DEF Init, AttestTyped, Attesting
<1>3. EventsTyped /\ ConsumeTyped /\ aged \subseteq 1..Current
  BY SMT DEF Init, EventsTyped, ConsumeTyped
<1> QED
  BY <1>1, <1>2, <1>3 DEF TypeInv

\* What the rest rests on: the types, with what Publish and PutPolicy keep.
LEMMA TypeInvariance == Spec => []TypeInv
BY PolicyInvariance, PublishInvInit, PublishInvStep, TypeInvInit, TypeInvStep, PTL DEF Spec

\* The tables keep their types with either backend: every event leads to a
\* message that was inserted, and the cursor never passes the last event.
THEOREM TypeOKHolds == Spec => []TypeOK
<1>1. PolicyInv /\ PublishInv /\ TypeInv => TypeOK
  BY DEF PolicyInv, PublishInv, PublishType, TypeInv, PublishTyped, AttestTyped, EventsTyped,
         ConsumeTyped, TypeOK
<1> QED
  BY <1>1, PolicyInvariance, PublishInvInit, PublishInvStep, TypeInvariance, PTL DEF Spec

=============================================================================
