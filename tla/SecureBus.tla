----------------------------- MODULE SecureBus -----------------------------
(***************************************************************************)
(* One securebus topic (internal/securebus): signed policies, published     *)
(* messages, attestations, and the consumers that receive a message once    *)
(* its condition holds.                                                     *)
(*                                                                          *)
(* Calls interleave at their statements. With Backend = "postgres" a call   *)
(* is one READ COMMITTED transaction: its rows take their serial ids when   *)
(* they are inserted and are seen by others once it is in committed. With   *)
(* Backend = "memory" the part of a call under Service.mu is one step,      *)
(* except Consume, whose loop holds mu from step to step.                   *)
(***************************************************************************)
EXTENDS Integers, Sequences, FiniteSets

CONSTANTS Backend,     \* "memory" or "postgres"
          Keys,        \* agent keys
          Names,       \* agent names a policy may use
          Documents,   \* the valid policy documents owners put
          Nonces,
          Putters,     \* calls of PutPolicy
          Publishers,  \* calls of Publish, each with an envelope of its own
          Attesters,   \* calls of Attest
          Consumers,   \* callers that poll Consume under one consumer name
          Asks,        \* what they ask for: a condition's name, a filter, nothing
          MaxMsgs,     \* Consume's max
          PageFactor,  \* events fetched per message asked for (5 in the code)
          Allowed,     \* what a run lets happen besides correct calls
          NoName, NoCall

AllowedKinds == {"abort",   \* a transaction is rolled back half way
                 "age",     \* the grace period of a version passes
                 "revoke",  \* a key is revoked
                 "flaw"}    \* an envelope fails one of the checks

ASSUME BackendAssumption == Backend \in {"memory", "postgres"}
ASSUME BoundsAssumption == MaxMsgs \in Nat \ {0} /\ PageFactor \in Nat \ {0}
ASSUME AllowedAssumption == Allowed \subseteq AllowedKinds
ASSUME NamesAssumption == NoName \notin Names
ASSUME DocumentsAssumption == Documents # {}
ASSUME CallsAssumption ==
  /\ NoCall \notin Putters \cup Publishers \cup Attesters \cup Consumers
  /\ Publishers \cap Attesters = {}

VARIABLES
  policies,   \* the committed versions, in order
  aged,       \* versions older than the grace period
  revoked,    \* keys with revoked_at set
  messages, attests, events,  \* rows in the order of their serial ids
  committed,  \* the Publish and Attest calls whose transaction committed
  sublast,    \* last_event_id of the consumer
  delivered,  \* message ids in securebus_deliveries for the consumer
  returned,   \* how often each message id was returned by Consume
  mu,         \* who holds Service.mu, or the row of the subscription
  upc, udoc, uver,             \* PutPolicy
  ppc, pin, pbase, plast,      \* Publish
  apc, ain, abase, asnap,      \* Attest
  cpc, cdoc, ccond, clast, cevs, cseen, cout  \* Consume

polVars == <<policies, aged>>
rowVars == <<messages, attests, events, committed>>
subVars == <<sublast, delivered, returned, mu>>
uVars == <<upc, udoc, uver>>
pVars == <<ppc, pin, pbase, plast>>
aVars == <<apc, ain, abase, asnap>>
cVars == <<cpc, cdoc, ccond, clast, cevs, cseen, cout>>
vars == <<policies, aged, revoked, messages, attests, events,
          committed, sublast, delivered, returned, mu,
          upc, udoc, uver, ppc, pin, pbase, plast, apc, ain, abase, asnap,
          cpc, cdoc, ccond, clast, cevs, cseen, cout>>

-----------------------------------------------------------------------------
(* Policies *)

Current == Len(policies)

\* AgentNameForKey ranges over a Go map: any name of the key may come first.
AgentNamesForKey(doc, k) ==
  LET names == {n \in DOMAIN doc.agents : doc.agents[n] = k}
  IN IF names = {} THEN {NoName} ELSE names

MayPublish(doc, k) == \E n \in AgentNamesForKey(doc, k) : n \in doc.publish
MayAttest(doc, k) == \E n \in AgentNamesForKey(doc, k) : n \in doc.attest

acceptPolicyVersion_AnyOlder(want, hashOK) ==
  \/ want = Current /\ hashOK
  \/ want < Current /\ Current \notin aged

\* want is the version in the envelope; hashOK says whether its policyHash
\* is empty or the hash of that version.
acceptPolicyVersion(want, hashOK) ==
  \/ want = Current /\ hashOK
  \/ want = Current - 1 /\ Current \notin aged

\* currentPolicy, acceptPolicyVersion, loadPolicyVersion: versions never
\* change once committed, so the two reads act as one.
AcceptedPolicy(want, hashOK) ==
  /\ Current > 0
  /\ acceptPolicyVersion(want, hashOK)
  /\ want \in 1..Current

\* Key.BelongsToCaller; mine says whether the key's subject and token are the
\* caller's.
BelongsToCaller(k, mine) == mine /\ k \notin revoked

-----------------------------------------------------------------------------
(* What a statement sees *)

SeenMessages == {i \in DOMAIN messages : messages[i].by \in committed}
SeenEvents   == {e \in DOMAIN events : events[e].by \in committed}

\* The newest message (ORDER BY id DESC LIMIT 1), 0 when there is none.
LastMessage ==
  IF SeenMessages = {} THEN 0
  ELSE CHOOSE i \in SeenMessages : \A j \in SeenMessages : j <= i

\* The un-superseded attestations of message m.
Live(m) ==
  {i \in DOMAIN attests : /\ attests[i].msg = m
                          /\ attests[i].by \in committed
                          /\ attests[i].sup \notin committed}
LiveOf(m, k) == {i \in Live(m) : attests[i].key = k}

\* A call still holding its transaction.
OpenPublish(p) == ppc[p] \in {"insert", "event", "commit"}

-----------------------------------------------------------------------------
(* MatchCondition over a message and the latest status of each agent name *)

Status == {"ok", "deny"}
AllNames == Names \cup {NoName}

Namings(doc) ==
  {nm \in [Keys -> AllNames] :
     \A k \in Keys : nm[k] \in AgentNamesForKey(doc, k)}

Said(nm, m, n) ==
  LET S == {attests[i].status : i \in {i \in Live(m) : nm[attests[i].key] = n}}
  IN IF S = {} THEN {"none"} ELSE S

\* messageViewDB and messageViewLocked: the rows come in no particular order.
Views(doc, m) ==
  UNION {{[author |-> nm[messages[m].key], latest |-> f] :
            f \in {g \in [AllNames -> Status \cup {"none"}] :
                     \A n \in AllNames : g[n] \in Said(nm, m, n)}} :
         nm \in Namings(doc)}

MatchCondition(cond, view) ==
  LET okCount == Cardinality({n \in AllNames : view.latest[n] = "ok"})
      hasDeny == \E n \in AllNames : view.latest[n] = "deny"
  IN /\ cond.authors = {} \/ view.author \in cond.authors
     /\ \/ cond.anyDeny = "yes" /\ hasDeny
        \/ /\ cond.anyDeny = "no" => ~hasDeny
           /\ cond.anyDeny # "yes"
           /\ \A r \in cond.require : view.latest[r.agent] = r.status
           /\ okCount >= cond.minOk

OnPublish == [authors |-> {}, require |-> {}, minOk |-> 0, anyDeny |-> "unset"]

\* ErrUnknownCondition.
Resolvable(doc, ask) == ask.by = "name" => ask.name \in DOMAIN doc.conditions

ResolveCondition(doc, ask) == CASE ask.by = "name"   -> doc.conditions[ask.name]
                                [] ask.by = "filter" -> ask.filter
                                [] OTHER             -> OnPublish

\* MinOk is a Go int.
ASSUME ConditionsAssumption ==
  \A doc \in Documents, ask \in Asks :
    Resolvable(doc, ask) => ResolveCondition(doc, ask).minOk \in Int

-----------------------------------------------------------------------------
(* PutPolicy: the keys of the agents, then the next version. *)

\* The table with the row (v, doc).
WithVersion(v, doc) ==
  [w \in DOMAIN policies \cup {v} |-> IF w = v THEN doc ELSE policies[w]]

PutCheckKeys(u) ==
  /\ upc[u] = "start"
  /\ \E doc \in Documents :
       /\ udoc' = [udoc EXCEPT ![u] = doc]
       /\ upc' = [upc EXCEPT ![u] =
                    IF {doc.agents[n] : n \in DOMAIN doc.agents} \cap revoked = {}
                      THEN "version" ELSE "refused"]
  /\ UNCHANGED <<polVars, revoked, rowVars, subVars, uver, pVars, aVars, cVars>>

\* The in-memory path: read, sign and append under mu.
PutMemory(u) ==
  /\ Backend = "memory" /\ mu = NoCall
  /\ upc[u] = "version"
  /\ policies' = WithVersion(Current + 1, udoc[u])
  /\ uver' = [uver EXCEPT ![u] = Current + 1]
  /\ upc' = [upc EXCEPT ![u] = "ok"]
  /\ UNCHANGED <<aged, revoked, rowVars, subVars, udoc, pVars, aVars, cVars>>

\* SELECT MAX(version).
PutReadMax(u) ==
  /\ Backend = "postgres"
  /\ upc[u] = "version"
  /\ uver' = [uver EXCEPT ![u] = Current + 1]
  /\ upc' = [upc EXCEPT ![u] = "insert"]
  /\ UNCHANGED <<polVars, revoked, rowVars, subVars, udoc, pVars, aVars, cVars>>

PutInsert_Upsert(u) ==
  /\ upc[u] = "insert"
  /\ \A v \in Putters : ~(upc[v] = "commit" /\ uver[v] = uver[u])
  /\ upc' = [upc EXCEPT ![u] = "commit"]
  /\ UNCHANGED <<polVars, revoked, rowVars, subVars, udoc, uver,
                 pVars, aVars, cVars>>

\* INSERT under the key (object_id, version): it waits for an open insert of
\* the same version and fails on a committed one.
PutInsert(u) ==
  /\ upc[u] = "insert"
  /\ \A v \in Putters : ~(upc[v] = "commit" /\ uver[v] = uver[u])
  /\ upc' = [upc EXCEPT ![u] = IF uver[u] \in 1..Current THEN "refused"
                                                         ELSE "commit"]
  /\ UNCHANGED <<polVars, revoked, rowVars, subVars, udoc, uver,
                 pVars, aVars, cVars>>

\* Commit.  The UPDATE of policyVersion in the object's config is left out:
\* nothing reads that copy, and a PATCH of the object may overwrite it.
PutCommit(u) ==
  /\ upc[u] = "commit"
  /\ policies' = WithVersion(uver[u], udoc[u])
  /\ upc' = [upc EXCEPT ![u] = "ok"]
  /\ UNCHANGED <<aged, revoked, rowVars, subVars, udoc, uver,
                 pVars, aVars, cVars>>

PutAbort(u) ==
  /\ "abort" \in Allowed
  /\ upc[u] \in {"insert", "commit"}
  /\ upc' = [upc EXCEPT ![u] = "aborted"]
  /\ UNCHANGED <<polVars, revoked, rowVars, subVars, udoc, uver,
                 pVars, aVars, cVars>>

\* The grace period of version v passes.
Age(v) ==
  /\ "age" \in Allowed
  /\ v \in (1..Current) \ aged
  /\ aged' = aged \cup {v}
  /\ UNCHANGED <<policies, revoked, rowVars, subVars, uVars,
                 pVars, aVars, cVars>>

\* agentkeys.Store.Revoke by the owner of the key.
Revoke(k) ==
  /\ "revoke" \in Allowed
  /\ k \notin revoked
  /\ revoked' = revoked \cup {k}
  /\ UNCHANGED <<polVars, rowVars, subVars, uVars, pVars, aVars, cVars>>

-----------------------------------------------------------------------------
(* Publish. The hash of an envelope is named by the call that brings it.    *)

NoPublish == [key |-> NoCall, ver |-> 0, nonce |-> NoCall, prev |-> NoCall,
              flaw |-> "none"]
NoBase == [ver |-> 0, revoked |-> {}, seen |-> {}]

Flaws(kinds) == {"none"} \cup IF "flaw" \in Allowed THEN kinds ELSE {}

Hashes == {messages[i].by : i \in SeenMessages}

\* prevHash is the hash of a visible message, or another one (NoCall); flaw is
\* what is wrong with the envelope, if anything.
PublishInput ==
  [key : Keys, ver : 0..Current, nonce : Nonces, prev : Hashes \cup {NoCall},
   flaw : Flaws({"owner", "hash", "signature"})]

PublishGoto(p, label) == ppc' = [ppc EXCEPT ![p] = label]

\* The call returns with an error: nothing of it is left.
PublishEnds(p, how) ==
  /\ PublishGoto(p, how)
  /\ pin' = [pin EXCEPT ![p] = NoPublish]
  /\ pbase' = [pbase EXCEPT ![p] = NoBase]
  /\ plast' = [plast EXCEPT ![p] = 0]

MessageRow(p) == [by |-> p, key |-> pin[p].key, ver |-> pin[p].ver,
                  nonce |-> pin[p].nonce, prev |-> pin[p].prev]

\* keys.Get and BelongsToCaller; pbase records what held when the call began.
PublishKey(p) ==
  /\ ppc[p] = "start"
  /\ \E in \in PublishInput :
       IF BelongsToCaller(in.key, in.flaw # "owner")
         THEN /\ PublishGoto(p, "policy")
              /\ pin' = [pin EXCEPT ![p] = in]
              /\ pbase' = [pbase EXCEPT
                             ![p] = [ver |-> Current, revoked |-> revoked,
                                     seen |-> Hashes]]
              /\ UNCHANGED plast
         ELSE PublishEnds(p, "refused")
  /\ UNCHANGED <<polVars, revoked, rowVars, subVars, uVars, aVars, cVars>>

\* The policy, the author's right and the signature.
PublishPolicy(p) ==
  /\ ppc[p] = "policy"
  /\ IF AcceptedPolicy(pin[p].ver, pin[p].flaw # "hash")
       THEN LET doc == policies[pin[p].ver] IN
            \E name \in AgentNamesForKey(doc, pin[p].key) :
              IF name \in doc.publish /\ pin[p].flaw # "signature"
                THEN /\ PublishGoto(p, IF Backend = "memory" THEN "memory"
                                       ELSE IF doc.chain THEN "chain"
                                       ELSE "insert")
                     /\ UNCHANGED <<pin, pbase, plast>>
                ELSE PublishEnds(p, "refused")
       ELSE PublishEnds(p, "refused")
  /\ UNCHANGED <<polVars, revoked, rowVars, subVars, uVars, aVars, cVars>>

ChainOK_Optional(p, last) ==
  last = 0 \/ pin[p].prev \in {NoCall, messages[last].by}

\* prevHash names the newest message, if there is one.
ChainOK(p, last) == last = 0 \/ pin[p].prev = messages[last].by

PublishMemory_EventId(p) ==
  /\ ppc[p] = "memory" /\ mu = NoCall
  /\ IF policies[pin[p].ver].chain /\ ~ChainOK(p, LastMessage)
       THEN PublishEnds(p, "refused") /\ UNCHANGED rowVars
       ELSE /\ messages' = Append(messages, MessageRow(p))
            /\ events' = Append(events, [by |-> p, msg |-> Len(events) + 1])
            /\ committed' = committed \cup {p}
            /\ plast' = [plast EXCEPT ![p] = LastMessage]
            /\ PublishGoto(p, "ok")
            /\ UNCHANGED <<attests, pin, pbase>>
  /\ UNCHANGED <<polVars, revoked, subVars, uVars, aVars, cVars>>

\* The in-memory path: chain check, message and event under mu.
PublishMemory(p) ==
  /\ ppc[p] = "memory" /\ mu = NoCall
  /\ IF policies[pin[p].ver].chain /\ ~ChainOK(p, LastMessage)
       THEN PublishEnds(p, "refused") /\ UNCHANGED rowVars
       ELSE /\ messages' = Append(messages, MessageRow(p))
            /\ events' = Append(events, [by |-> p, msg |-> Len(messages) + 1])
            /\ committed' = committed \cup {p}
            /\ plast' = [plast EXCEPT ![p] = LastMessage]
            /\ PublishGoto(p, "ok")
            /\ UNCHANGED <<attests, pin, pbase>>
  /\ UNCHANGED <<polVars, revoked, subVars, uVars, aVars, cVars>>

\* SELECT ... ORDER BY id DESC LIMIT 1 FOR UPDATE picks its row from the
\* statement's snapshot, then waits for the row's lock. Nobody updates a
\* message, so the row it returns is the one it picked.
PublishChain(p) ==
  /\ ppc[p] = "chain"
  /\ plast' = [plast EXCEPT ![p] = LastMessage]
  /\ PublishGoto(p, "lock")
  /\ UNCHANGED <<polVars, revoked, rowVars, subVars, uVars, pin, pbase,
                 aVars, cVars>>

PublishLock(p) ==
  /\ ppc[p] = "lock"
  /\ plast[p] # 0 =>
       \A q \in Publishers : ~(OpenPublish(q) /\ plast[q] = plast[p])
  /\ IF ChainOK(p, plast[p])
       THEN PublishGoto(p, "insert") /\ UNCHANGED <<pin, pbase, plast>>
       ELSE PublishEnds(p, "refused")
  /\ UNCHANGED <<polVars, revoked, rowVars, subVars, uVars, aVars, cVars>>

PublishInsert_NoWait(p) ==
  /\ ppc[p] = "insert"
  /\ IF \E i \in SeenMessages : messages[i].nonce = pin[p].nonce
       THEN PublishEnds(p, "refused") /\ UNCHANGED messages
       ELSE /\ messages' = Append(messages, MessageRow(p))
            /\ PublishGoto(p, "event")
            /\ UNCHANGED <<pin, pbase, plast>>
  /\ UNCHANGED <<polVars, revoked, attests, events, committed, subVars, uVars,
                 aVars, cVars>>

\* INSERT under UNIQUE (object_id, nonce): it waits for an open insert of the
\* same nonce and fails on a committed one.
PublishInsert(p) ==
  /\ ppc[p] = "insert"
  /\ \A q \in Publishers : ppc[q] \in {"event", "commit"}
                             => pin[q].nonce # pin[p].nonce
  /\ IF \E i \in SeenMessages : messages[i].nonce = pin[p].nonce
       THEN PublishEnds(p, "refused") /\ UNCHANGED messages
       ELSE /\ messages' = Append(messages, MessageRow(p))
            /\ PublishGoto(p, "event")
            /\ UNCHANGED <<pin, pbase, plast>>
  /\ UNCHANGED <<polVars, revoked, attests, events, committed, subVars, uVars,
                 aVars, cVars>>

RowOf(p) == CHOOSE i \in DOMAIN messages : messages[i].by = p

PublishEvent(p) ==
  /\ ppc[p] = "event"
  /\ events' = Append(events, [by |-> p, msg |-> RowOf(p)])
  /\ PublishGoto(p, "commit")
  /\ UNCHANGED <<polVars, revoked, messages, attests, committed, subVars, uVars,
                 pin, pbase, plast, aVars, cVars>>

PublishCommit(p) ==
  /\ ppc[p] = "commit"
  /\ committed' = committed \cup {p}
  /\ PublishGoto(p, "ok")
  /\ UNCHANGED <<polVars, revoked, messages, attests, events, subVars, uVars,
                 pin, pbase, plast, aVars, cVars>>

PublishAbort(p) ==
  /\ "abort" \in Allowed
  /\ OpenPublish(p)
  /\ PublishEnds(p, "aborted")
  /\ UNCHANGED <<polVars, revoked, rowVars, subVars, uVars, aVars, cVars>>

-----------------------------------------------------------------------------
(* Attest *)

NoAttest == [key |-> NoCall, ver |-> 0, msg |-> 0, status |-> "ok",
             flaw |-> "none"]

\* "form": a status other than ok or deny, or a comment over the limit.
AttestInput ==
  [key : Keys, ver : 0..Current, msg : DOMAIN messages, status : Status,
   flaw : Flaws({"owner", "form", "signature"})]

AttestGoto(a, label) == apc' = [apc EXCEPT ![a] = label]

\* The call returns: nothing of it is left but its rows, and abase.
AttestEnds(a, how) ==
  /\ AttestGoto(a, how)
  /\ ain' = [ain EXCEPT ![a] = NoAttest]
  /\ asnap' = [asnap EXCEPT ![a] = {}]
  /\ abase' = IF how = "ok" THEN abase ELSE [abase EXCEPT ![a] = {}]

AttestRow(a) == [by |-> a, key |-> ain[a].key, msg |-> ain[a].msg,
                 status |-> ain[a].status, sup |-> NoCall]

\* abase records whose attestations were visible when the call began.
AttestKey(a) ==
  /\ apc[a] = "start"
  /\ \E in \in AttestInput :
       IF BelongsToCaller(in.key, in.flaw # "owner")
         THEN /\ AttestGoto(a, "policy")
              /\ ain' = [ain EXCEPT ![a] = in]
              /\ abase' = [abase EXCEPT ![a] = committed \cap Attesters]
              /\ UNCHANGED asnap
         ELSE AttestEnds(a, "refused")
  /\ UNCHANGED <<polVars, revoked, rowVars, subVars, uVars, pVars, cVars>>

AttestPolicy_AnyAgent(a) ==
  /\ apc[a] = "policy"
  /\ IF AcceptedPolicy(ain[a].ver, TRUE) /\ ain[a].flaw # "form"
       THEN AttestGoto(a, "message") /\ UNCHANGED <<ain, abase, asnap>>
       ELSE AttestEnds(a, "refused")
  /\ UNCHANGED <<polVars, revoked, rowVars, subVars, uVars, pVars, cVars>>

\* acceptPolicyVersion is called with an empty hash.
AttestPolicy(a) ==
  /\ apc[a] = "policy"
  /\ IF AcceptedPolicy(ain[a].ver, TRUE)
       THEN LET doc == policies[ain[a].ver] IN
            \E name \in AgentNamesForKey(doc, ain[a].key) :
              IF name \in doc.attest /\ ain[a].flaw # "form"
                THEN AttestGoto(a, "message") /\ UNCHANGED <<ain, abase, asnap>>
                ELSE AttestEnds(a, "refused")
       ELSE AttestEnds(a, "refused")
  /\ UNCHANGED <<polVars, revoked, rowVars, subVars, uVars, pVars, cVars>>

\* getMessage, and the signature over its hash.
AttestMessage(a) ==
  /\ apc[a] = "message"
  /\ IF ain[a].msg \in SeenMessages /\ ain[a].flaw # "signature"
       THEN /\ AttestGoto(a, IF Backend = "memory" THEN "memory" ELSE "update")
            /\ UNCHANGED <<ain, abase, asnap>>
       ELSE AttestEnds(a, "refused")
  /\ UNCHANGED <<polVars, revoked, rowVars, subVars, uVars, pVars, cVars>>

\* Marks the rows of S superseded by call a.
Superseded(S, a) ==
  [i \in DOMAIN attests |->
     IF i \in S THEN [attests[i] EXCEPT !.sup = a] ELSE attests[i]]

AttestMemory_NoEvent(a) ==
  /\ apc[a] = "memory" /\ mu = NoCall
  /\ attests' = Append(Superseded(LiveOf(ain[a].msg, ain[a].key), a),
                       AttestRow(a))
  /\ committed' = committed \cup {a}
  /\ AttestEnds(a, "ok")
  /\ UNCHANGED <<polVars, revoked, messages, events, subVars, uVars, pVars,
                 cVars>>

AttestMemory(a) ==
  /\ apc[a] = "memory" /\ mu = NoCall
  /\ attests' = Append(Superseded(LiveOf(ain[a].msg, ain[a].key), a),
                       AttestRow(a))
  /\ events' = Append(events, [by |-> a, msg |-> ain[a].msg])
  /\ committed' = committed \cup {a}
  /\ AttestEnds(a, "ok")
  /\ UNCHANGED <<polVars, revoked, messages, subVars, uVars, pVars, cVars>>

AttestUpdate_SameStatus(a) ==
  /\ apc[a] = "update"
  /\ asnap' = [asnap EXCEPT ![a] = {i \in LiveOf(ain[a].msg, ain[a].key) :
                                      attests[i].status = ain[a].status}]
  /\ AttestGoto(a, "wait")
  /\ UNCHANGED <<polVars, revoked, rowVars, subVars, uVars, pVars, ain, abase,
                 cVars>>

\* UPDATE ... SET superseded_at: the rows of its snapshot, then their locks.
\* A row another call superseded meanwhile no longer satisfies the WHERE.
AttestUpdate(a) ==
  /\ apc[a] = "update"
  /\ asnap' = [asnap EXCEPT ![a] = LiveOf(ain[a].msg, ain[a].key)]
  /\ AttestGoto(a, "wait")
  /\ UNCHANGED <<polVars, revoked, rowVars, subVars, uVars, pVars, ain, abase, cVars>>

AttestSupersede(a) ==
  /\ apc[a] = "wait"
  /\ \A i \in asnap[a] : \A b \in Attesters :
       apc[b] \in {"insert", "event", "commit"} => attests[i].sup # b
  /\ attests' = Superseded(asnap[a] \cap LiveOf(ain[a].msg, ain[a].key), a)
  /\ AttestGoto(a, "insert")
  /\ UNCHANGED <<polVars, revoked, messages, events, committed, subVars,
                 uVars, pVars, ain, abase, asnap, cVars>>

AttestInsert(a) ==
  /\ apc[a] = "insert"
  /\ attests' = Append(attests, AttestRow(a))
  /\ AttestGoto(a, "event")
  /\ UNCHANGED <<polVars, revoked, messages, events, committed, subVars,
                 uVars, pVars, ain, abase, asnap, cVars>>

AttestEvent(a) ==
  /\ apc[a] = "event"
  /\ events' = Append(events, [by |-> a, msg |-> ain[a].msg])
  /\ AttestGoto(a, "commit")
  /\ UNCHANGED <<polVars, revoked, messages, attests, committed, subVars,
                 uVars, pVars, ain, abase, asnap, cVars>>

AttestCommit(a) ==
  /\ apc[a] = "commit"
  /\ committed' = committed \cup {a}
  /\ AttestEnds(a, "ok")
  /\ UNCHANGED <<polVars, revoked, messages, attests, events, subVars,
                 uVars, pVars, cVars>>

AttestAbort(a) ==
  /\ "abort" \in Allowed
  /\ apc[a] \in {"wait", "insert", "event", "commit"}
  /\ AttestEnds(a, "aborted")
  /\ UNCHANGED <<polVars, revoked, rowVars, subVars, uVars, pVars, cVars>>

-----------------------------------------------------------------------------
(* Consume, called again and again (Subscribe polls it) *)

ConsumeGoto(c, label) == cpc' = [cpc EXCEPT ![c] = label]

\* currentPolicy and ResolveCondition; without a policy, or with the name of a
\* condition it does not have, the call fails and changes nothing.
ConsumePolicy(c) ==
  /\ cpc[c] = "idle"
  /\ Current > 0
  /\ cdoc' = [cdoc EXCEPT ![c] = Current]
  /\ \E ask \in {a \in Asks : Resolvable(policies[Current], a)} :
       ccond' = [ccond EXCEPT ![c] = ResolveCondition(policies[Current], ask)]
  /\ ConsumeGoto(c, IF Backend = "memory" THEN "lock" ELSE "last")
  /\ UNCHANGED <<polVars, revoked, rowVars, subVars, uVars, pVars, aVars,
                 clast, cevs, cseen, cout>>

\* SELECT last_event_id, without a lock.
ConsumeLast(c) ==
  /\ cpc[c] = "last"
  /\ clast' = [clast EXCEPT ![c] = sublast]
  /\ ConsumeGoto(c, "lock")
  /\ UNCHANGED <<polVars, revoked, rowVars, subVars, uVars, pVars, aVars,
                 cdoc, ccond, cevs, cseen, cout>>

ConsumeLock_NoLock(c) ==
  /\ cpc[c] = "lock"
  /\ ConsumeGoto(c, "fetch")
  /\ UNCHANGED <<polVars, revoked, rowVars, subVars, uVars, pVars, aVars,
                 cdoc, ccond, clast, cevs, cseen, cout>>

\* mu.Lock, or the upsert of the subscription, which locks its row until the
\* transaction ends and keeps its last_event_id.
ConsumeLock(c) ==
  /\ cpc[c] = "lock"
  /\ mu = NoCall
  /\ mu' = c
  /\ clast' = IF Backend = "memory" THEN [clast EXCEPT ![c] = sublast]
                                    ELSE clast
  /\ ConsumeGoto(c, "fetch")
  /\ UNCHANGED <<polVars, revoked, rowVars, sublast, delivered, returned,
                 uVars, pVars, aVars, cdoc, ccond, cevs, cseen, cout>>

\* All later events, or a page of them (ORDER BY id LIMIT max*5).
Page(last) ==
  LET later == {e \in SeenEvents : e > last}
  IN IF Backend = "memory" THEN later
     ELSE {e \in later : Cardinality({f \in later : f < e})
                           < PageFactor * MaxMsgs}

\* maxSeen covers the whole page before any event of it is looked at.
ConsumeFetch(c) ==
  /\ cpc[c] = "fetch"
  /\ LET page == Page(clast[c]) IN
       /\ cevs' = [cevs EXCEPT ![c] = page]
       /\ cseen' = [cseen EXCEPT ![c] =
                      IF Backend = "memory" \/ page = {} THEN clast[c]
                      ELSE CHOOSE e \in page : \A f \in page : f <= e]
  /\ cout' = [cout EXCEPT ![c] = {}]
  /\ ConsumeGoto(c, "loop")
  /\ UNCHANGED <<polVars, revoked, rowVars, subVars, uVars, pVars, aVars,
                 cdoc, ccond, clast>>

\* The message of event e is passed over, or joins the result; the loop
\* breaks when the result has max messages.
Skip(c, e) ==
  /\ cout' = cout
  /\ cevs' = [cevs EXCEPT ![c] = @ \ {e}]

Take(c, e) ==
  /\ cout' = [cout EXCEPT ![c] = @ \cup {events[e].msg}]
  /\ cevs' = [cevs EXCEPT ![c] =
                IF Cardinality(cout[c]) + 1 >= MaxMsgs THEN {} ELSE @ \ {e}]

ConsumeEvent(c) ==
  /\ cpc[c] = "loop"
  /\ \E e \in cevs[c] :
       /\ \A f \in cevs[c] : e <= f
       /\ cseen' = [cseen EXCEPT ![c] = IF Backend = "memory" THEN e ELSE @]
       /\ IF events[e].msg \in delivered \cup cout[c]
            THEN Skip(c, e)
            ELSE \E view \in Views(policies[cdoc[c]], events[e].msg) :
                   IF MatchCondition(ccond[c], view)
                     THEN Take(c, e) ELSE Skip(c, e)
  /\ UNCHANGED <<polVars, revoked, rowVars, subVars, uVars, pVars, aVars,
                 cpc, cdoc, ccond, clast>>

\* What the call kept is gone when it returns.
ConsumeReturns(c) ==
  /\ ConsumeGoto(c, "idle")
  /\ cdoc' = [cdoc EXCEPT ![c] = 0]
  /\ ccond' = [ccond EXCEPT ![c] = OnPublish]
  /\ clast' = [clast EXCEPT ![c] = 0]
  /\ cevs' = [cevs EXCEPT ![c] = {}]
  /\ cseen' = [cseen EXCEPT ![c] = 0]
  /\ cout' = [cout EXCEPT ![c] = {}]

ConsumeEnd_NoCommit(c) ==
  /\ cpc[c] = "loop"
  /\ cevs[c] = {}
  /\ ConsumeReturns(c)
  /\ UNCHANGED <<polVars, revoked, rowVars, subVars, uVars, pVars, aVars>>

\* last_event_id, commit (or mu.Unlock), and the messages go to the caller.
ConsumeEnd(c) ==
  /\ cpc[c] = "loop"
  /\ cevs[c] = {}
  /\ sublast' = cseen[c]
  /\ delivered' = delivered \cup cout[c]
  /\ returned' = [m \in 1..Cardinality(Publishers) |->
                    returned[m] + IF m \in cout[c] THEN 1 ELSE 0]
  /\ mu' = NoCall
  /\ ConsumeReturns(c)
  /\ UNCHANGED <<polVars, revoked, rowVars, uVars, pVars, aVars>>

ConsumeAbort(c) ==
  /\ "abort" \in Allowed /\ Backend = "postgres"
  /\ cpc[c] \in {"last", "lock", "fetch", "loop"}
  /\ mu' = IF mu = c THEN NoCall ELSE mu
  /\ ConsumeReturns(c)
  /\ UNCHANGED <<polVars, revoked, rowVars, sublast, delivered, returned,
                 uVars, pVars, aVars>>

-----------------------------------------------------------------------------
Init ==
  /\ policies = <<>> /\ aged = {} /\ revoked = {}
  /\ messages = <<>> /\ attests = <<>> /\ events = <<>> /\ committed = {}
  /\ sublast = 0 /\ delivered = {} /\ mu = NoCall
  /\ returned = [m \in 1..Cardinality(Publishers) |-> 0]
  /\ upc = [u \in Putters |-> "start"]
  /\ udoc = [u \in Putters |-> CHOOSE doc \in Documents : TRUE]
  /\ uver = [u \in Putters |-> 0]
  /\ ppc = [p \in Publishers |-> "start"]
  /\ pin = [p \in Publishers |-> NoPublish]
  /\ pbase = [p \in Publishers |-> NoBase]
  /\ plast = [p \in Publishers |-> 0]
  /\ apc = [a \in Attesters |-> "start"]
  /\ ain = [a \in Attesters |-> NoAttest]
  /\ abase = [a \in Attesters |-> {}]
  /\ asnap = [a \in Attesters |-> {}]
  /\ cpc = [c \in Consumers |-> "idle"]
  /\ cdoc = [c \in Consumers |-> 0]
  /\ ccond = [c \in Consumers |-> OnPublish]
  /\ clast = [c \in Consumers |-> 0]
  /\ cevs = [c \in Consumers |-> {}]
  /\ cseen = [c \in Consumers |-> 0]
  /\ cout = [c \in Consumers |-> {}]

PutStep(u) == \/ PutCheckKeys(u) \/ PutMemory(u) \/ PutReadMax(u)
              \/ PutInsert(u) \/ PutCommit(u)

PublishStep(p) ==
  \/ PublishKey(p) \/ PublishPolicy(p) \/ PublishMemory(p) \/ PublishChain(p)
  \/ PublishLock(p) \/ PublishInsert(p) \/ PublishEvent(p)
  \/ PublishCommit(p)

AttestStep(a) ==
  \/ AttestKey(a) \/ AttestPolicy(a) \/ AttestMessage(a)
  \/ AttestMemory(a) \/ AttestUpdate(a) \/ AttestSupersede(a)
  \/ AttestInsert(a) \/ AttestEvent(a) \/ AttestCommit(a)

ConsumeStep(c) ==
  \/ ConsumePolicy(c) \/ ConsumeLast(c) \/ ConsumeLock(c) \/ ConsumeFetch(c)
  \/ ConsumeEvent(c) \/ ConsumeEnd(c)

Next ==
  \/ \E u \in Putters : PutStep(u) \/ PutAbort(u)
  \/ \E p \in Publishers : PublishStep(p) \/ PublishAbort(p)
  \/ \E a \in Attesters : AttestStep(a) \/ AttestAbort(a)
  \/ \E c \in Consumers : ConsumeStep(c) \/ ConsumeAbort(c)
  \/ \E v \in 1..Current : Age(v)
  \/ \E k \in Keys : Revoke(k)

Spec == Init /\ [][Next]_vars

\* Every call keeps being scheduled; mutexes and row locks are granted in
\* turn, so a call that waits for one again and again gets it.
FairSpec ==
  /\ Spec
  /\ \A u \in Putters : SF_vars(PutStep(u))
  /\ \A p \in Publishers : SF_vars(PublishStep(p))
  /\ \A a \in Attesters : SF_vars(AttestStep(a))
  /\ \A c \in Consumers : SF_vars(ConsumeStep(c))

-----------------------------------------------------------------------------
(* Properties *)

MsgRow == [by : Publishers, key : Keys, ver : Nat, nonce : Nonces,
           prev : Publishers \cup {NoCall}]
AttRow == [by : Attesters, key : Keys, msg : Nat, status : Status,
           sup : Attesters \cup {NoCall}]
EvRow  == [by : Publishers \cup Attesters, msg : Nat]

\* The tables, the cursor and the calls keep their types; in particular an
\* event never refers to a message that was not inserted.
TypeOK ==
  /\ policies \in Seq(Documents)
  /\ aged \subseteq 1..Current /\ revoked \subseteq Keys
  /\ messages \in Seq(MsgRow) /\ attests \in Seq(AttRow)
  /\ events \in Seq(EvRow)
  /\ \A e \in DOMAIN events : events[e].msg \in DOMAIN messages
  /\ committed \subseteq Publishers \cup Attesters
  /\ sublast \in 0..Len(events)
  /\ delivered \subseteq DOMAIN messages
  /\ mu \in Consumers \cup {NoCall}

\* PutPolicy never changes or drops a version that was committed, even when
\* several owners put at once and read the same MAX(version).
VersionsKept ==
  [][\A v \in 1..Current : v \in DOMAIN policies' /\ policies'[v] = policies[v]]_vars

\* Every visible message is allowed by the very version it names, that version
\* was no older than the one before the current one when its call began, and
\* its key was not revoked by then, whatever was put, aged or revoked while
\* the call ran (Publish, acceptPolicyVersion).
PublishedUnderPolicy ==
  \A i \in SeenMessages :
    LET row == messages[i] base == pbase[row.by] IN
      /\ row.ver \in 1..Current
      /\ MayPublish(policies[row.ver], row.key)
      /\ row.ver + 1 >= base.ver
      /\ row.key \notin base.revoked

\* No two visible messages of the topic have the same nonce
\* (UNIQUE (object_id, nonce)).
NonceUnique ==
  \A i, j \in SeenMessages : messages[i].nonce = messages[j].nonce => i = j

\* A message of a chain policy shares its predecessor with another one only
\* when their calls overlapped: a message that was visible when the call began
\* is never passed over (service.go:412, where the newest message of a
\* snapshot is locked after others may have followed it).
ForksOverlap ==
  \A i, j \in SeenMessages :
    /\ i # j /\ messages[i].prev = messages[j].prev
    /\ policies[messages[j].ver].chain
    => messages[i].by \notin pbase[messages[j].by].seen

\* Two attestations of a message by one key are both live only when their
\* calls overlapped: what was visible when a call began is superseded by it,
\* also when a call that was superseding it is rolled back (service.go:546).
LiveOverlap ==
  \A m \in SeenMessages, k \in Keys : \A i, j \in LiveOf(m, k) :
    i # j => attests[i].by \notin abase[attests[j].by]

\* What Consume is about to hand over under a condition that asks for
\* approval has been approved, in a transaction that committed and by an agent
\* whom some version of the policy lets attest, whatever was superseded,
\* revoked, replaced or rolled back meanwhile (consume.go:131).
ApprovalsReal ==
  \A c \in Consumers : ccond[c].minOk > 0 /\ ccond[c].anyDeny # "yes" =>
    \A m \in cout[c] : \E i \in DOMAIN attests :
      /\ attests[i].msg = m /\ attests[i].status = "ok"
      /\ attests[i].by \in committed
      /\ \E v \in 1..Current : MayAttest(policies[v], attests[i].key)

\* Consume hands each message to the consumer at most once, and exactly the
\* messages of securebus_deliveries were handed over, although calls under
\* one consumer name overlap, read a stale last_event_id and may be rolled
\* back.
DeliveredOnce ==
  \A m \in 1..Cardinality(Publishers) :
    returned[m] = IF m \in delivered THEN 1 ELSE 0

\* A visible message that meets what the callers ask for under the current
\* policy has been delivered, or an event past last_event_id still leads
\* Consume to it (consume.go:56).
NothingSkipped ==
  Current > 0 =>
    \A m \in SeenMessages \ delivered,
       ask \in {a \in Asks : Resolvable(policies[Current], a)} :
      (\A v \in Views(policies[Current], m) :
         MatchCondition(ResolveCondition(policies[Current], ask), v))
        => \E e \in SeenEvents : e > sublast /\ events[e].msg = m

\* Every call that begins comes to an end: no cycle of calls waits for
\* Service.mu, version keys, nonces, message, attestation and subscription
\* rows.
CallsEnd ==
  /\ \A u \in Putters :
       (upc[u] # "start") ~> (upc[u] \in {"ok", "refused", "aborted"})
  /\ \A p \in Publishers :
       (ppc[p] # "start") ~> (ppc[p] \in {"ok", "refused", "aborted"})
  /\ \A a \in Attesters :
       (apc[a] # "start") ~> (apc[a] \in {"ok", "refused", "aborted"})
  /\ \A c \in Consumers : (cpc[c] # "idle") ~> (cpc[c] = "idle")

=============================================================================
