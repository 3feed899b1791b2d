---------------------------- MODULE AccessProofs ----------------------------
(***************************************************************************)
(* Who may call: storages, objects, access lists and tokens, then          *)
(* sessions, accounts and agent keys, for any number of people, ids,       *)
(* tokens, processes and requests.                                         *)
(*                                                                         *)
(* The inductive invariant of the access store has five parts: the         *)
(* requests in progress, the storages, the lists, the rows they are of and *)
(* the tokens; each step keeps each part.  Sessions, accounts and keys have an invariant each.   *)
(***************************************************************************)
EXTENDS Access, Session, Accounts, AgentKeys, TLAPS

\* The leaves are first-order unless they name the SMT solver.
USE Zenon

Subjects == People \cup {"all", "team"}
Bindings == [id : Ids, who : Subjects, role : Roles, live : BOOLEAN]
Tokens == [owner : People \cup {Nobody}, mode : Modes \cup {"none"},
           state : {"none", "live", "revoked", "deleted"},
           from : TokenIds \cup {Nobody}]
Grants == [tok : TokenIds, id : Ids, mode : Modes, allow : Allowlists]
ObjectKinds == {"storage", "table", "queue", Nobody}

\* What a request may be about to do.
CreateCalls == [do : {"store"} \cup Kinds, who : People, slug : People \cup {Nobody}]
ObjectCalls == [do : {"object"}, who : People, id : Ids]
ListCalls == [do : {"grant", "revoke"}, id : Ids, who : Grantees, role : GrantRoles]
DeleteCalls == [do : {"delete", "row"}, id : Ids]
PatchCalls == [do : {"patch"}, id : Ids, read : ObjectKinds]
UseCalls == [do : {"used"}, tok : TokenIds, read : Tokens]
TokenCalls == [do : {"kill", "drop", "rotate", "mint"}, tok : TokenIds, who : People,
               read : SUBSET Grants]
ScopeCalls == [do : {"scopes"}, tok : TokenIds, granted : SUBSET Grants]
Calls == {NoCall} \cup CreateCalls \cup ObjectCalls \cup ListCalls \cup DeleteCalls
         \cup PatchCalls \cup UseCalls \cup TokenCalls \cup ScopeCalls

\* An object is made for an id in use; the scopes that a rotation copies are
\* scopes its token has had.
CallOK(what, ids, had) ==
  /\ what.do = "object" => what.id \in ids
  /\ what.do \in {"kill", "drop", "rotate", "mint"} =>
       \A s \in what.read : s.tok = what.tok /\ s \in had

CallsInv == /\ call \in [Callers -> Calls]
            /\ \A c \in Callers : CallOK(call[c], spent, reached)

\* An id that is not in use is no storage.
StoresInv == /\ useDB \in BOOLEAN /\ spent \in SUBSET Ids
             /\ stores \in [Ids -> People \cup {Nobody}]
             /\ slug \in [Ids -> People \cup {Nobody}]
             /\ \A i \in Ids \ spent : stores[i] = Nobody
             /\ OnePersonal

ListsInv == /\ acl \in SUBSET Bindings /\ objectACL \in SUBSET Bindings
            /\ objs \in [Ids -> ObjectKinds]

\* In PostgreSQL a binding goes with the row of its object.
RowsInv == useDB => \A b \in objectACL : objs[b.id] # Nobody

\* A token that was not made yet has no object scopes; a rotated one reads,
\* and each of its object scopes is of an id its predecessor had a scope for.
TokenOK(t, token, granted, had) ==
  /\ token.state \in {"live", "revoked"} => token.mode \in Modes
  /\ token.state = "none" => \A s \in granted : s.tok # t
  /\ token.from # Nobody =>
       /\ token.mode = "read"
       /\ \A s \in granted : s.tok = t => \E x \in had : x.tok = token.from /\ x.id = s.id

TokensInv == /\ toks \in [TokenIds -> Tokens]
             /\ reached \in SUBSET Grants /\ tokenScopes \in SUBSET reached
             /\ tokenObjectScopes \in SUBSET Grants
             /\ \A t \in TokenIds : TokenOK(t, toks[t], tokenObjectScopes, reached)

AccessInv == CallsInv /\ StoresInv /\ ListsInv /\ RowsInv /\ TokensInv

-----------------------------------------------------------------------------
\* Who asked for what: the fields of a request by what it is about to do.
LEMMA CallFields ==
  ASSUME NEW what \in Calls
  PROVE  /\ what.do \in {"store"} \cup Kinds => what \in CreateCalls
         /\ what.do = "object" => what \in ObjectCalls
         /\ what.do \in {"grant", "revoke"} => what \in ListCalls
         /\ what.do \in {"delete", "row"} => what \in DeleteCalls
         /\ what.do = "patch" => what \in PatchCalls
         /\ what.do \in {"kill", "drop", "rotate", "mint"} => what \in TokenCalls
         /\ what.do = "scopes" => what \in ScopeCalls
<1>1. Kinds \subseteq {"table", "queue"}
  BY AccessAssumption
<1> QED
  BY SMT, <1>1 DEF Calls, CreateCalls, ObjectCalls, ListCalls, DeleteCalls, PatchCalls,
              UseCalls, TokenCalls, ScopeCalls, NoCall

\* The ids in use and the scopes tokens have had only grow.
LEMMA Grows ==
  ASSUME AccessNext
  PROVE  spent \subseteq spent' /\ reached \subseteq reached'
<1> USE DEF lists, scopes
<1>1. ASSUME NEW c \in Callers,
             \/ EnsurePersonal(c) \/ CreateRequest(c) \/ CreateStorage(c)
             \/ CreateStorageObject(c) \/ CreateObject(c) \/ CallFails(c)
             \/ ACLRequest(c) \/ UpsertACL(c) \/ DeleteACL(c) \/ DeleteStorage(c)
      PROVE  spent \subseteq spent' /\ reached' = reached
  BY <1>1 DEF EnsurePersonal, CreateRequest, CreateStorage, CreateStorageObject,
              CreateObject, CallFails, ACLRequest, UpsertACL, DeleteACL, DeleteStorage
<1>2. ASSUME NEW c \in Callers,
             \/ ResolveToken(c) \/ MarkTokenUsed(c) \/ TokenRequest(c)
             \/ RevokeToken(c) \/ RotateNotRevoked(c) \/ RotateMint(c)
             \/ DeleteToken(c) \/ ScopesRequest(c) \/ ReplaceTokenStorages(c)
      PROVE  spent' = spent /\ reached \subseteq reached'
  BY <1>2 DEF ResolveToken, MarkTokenUsed, TokenRequest, RevokeToken,
              RotateNotRevoked, RotateMint, InsertToken, DeleteToken, ScopesRequest,
              ReplaceTokenStorages
<1>3. ASSUME NEW c \in Callers,
             \/ DeleteObject(c) \/ DeleteStorageRow(c)
             \/ PatchRequest(c) \/ UpdateObjectConfig(c)
      PROVE  spent' = spent /\ reached' = reached
  BY <1>3 DEF DeleteObject, DeleteStorageRow, PatchRequest, UpdateObjectConfig
<1>4. ASSUME ExpireBinding \/ UpsertObjectACL \/ CreateToken \/ ExpireToken
      PROVE  spent' = spent /\ reached \subseteq reached'
  BY SMT, <1>4 DEF ExpireBinding, UpsertObjectACL, CreateToken, InsertToken, ExpireToken
<1> QED
  BY <1>1, <1>2, <1>3, <1>4 DEF AccessNext

\* A request goes on to what it may be about to do.
LEMMA CallStep ==
  ASSUME CallsInv, NEW c \in Callers, NEW what \in Calls, Begin_(c, what),
         CallOK(what, spent', reached'), spent \subseteq spent', reached \subseteq reached'
  PROVE  CallsInv'
<1>1. call' \in [Callers -> Calls] /\ call'[c] = what
      /\ \A d \in Callers : d # c => call'[d] = call[d]
  BY DEF CallsInv, Begin_
<1>2. ASSUME NEW d \in Callers PROVE CallOK(call'[d], spent', reached')
  <2>1. CASE d = c
    BY <1>1, <2>1
  <2>2. CASE d # c
    BY <1>1, <2>2 DEF CallsInv, CallOK
  <2> QED
    BY <2>1, <2>2
<1> QED
  BY <1>1, <1>2 DEF CallsInv

\* A request ends.
LEMMA CallEnds ==
  ASSUME CallsInv, NEW c \in Callers, End_(c),
         spent \subseteq spent', reached \subseteq reached'
  PROVE  CallsInv'
<1>1. NoCall \in Calls /\ NoCall.do = "none"
  BY DEF Calls, NoCall
<1> QED
  BY <1>1, CallStep DEF End_, Begin_, CallOK

\* No request is touched.
LEMMA CallsKept ==
  ASSUME CallsInv, call' = call, spent \subseteq spent', reached \subseteq reached'
  PROVE  CallsInv'
  BY DEF CallsInv, CallOK

\* The requests that are made: what they ask for, and what they have read.
LEMMA CallsAsked ==
  ASSUME AccessInv, NEW c \in Callers, spent \subseteq spent', reached \subseteq reached',
         \/ EnsurePersonal(c) \/ CreateRequest(c) \/ ACLRequest(c) \/ PatchRequest(c)
         \/ ResolveToken(c) \/ TokenRequest(c) \/ ScopesRequest(c)
  PROVE  CallsInv'
<1>0. CallsInv /\ Kinds \subseteq {"table", "queue"}
  BY AccessAssumption DEF AccessInv
<1> DEFINE Fit(what) == what \in Calls /\ Begin_(c, what) /\ CallOK(what, spent', reached')
<1> SUFFICES \E what : Fit(what)
  BY <1>0, CallStep
<1>1. CASE EnsurePersonal(c)
  <2>1. PICK p \in People : Begin_(c, [do |-> "store", who |-> p, slug |-> p])
    BY <1>1 DEF EnsurePersonal
  <2> DEFINE what == [do |-> "store", who |-> p, slug |-> p]
  <2>2. what \in CreateCalls /\ what.do = "store"
    BY DEF CreateCalls
  <2> QED
    BY <2>1, <2>2 DEF Calls, CallOK
<1>2. CASE CreateRequest(c)
  <2>1. PICK p \in People, kind \in {"store"} \cup Kinds :
          Begin_(c, [do |-> kind, who |-> p, slug |-> Nobody])
    BY <1>2 DEF CreateRequest
  <2> DEFINE what == [do |-> kind, who |-> p, slug |-> Nobody]
  <2>2. what \in CreateCalls /\ what.do \in {"store", "table", "queue"}
    BY <1>0 DEF CreateCalls
  <2> HIDE DEF what
  <2>3. Begin_(c, what)
    BY <2>1 DEF what
  <2> QED
    BY <2>2, <2>3 DEF Calls, CallOK
<1>3. CASE ACLRequest(c)
  <2>1. PICK i \in Ids, q \in Grantees, role \in GrantRoles, verb \in {"grant", "revoke"} :
          \/ Begin_(c, [do |-> verb, id |-> i, who |-> q, role |-> role])
          \/ Begin_(c, [do |-> "delete", id |-> i])
    BY <1>3 DEF ACLRequest
  <2> DEFINE list == [do |-> verb, id |-> i, who |-> q, role |-> role]
             del == [do |-> "delete", id |-> i]
  <2>2. list \in ListCalls /\ list.do \in {"grant", "revoke"}
    BY DEF ListCalls
  <2>3. del \in DeleteCalls /\ del.do = "delete"
    BY DEF DeleteCalls
  <2>4. Begin_(c, list) \/ Begin_(c, del)
    BY <2>1
  <2> HIDE DEF list, del
  <2>5. CASE Begin_(c, list)
    BY <2>2, <2>5 DEF Calls, CallOK
  <2>6. CASE Begin_(c, del)
    BY <2>3, <2>6 DEF Calls, CallOK
  <2> QED
    BY <2>4, <2>5, <2>6
<1>4. CASE PatchRequest(c)
  <2>1. PICK i \in Ids : Begin_(c, [do |-> "patch", id |-> i, read |-> GetObject(i)])
    BY <1>4 DEF PatchRequest
  <2> DEFINE what == [do |-> "patch", id |-> i, read |-> GetObject(i)]
  <2>2. GetObject(i) \in ObjectKinds
    BY DEF GetObject, ObjectKinds, AccessInv, ListsInv
  <2>3. what \in PatchCalls /\ what.do = "patch"
    BY <2>2 DEF PatchCalls
  <2> HIDE DEF what
  <2>4. Begin_(c, what)
    BY <2>1 DEF what
  <2> QED
    BY <2>3, <2>4 DEF Calls, CallOK
<1>5. CASE ResolveToken(c)
  <2>1. PICK t \in TokenIds : Begin_(c, [do |-> "used", tok |-> t, read |-> toks[t]])
    BY <1>5 DEF ResolveToken
  <2> DEFINE what == [do |-> "used", tok |-> t, read |-> toks[t]]
  <2>2. what \in UseCalls /\ what.do = "used"
    BY DEF UseCalls, AccessInv, TokensInv
  <2> HIDE DEF what
  <2>3. Begin_(c, what)
    BY <2>1 DEF what
  <2> QED
    BY <2>2, <2>3 DEF Calls, CallOK
<1>6. CASE TokenRequest(c)
  <2>1. PICK p \in People, t \in TokenIds, verb \in {"kill", "drop", "rotate"} :
          Begin_(c, [do |-> verb, tok |-> t, who |-> p,
                     read |-> {s \in tokenScopes : s.tok = t}])
    BY <1>6 DEF TokenRequest
  <2> DEFINE mine == {s \in tokenScopes : s.tok = t}
             what == [do |-> verb, tok |-> t, who |-> p, read |-> mine]
  <2>2. mine \in SUBSET Grants /\ \A s \in mine : s.tok = t /\ s \in reached'
    BY DEF AccessInv, TokensInv
  <2>3. Begin_(c, what)
    BY <2>1
  <2> HIDE DEF mine
  <2>4. /\ what \in TokenCalls /\ what.do \in {"kill", "drop", "rotate"}
        /\ what.tok = t /\ what.read = mine
    BY <2>2 DEF TokenCalls
  <2> HIDE DEF what
  <2> QED
    BY <2>2, <2>3, <2>4 DEF Calls, CallOK
<1>7. CASE ScopesRequest(c)
  <2>1. PICK t \in TokenIds, ids \in SUBSET spent, allow \in Allowlists :
          /\ toks[t].state \notin {"none", "deleted"}
          /\ Begin_(c, [do |-> "scopes", tok |-> t,
                        granted |-> ScopesOf(t, ids, toks[t].mode, allow)])
    BY <1>7 DEF ScopesRequest
  <2> DEFINE granted == ScopesOf(t, ids, toks[t].mode, allow)
             what == [do |-> "scopes", tok |-> t, granted |-> granted]
  <2>2. toks[t].mode \in Modes /\ ids \subseteq Ids
    BY <2>1 DEF AccessInv, TokensInv, TokenOK, StoresInv, Tokens
  <2>3. granted \in SUBSET Grants
    BY SMT, <2>2 DEF ScopesOf, Grants
  <2>4. Begin_(c, what)
    BY <2>1
  <2> HIDE DEF granted
  <2>5. what \in ScopeCalls /\ what.do = "scopes"
    BY <2>3 DEF ScopeCalls
  <2> HIDE DEF what
  <2> QED
    BY <2>4, <2>5 DEF Calls, CallOK
<1> QED
  BY <1>1, <1>2, <1>3, <1>4, <1>5, <1>6, <1>7

\* The requests that go on after a write.
LEMMA CallsGoOn ==
  ASSUME AccessInv, NEW c \in Callers, spent \subseteq spent', reached \subseteq reached',
         \/ CreateStorage(c) \/ RevokeToken(c) \/ RotateNotRevoked(c) \/ DeleteObject(c)
  PROVE  CallsInv'
<1>0. CallsInv /\ call[c] \in Calls /\ CallOK(call[c], spent, reached)
  BY DEF AccessInv, CallsInv
<1>1. CASE CreateStorage(c)
  <2>1. PICK i \in Ids :
          /\ call[c].do = "store" /\ spent' = spent \cup {i}
          /\ End_(c) \/ Begin_(c, [do |-> "object", who |-> call[c].who, id |-> i])
    BY <1>1 DEF CreateStorage
  <2> DEFINE what == [do |-> "object", who |-> call[c].who, id |-> i]
  <2>2. call[c].who \in People
    BY <1>0, <2>1, CallFields DEF CreateCalls
  <2>3. what \in ObjectCalls /\ what.do = "object" /\ what.id = i
    BY <2>2 DEF ObjectCalls
  <2>4. End_(c) \/ Begin_(c, what)
    BY <2>1
  <2> HIDE DEF what
  <2>5. what \in Calls /\ CallOK(what, spent', reached')
    BY <2>1, <2>3 DEF Calls, CallOK
  <2> QED
    BY <1>0, <2>4, <2>5, CallStep, CallEnds
<1>2. CASE RevokeToken(c) \/ RotateNotRevoked(c)
  <2> DEFINE what == [call[c] EXCEPT !.do = "mint"]
  <2>1. End_(c) \/ (call[c].do = "rotate" /\ Begin_(c, what))
    BY <1>2 DEF RevokeToken, RotateNotRevoked
  <2>2. CASE call[c].do = "rotate" /\ Begin_(c, what)
    <3>1. call[c] \in TokenCalls
      BY <1>0, <2>2, CallFields
    <3>2. /\ what \in TokenCalls /\ what.do = "mint" /\ what.tok = call[c].tok
          /\ what.read = call[c].read
      BY <3>1 DEF TokenCalls
    <3> HIDE DEF what
    <3>3. what \in Calls /\ CallOK(what, spent', reached')
      BY <1>0, <2>2, <3>2 DEF Calls, CallOK
    <3> QED
      BY <1>0, <2>2, <3>3, CallStep
  <2> QED
    BY <1>0, <2>1, <2>2, CallEnds
<1>3. CASE DeleteObject(c)
  <2>1. PICK i \in Ids : \/ call' = call
                         \/ Begin_(c, NoCall)
                         \/ Begin_(c, [do |-> "row", id |-> i])
    BY <1>3 DEF DeleteObject
  <2> DEFINE what == [do |-> "row", id |-> i]
  <2>2. what \in DeleteCalls /\ what.do = "row"
    BY DEF DeleteCalls
  <2>3. call' = call \/ End_(c) \/ Begin_(c, what)
    BY <2>1 DEF End_, Begin_
  <2> HIDE DEF what
  <2>4. what \in Calls /\ CallOK(what, spent', reached')
    BY <2>2 DEF Calls, CallOK
  <2> QED
    BY <1>0, <2>3, <2>4, CallStep, CallEnds, CallsKept
<1> QED
  BY <1>1, <1>2, <1>3

\* Every step keeps the part about the requests.
LEMMA CallsPart ==
  ASSUME AccessInv, AccessNext
  PROVE  CallsInv'
<1>1. spent \subseteq spent' /\ reached \subseteq reached' /\ CallsInv
  BY Grows DEF AccessInv
<1>2. ASSUME NEW c \in Callers,
             \/ CreateStorageObject(c) \/ CreateObject(c) \/ CallFails(c)
             \/ UpsertACL(c) \/ DeleteACL(c) \/ DeleteStorage(c) \/ MarkTokenUsed(c)
             \/ RotateMint(c) \/ DeleteToken(c) \/ ReplaceTokenStorages(c)
             \/ DeleteStorageRow(c) \/ UpdateObjectConfig(c)
      PROVE  CallsInv'
  <2>1. End_(c)
    BY <1>2 DEF CreateStorageObject, CreateObject, CallFails, UpsertACL, DeleteACL,
         DeleteStorage, MarkTokenUsed, RotateMint, DeleteToken, ReplaceTokenStorages,
         DeleteStorageRow, UpdateObjectConfig
  <2> QED
    BY <1>1, <2>1, CallEnds
<1>3. ASSUME ExpireBinding \/ UpsertObjectACL \/ CreateToken \/ ExpireToken
      PROVE  CallsInv'
  <2>1. call' = call
    BY <1>3 DEF ExpireBinding, UpsertObjectACL, CreateToken, ExpireToken
  <2> QED
    BY <1>1, <2>1, CallsKept
<1> QED
  BY <1>1, <1>2, <1>3, CallsAsked, CallsGoOn DEF AccessNext

-----------------------------------------------------------------------------
\* Which steps write storages, lists and tokens.
LEMMA StoresKept ==
  ASSUME AccessNext
  PROVE  \/ UNCHANGED <<useDB, stores, slug, spent>>
         \/ \E c \in Callers : \/ CreateStorage(c) \/ CreateStorageObject(c)
                               \/ CreateObject(c) \/ DeleteStorage(c)
                               \/ DeleteObject(c) \/ DeleteStorageRow(c)
<1>1. ASSUME NEW c \in Callers,
             \/ EnsurePersonal(c) \/ CreateRequest(c) \/ CallFails(c)
             \/ ACLRequest(c) \/ UpsertACL(c) \/ DeleteACL(c) \/ ResolveToken(c)
             \/ MarkTokenUsed(c) \/ TokenRequest(c) \/ RevokeToken(c)
      PROVE  UNCHANGED <<useDB, stores, slug, spent>>
  BY <1>1 DEF EnsurePersonal, CreateRequest, CallFails, ACLRequest, UpsertACL,
              DeleteACL, ResolveToken, MarkTokenUsed, TokenRequest, RevokeToken
<1>2. ASSUME NEW c \in Callers,
             \/ RotateNotRevoked(c) \/ RotateMint(c) \/ DeleteToken(c)
             \/ ScopesRequest(c) \/ ReplaceTokenStorages(c)
             \/ PatchRequest(c) \/ UpdateObjectConfig(c)
      PROVE  UNCHANGED <<useDB, stores, slug, spent>>
  BY <1>2 DEF RotateNotRevoked, RotateMint, DeleteToken, ScopesRequest,
              ReplaceTokenStorages, PatchRequest, UpdateObjectConfig
<1>3. ASSUME ExpireBinding \/ UpsertObjectACL \/ CreateToken \/ ExpireToken
      PROVE  UNCHANGED <<useDB, stores, slug, spent>>
  BY <1>3 DEF ExpireBinding, UpsertObjectACL, CreateToken, ExpireToken
<1> QED
  BY <1>1, <1>2, <1>3 DEF AccessNext

\* An id stops being a storage.
LEMMA StoreGone ==
  ASSUME StoresInv, UNCHANGED <<useDB, slug, spent>>, NEW i,
         stores' = stores \/ stores' = [stores EXCEPT ![i] = Nobody]
  PROVE  StoresInv'
<1>1. /\ stores' \in [Ids -> People \cup {Nobody}]
      /\ \A j \in Ids : stores'[j] \in {stores[j], Nobody}
  BY DEF StoresInv
<1> QED
  BY <1>1 DEF StoresInv, OnePersonal, SameSlug

\* Every step keeps the part about the storages.  In PostgreSQL the unique
\* slug refuses a second personal storage, and the object's transaction
\* brings a deleted storage back only while its slug is not taken.
LEMMA StoresPart ==
  ASSUME AccessInv, AccessNext
  PROVE  StoresInv'
<1>0. StoresInv
  BY DEF AccessInv
<1>1. CASE UNCHANGED <<useDB, stores, slug, spent>>
  BY <1>0, <1>1 DEF StoresInv, OnePersonal, SameSlug
<1>2. ASSUME NEW c \in Callers, CreateStorage(c) PROVE StoresInv'
  <2>1. PICK i \in Ids \ spent :
          /\ call[c].do = "store"
          /\ useDB => \A j \in Ids : stores[j] # Nobody => ~SameSlug(slug[j], call[c].slug)
          /\ stores' = [stores EXCEPT ![i] = call[c].who]
          /\ slug' = [slug EXCEPT ![i] = call[c].slug]
          /\ spent' = spent \cup {i} /\ useDB' = useDB
    BY <1>2 DEF CreateStorage
  <2>2. call[c].who \in People /\ call[c].slug \in People \cup {Nobody}
    BY SMT, <2>1, CallFields DEF AccessInv, CallsInv, CreateCalls
  <2>3. /\ stores' \in [Ids -> People \cup {Nobody}] /\ slug' \in [Ids -> People \cup {Nobody}]
        /\ slug'[i] = call[c].slug
        /\ \A j \in Ids : j # i => stores'[j] = stores[j] /\ slug'[j] = slug[j]
    BY <1>0, <2>1, <2>2 DEF StoresInv
  <2>4. OnePersonal'
    BY SMT, <1>0, <2>1, <2>3 DEF StoresInv, OnePersonal, SameSlug
  <2> QED
    BY <1>0, <2>1, <2>3, <2>4 DEF StoresInv
<1>3. ASSUME NEW c \in Callers, CreateStorageObject(c) PROVE StoresInv'
  <2> DEFINE i == call[c].id
             taken == \E j \in Ids \ {i} :
                        /\ SameSlug(slug[j], slug[i])
                        /\ objs[j] # Nobody \/ (stores[i] = Nobody /\ stores[j] # Nobody)
  <2>1. /\ call[c].do = "object" /\ UNCHANGED <<useDB, slug, spent>>
        /\ stores' = stores \/ (~taken /\ stores' = [stores EXCEPT ![i] = call[c].who])
    BY <1>3 DEF CreateStorageObject
  <2>2. i \in Ids /\ i \in spent /\ call[c].who \in People
    BY SMT, <2>1, CallFields DEF AccessInv, CallsInv, CallOK, ObjectCalls
  <2>3. ~taken => stores[i] # Nobody \/ \A j \in Ids \ {i} :
                    stores[j] # Nobody => ~SameSlug(slug[j], slug[i])
    OBVIOUS
  <2> HIDE DEF i, taken
  <2>4. CASE stores' = stores
    BY <1>0, <2>1, <2>4 DEF StoresInv, OnePersonal, SameSlug
  <2>5. CASE ~taken /\ stores' = [stores EXCEPT ![i] = call[c].who]
    <3>1. /\ stores' \in [Ids -> People \cup {Nobody}]
          /\ \A j \in Ids : j # i => stores'[j] = stores[j]
      BY <1>0, <2>2, <2>5 DEF StoresInv
    <3>2. OnePersonal'
      <4> SUFFICES ASSUME useDB', NEW x \in Ids, NEW y \in Ids, x # y,
                          stores'[x] # Nobody, stores'[y] # Nobody
                   PROVE  ~SameSlug(slug'[x], slug'[y])
        BY DEF OnePersonal
      <4>1. OnePersonal /\ useDB
        BY <1>0, <2>1 DEF StoresInv
      <4>2. CASE stores[i] # Nobody
        <5>1. stores[x] # Nobody /\ stores[y] # Nobody
          BY <3>1, <4>2
        <5> QED
          BY <2>1, <4>1, <5>1 DEF OnePersonal
      <4>3. CASE \A j \in Ids \ {i} : stores[j] # Nobody => ~SameSlug(slug[j], slug[i])
        <5>1. CASE x = i
          BY <2>1, <3>1, <4>3, <5>1 DEF SameSlug
        <5>2. CASE y = i
          BY <2>1, <3>1, <4>3, <5>2 DEF SameSlug
        <5>3. CASE x # i /\ y # i
          BY <2>1, <3>1, <4>1, <5>3 DEF OnePersonal
        <5> QED
          BY <5>1, <5>2, <5>3
      <4> QED
        BY <2>3, <2>5, <4>2, <4>3
    <3> QED
      BY <1>0, <2>1, <2>2, <3>1, <3>2 DEF StoresInv
  <2> QED
    BY <2>1, <2>4, <2>5
<1>4. ASSUME NEW c \in Callers, CreateObject(c) PROVE StoresInv'
  <2>1. spent \subseteq spent' /\ spent' \in SUBSET Ids /\ UNCHANGED <<useDB, stores, slug>>
    BY <1>0, <1>4 DEF CreateObject, StoresInv
  <2> QED
    BY <1>0, <2>1 DEF StoresInv, OnePersonal, SameSlug
<1>5. ASSUME NEW c \in Callers, DeleteStorage(c) \/ DeleteStorageRow(c) PROVE StoresInv'
  BY <1>0, <1>5, StoreGone DEF DeleteStorage, DeleteStorageRow
<1>6. ASSUME NEW c \in Callers, DeleteObject(c) PROVE StoresInv'
  <2>1. PICK i \in Ids :
          /\ \/ stores' = stores
             \/ \E alsoStore \in BOOLEAN :
                  stores' = [stores EXCEPT ![i] = IF alsoStore THEN Nobody ELSE @]
          /\ UNCHANGED <<useDB, slug, spent>>
    BY <1>6 DEF DeleteObject
  <2>2. stores' = stores \/ stores' = [stores EXCEPT ![i] = Nobody]
    BY <1>0, <2>1 DEF StoresInv
  <2> QED
    BY <1>0, <2>1, <2>2, StoreGone
<1> QED
  BY <1>1, <1>2, <1>3, <1>4, <1>5, <1>6, StoresKept

-----------------------------------------------------------------------------
\* Bindings are added one at a time.
LEMMA BindType ==
  ASSUME NEW list \in SUBSET Bindings, NEW i \in Ids, NEW p \in Subjects,
         NEW role \in Roles
  PROVE  Binding(i, p, role) \in Bindings
         /\ Bind(list, Binding(i, p, role)) \in SUBSET Bindings
<1>1. Binding(i, p, role) \in Bindings
  BY DEF Binding, Bindings
<1>2. Bind(list, Binding(i, p, role)) \subseteq list \cup {Binding(i, p, role)}
  BY DEF Bind
<1> QED
  BY <1>1, <1>2

\* Every step keeps the part about the access lists and the objects.
LEMMA ListsPart ==
  ASSUME AccessInv, AccessNext
  PROVE  ListsInv'
<1>0. ListsInv /\ "owner" \in Roles /\ People \subseteq Subjects
      /\ Grantees \subseteq Subjects /\ GrantRoles \subseteq Roles
      /\ Kinds \subseteq ObjectKinds
  BY AccessAssumption DEF AccessInv, Roles, Subjects, ObjectKinds
<1>1. CASE UNCHANGED <<acl, objectACL, objs>>
  BY <1>0, <1>1 DEF ListsInv
<1>2. ASSUME NEW c \in Callers, CreateStorage(c) PROVE ListsInv'
  <2>1. PICK i \in Ids :
          /\ call[c].do = "store"
          /\ acl' = Bind(acl, Binding(i, call[c].who, "owner"))
          /\ \/ UNCHANGED <<objs, objectACL>>
             \/ /\ objs' = [objs EXCEPT ![i] = "storage"]
                /\ objectACL' = Bind(objectACL, Binding(i, call[c].who, "owner"))
    BY <1>2 DEF CreateStorage
  <2>2. call[c].who \in Subjects
    BY SMT, <1>0, <2>1, CallFields DEF AccessInv, CallsInv, CreateCalls
  <2> QED
    BY <1>0, <2>1, <2>2, BindType DEF ListsInv, ObjectKinds
<1>3. ASSUME NEW c \in Callers, CreateStorageObject(c) PROVE ListsInv'
  <2> DEFINE i == call[c].id
  <2>1. /\ call[c].do = "object"
        /\ \/ UNCHANGED <<objs, acl, objectACL>>
           \/ /\ objs' = [objs EXCEPT ![i] = "storage"]
              /\ objectACL' = Bind(objectACL, Binding(i, call[c].who, "owner"))
              /\ acl' = acl \/ acl' = acl \cup {Binding(i, call[c].who, "owner")}
    BY <1>3 DEF CreateStorageObject, lists
  <2>2. call[c].who \in Subjects /\ i \in Ids
    BY SMT, <1>0, <2>1, CallFields DEF AccessInv, CallsInv, ObjectCalls
  <2>3. /\ Bind(objectACL, Binding(i, call[c].who, "owner")) \in SUBSET Bindings
        /\ Binding(i, call[c].who, "owner") \in Bindings
    BY <1>0, <2>2, BindType DEF ListsInv
  <2> HIDE DEF i
  <2>4. objs' \in [Ids -> ObjectKinds]
    BY <1>0, <2>1 DEF ListsInv, ObjectKinds
  <2>5. objectACL' \in SUBSET Bindings /\ acl' \in SUBSET Bindings
    BY <1>0, <2>1, <2>3 DEF ListsInv
  <2> QED
    BY <2>4, <2>5 DEF ListsInv
<1>4. ASSUME NEW c \in Callers, CreateObject(c) PROVE ListsInv'
  <2>1. PICK i \in Ids :
          /\ call[c].do \in Kinds /\ objs' = [objs EXCEPT ![i] = call[c].do]
          /\ objectACL' = Bind(objectACL, Binding(i, call[c].who, "owner"))
          /\ acl' = acl
    BY <1>4 DEF CreateObject
  <2>2. call[c].who \in Subjects
    BY SMT, <1>0, <2>1, CallFields DEF AccessInv, CallsInv, CreateCalls
  <2> QED
    BY <1>0, <2>1, <2>2, BindType DEF ListsInv
<1>5. ASSUME NEW c \in Callers, UpsertACL(c) \/ DeleteACL(c) PROVE ListsInv'
  <2>1. /\ call[c].do \in {"grant", "revoke"} /\ UNCHANGED <<objs, objectACL>>
        /\ \/ acl' \subseteq acl
           \/ acl' = Bind(acl, Binding(call[c].id, call[c].who, call[c].role))
    BY <1>5 DEF UpsertACL, DeleteACL
  <2>2. call[c].id \in Ids /\ call[c].who \in Subjects /\ call[c].role \in Roles
    BY SMT, <1>0, <2>1, CallFields DEF AccessInv, CallsInv, ListCalls
  <2> QED
    BY <1>0, <2>1, <2>2, BindType DEF ListsInv
<1>6. ASSUME NEW c \in Callers, DeleteStorage(c) \/ DeleteObject(c) PROVE ListsInv'
  <2>1. /\ acl' \subseteq acl /\ objectACL' \subseteq objectACL
        /\ objs' = objs \/ \E i \in Ids : objs' = [objs EXCEPT ![i] = Nobody]
    BY <1>6 DEF DeleteStorage, DeleteObject
  <2>2. objs' \in [Ids -> ObjectKinds]
    BY <1>0, <2>1 DEF ListsInv, ObjectKinds
  <2> QED
    BY <1>0, <2>1, <2>2 DEF ListsInv
<1>7. ASSUME NEW c \in Callers, UpdateObjectConfig(c) PROVE ListsInv'
  <2>1. /\ call[c].do = "patch" /\ UNCHANGED <<acl, objectACL>>
        /\ objs' = objs \/ objs' = [objs EXCEPT ![call[c].id] = call[c].read]
    BY <1>7 DEF UpdateObjectConfig, lists
  <2>2. call[c].read \in ObjectKinds
    BY SMT, <2>1, CallFields DEF AccessInv, CallsInv, PatchCalls
  <2> QED
    BY <1>0, <2>1, <2>2 DEF ListsInv
<1>8. ASSUME ExpireBinding PROVE ListsInv'
  <2>1. PICK b \in acl : /\ acl' = (acl \ {b}) \cup {[b EXCEPT !.live = FALSE]}
                         /\ UNCHANGED <<objs, objectACL>>
    BY <1>8 DEF ExpireBinding
  <2>2. [b EXCEPT !.live = FALSE] \in Bindings
    BY <1>0 DEF ListsInv, Bindings
  <2> QED
    BY <1>0, <2>1, <2>2 DEF ListsInv
<1>9. ASSUME UpsertObjectACL PROVE ListsInv'
  <2>1. PICK i \in Ids, q \in Grantees, role \in GrantRoles :
          objectACL' = Bind(objectACL, Binding(i, q, role)) /\ UNCHANGED <<objs, acl>>
    BY <1>9 DEF UpsertObjectACL
  <2> QED
    BY <1>0, <2>1, BindType DEF ListsInv
<1>10. ASSUME NEW c \in Callers,
             \/ EnsurePersonal(c) \/ CreateRequest(c) \/ CallFails(c) \/ ACLRequest(c)
             \/ ResolveToken(c) \/ MarkTokenUsed(c) \/ TokenRequest(c) \/ RevokeToken(c)
       PROVE  UNCHANGED <<acl, objectACL, objs>>
  BY <1>10 DEF EnsurePersonal, CreateRequest, CallFails, ACLRequest, ResolveToken,
               MarkTokenUsed, TokenRequest, RevokeToken, lists
<1>11. ASSUME NEW c \in Callers,
             \/ RotateNotRevoked(c) \/ RotateMint(c) \/ DeleteToken(c) \/ ScopesRequest(c)
             \/ ReplaceTokenStorages(c) \/ DeleteStorageRow(c) \/ PatchRequest(c)
       PROVE  UNCHANGED <<acl, objectACL, objs>>
  BY <1>11 DEF RotateNotRevoked, RotateMint, DeleteToken, ScopesRequest,
               ReplaceTokenStorages, DeleteStorageRow, PatchRequest, lists
<1>12. ASSUME CreateToken \/ ExpireToken
       PROVE  UNCHANGED <<acl, objectACL, objs>>
  BY <1>12 DEF CreateToken, ExpireToken, lists
<1> QED
  BY <1>1, <1>2, <1>3, <1>4, <1>5, <1>6, <1>7, <1>8, <1>9, <1>10, <1>11, <1>12
     DEF AccessNext

\* A binding is added with the row of its object, or to one that is there.
LEMMA RowsStep ==
  ASSUME RowsInv, ListsInv, useDB' = useDB, NEW i \in Ids, NEW p, NEW role,
         objectACL' = Bind(objectACL, Binding(i, p, role)),
         objs' \in [Ids -> ObjectKinds], objs'[i] # Nobody,
         \A j \in Ids : j # i => objs'[j] = objs[j]
  PROVE  RowsInv'
<1>1. \A b \in objectACL' : b \in objectACL \/ b = Binding(i, p, role)
  BY DEF Bind
<1>2. Binding(i, p, role).id = i
  BY DEF Binding
<1>3. \A b \in objectACL : b.id \in Ids
  BY DEF ListsInv, Bindings
<1> QED
  BY <1>1, <1>2, <1>3 DEF RowsInv

\* Every step keeps the part about the rows: only CreateStorage's second
\* transaction, CreateObject and putACL bind, and DeleteObject takes the
\* bindings along.
LEMMA RowsPart ==
  ASSUME AccessInv, AccessNext
  PROVE  RowsInv'
<1>0. RowsInv /\ ListsInv /\ Kinds \subseteq ObjectKinds \ {Nobody}
      /\ objs \in [Ids -> ObjectKinds]
  BY AccessAssumption DEF AccessInv, ListsInv, ObjectKinds, Nobody
<1>1. CASE UNCHANGED <<useDB, objectACL, objs>>
  BY <1>0, <1>1 DEF RowsInv
<1>2. ASSUME NEW c \in Callers, CreateStorage(c) PROVE RowsInv'
  <2>1. useDB' = useDB /\ (useDB => UNCHANGED <<objs, objectACL>>)
    BY <1>2 DEF CreateStorage
  <2> QED
    BY <1>0, <2>1 DEF RowsInv
<1>3. ASSUME NEW c \in Callers, CreateStorageObject(c) PROVE RowsInv'
  <2> DEFINE i == call[c].id
  <2>1. /\ call[c].do = "object" /\ useDB' = useDB
        /\ \/ UNCHANGED <<objs, objectACL>>
           \/ /\ objs' = [objs EXCEPT ![i] = "storage"]
              /\ objectACL' = Bind(objectACL, Binding(i, call[c].who, "owner"))
    BY <1>3 DEF CreateStorageObject, lists
  <2>2. i \in Ids
    BY SMT, <2>1, CallFields DEF AccessInv, CallsInv, ObjectCalls
  <2> HIDE DEF i
  <2>3. CASE objs' = [objs EXCEPT ![i] = "storage"]
             /\ objectACL' = Bind(objectACL, Binding(i, call[c].who, "owner"))
    <3>1. /\ objs' \in [Ids -> ObjectKinds] /\ objs'[i] # Nobody
          /\ \A j \in Ids : j # i => objs'[j] = objs[j]
      BY <1>0, <2>2, <2>3 DEF ObjectKinds, Nobody
    <3> QED
      BY <1>0, <2>1, <2>2, <2>3, <3>1, RowsStep
  <2> QED
    BY <1>1, <2>1, <2>3
<1>4. ASSUME NEW c \in Callers, CreateObject(c) PROVE RowsInv'
  <2>1. PICK i \in Ids :
          /\ call[c].do \in Kinds /\ objs' = [objs EXCEPT ![i] = call[c].do]
          /\ objectACL' = Bind(objectACL, Binding(i, call[c].who, "owner"))
          /\ useDB' = useDB
    BY <1>4 DEF CreateObject
  <2>2. /\ objs' \in [Ids -> ObjectKinds] /\ objs'[i] # Nobody
        /\ \A j \in Ids : j # i => objs'[j] = objs[j]
    BY <1>0, <2>1
  <2> QED
    BY <1>0, <2>1, <2>2, RowsStep
<1>5. ASSUME NEW c \in Callers, DeleteObject(c) PROVE RowsInv'
  <2>1. PICK i \in Ids : /\ objs' = [objs EXCEPT ![i] = Nobody] /\ useDB' = useDB
                         /\ objectACL' = {b \in objectACL : b.id # i}
    BY <1>5 DEF DeleteObject
  <2>2. \A b \in objectACL' : b \in objectACL /\ b.id \in Ids /\ b.id # i
    BY <1>0, <2>1 DEF ListsInv, Bindings
  <2>3. \A j \in Ids : j # i => objs'[j] = objs[j]
    BY <1>0, <2>1
  <2> QED
    BY <1>0, <2>1, <2>2, <2>3 DEF RowsInv
<1>6. ASSUME NEW c \in Callers, UpdateObjectConfig(c) PROVE RowsInv'
  <2>1. UNCHANGED <<useDB, objectACL>> /\ (useDB => objs' = objs)
    BY <1>6 DEF UpdateObjectConfig, lists
  <2> QED
    BY <1>0, <2>1 DEF RowsInv
<1>7. ASSUME UpsertObjectACL PROVE RowsInv'
  <2>1. PICK i \in Ids, q \in Grantees, role \in GrantRoles :
          /\ objs[i] # Nobody \/ ~useDB
          /\ objectACL' = Bind(objectACL, Binding(i, q, role)) /\ UNCHANGED <<useDB, objs>>
    BY <1>7 DEF UpsertObjectACL
  <2>2. CASE ~useDB
    BY <2>1, <2>2 DEF RowsInv
  <2>3. CASE objs[i] # Nobody
    BY <1>0, <2>1, <2>3, RowsStep
  <2> QED
    BY <2>1, <2>2, <2>3
<1>8. ASSUME NEW c \in Callers,
             \/ EnsurePersonal(c) \/ CreateRequest(c) \/ CallFails(c) \/ ACLRequest(c)
             \/ UpsertACL(c) \/ DeleteACL(c) \/ DeleteStorage(c)
             \/ ResolveToken(c) \/ MarkTokenUsed(c) \/ TokenRequest(c) \/ RevokeToken(c)
      PROVE  UNCHANGED <<useDB, objectACL, objs>>
  BY <1>8 DEF EnsurePersonal, CreateRequest, CallFails, ACLRequest, UpsertACL,
              DeleteACL, DeleteStorage, ResolveToken, MarkTokenUsed, TokenRequest,
              RevokeToken, lists
<1>9. ASSUME NEW c \in Callers,
             \/ RotateNotRevoked(c) \/ RotateMint(c) \/ DeleteToken(c) \/ ScopesRequest(c)
             \/ ReplaceTokenStorages(c) \/ DeleteStorageRow(c) \/ PatchRequest(c)
      PROVE  UNCHANGED <<useDB, objectACL, objs>>
  BY <1>9 DEF RotateNotRevoked, RotateMint, DeleteToken, ScopesRequest,
              ReplaceTokenStorages, DeleteStorageRow, PatchRequest, lists
<1>10. ASSUME ExpireBinding \/ CreateToken \/ ExpireToken
       PROVE  UNCHANGED <<useDB, objectACL, objs>>
  BY <1>10 DEF ExpireBinding, CreateToken, ExpireToken, lists
<1> QED
  BY <1>1, <1>2, <1>3, <1>4, <1>5, <1>6, <1>7, <1>8, <1>9, <1>10 DEF AccessNext

-----------------------------------------------------------------------------
\* A token that is there changes its state only, and scopes go.
LEMMA TokensFewer ==
  ASSUME TokensInv, toks' \in [TokenIds -> Tokens], reached' = reached,
         tokenScopes' \subseteq tokenScopes, tokenObjectScopes' \subseteq tokenObjectScopes,
         \A t \in TokenIds : /\ toks'[t].mode = toks[t].mode /\ toks'[t].from = toks[t].from
                             /\ \/ toks'[t].state = toks[t].state
                                \/ toks[t].state = "live" /\ toks'[t].state = "revoked"
                                \/ toks'[t].state = "deleted"
  PROVE  TokensInv'
<1>1. ASSUME NEW t \in TokenIds
      PROVE  TokenOK(t, toks'[t], tokenObjectScopes', reached')
  <2>1. TokenOK(t, toks[t], tokenObjectScopes, reached)
    BY DEF TokensInv
  <2> QED
    BY SMT, <2>1 DEF TokenOK
<1> QED
  BY <1>1 DEF TokensInv

\* One token gets another state.
LEMMA TokenState ==
  ASSUME TokensInv, NEW t \in TokenIds, NEW state \in {"revoked", "deleted"},
         toks' = [toks EXCEPT ![t].state = state],
         state = "revoked" => toks[t].state = "live"
  PROVE  /\ toks' \in [TokenIds -> Tokens]
         /\ \A u \in TokenIds : /\ toks'[u].mode = toks[u].mode
                                /\ toks'[u].from = toks[u].from
                                /\ \/ toks'[u].state = toks[u].state
                                   \/ toks[u].state = "live" /\ toks'[u].state = "revoked"
                                   \/ toks'[u].state = "deleted"
<1> DEFINE new == [toks[t] EXCEPT !.state = state]
<1>1. /\ new \in Tokens /\ new.mode = toks[t].mode
      /\ new.from = toks[t].from /\ new.state = state
  BY DEF TokensInv, Tokens
<1>2. toks' = [toks EXCEPT ![t] = new]
  BY DEF TokensInv
<1> HIDE DEF new
<1> QED
  BY <1>1, <1>2 DEF TokensInv

\* A token is made: it is a new one, so its scopes are those it is given.
LEMMA TokenMade ==
  ASSUME TokensInv, NEW t \in TokenIds, NEW token \in Tokens, NEW granted \in SUBSET Grants,
         InsertToken(t, token, granted), token.state = "live", token.mode \in Modes,
         \A s \in granted : s.tok = t,
         token.from # Nobody =>
           /\ token.mode = "read"
           /\ \A s \in granted : \E x \in reached : x.tok = token.from /\ x.id = s.id
  PROVE  TokensInv'
<1>1. /\ toks' = [toks EXCEPT ![t] = token] /\ toks[t].state = "none"
      /\ tokenScopes' = tokenScopes \cup granted
      /\ tokenObjectScopes' = tokenObjectScopes \cup granted
      /\ reached' = reached \cup granted
  BY DEF InsertToken, Fresh
<1>2. /\ toks' \in [TokenIds -> Tokens] /\ toks'[t] = token
      /\ \A u \in TokenIds : u # t => toks'[u] = toks[u]
  BY <1>1 DEF TokensInv
<1>3. ASSUME NEW u \in TokenIds
      PROVE  TokenOK(u, toks'[u], tokenObjectScopes', reached')
  <2>1. TokenOK(u, toks[u], tokenObjectScopes, reached)
    BY DEF TokensInv
  <2>2. CASE u = t
    <3>1. \A s \in tokenObjectScopes' : s.tok = t => s \in granted
      BY <1>1, <2>1, <2>2 DEF TokenOK
    <3> QED
      BY <1>1, <1>2, <2>2, <3>1 DEF TokenOK
  <2>3. CASE u # t
    <3>1. toks'[u] = toks[u]
      BY <1>2, <2>3
    <3>2. \A s \in tokenObjectScopes' : s.tok = u => s \in tokenObjectScopes
      BY <1>1, <2>3
    <3> QED
      BY SMT, <1>1, <2>1, <3>1, <3>2 DEF TokenOK
  <2> QED
    BY <2>2, <2>3
<1> QED
  BY <1>1, <1>2, <1>3 DEF TokensInv

\* Every step keeps the part about the tokens.
LEMMA TokensPart ==
  ASSUME AccessInv, AccessNext
  PROVE  TokensInv'
<1>0. TokensInv /\ spent \subseteq Ids
  BY DEF AccessInv, StoresInv
<1>1. CASE /\ UNCHANGED <<toks, reached>> /\ tokenScopes' \subseteq tokenScopes
           /\ tokenObjectScopes' \subseteq tokenObjectScopes
  BY <1>0, <1>1, TokensFewer DEF TokensInv
<1>2. ASSUME NEW c \in Callers, RevokeToken(c) PROVE TokensInv'
  <2> DEFINE t == call[c].tok
  <2>1. /\ toks' = [toks EXCEPT ![t].state = IF @ = "live" THEN "revoked" ELSE @]
        /\ UNCHANGED scopes /\ call[c].do \in {"kill", "rotate"}
    BY <1>2 DEF RevokeToken
  <2>2. t \in TokenIds
    BY SMT, <2>1, CallFields DEF AccessInv, CallsInv, TokenCalls
  <2> HIDE DEF t
  <2>3. CASE toks[t].state = "live"
    <3>1. toks' = [toks EXCEPT ![t].state = "revoked"]
      BY <2>1, <2>3
    <3> QED
      BY <1>0, <2>1, <2>2, <2>3, <3>1, TokenState, TokensFewer DEF scopes
  <2>4. CASE toks[t].state # "live"
    <3>1. toks' = toks
      <4>1. [toks[t] EXCEPT !.state = toks[t].state] = toks[t]
        BY <1>0, <2>2 DEF TokensInv, Tokens
      <4> QED
        BY <1>0, <2>1, <2>2, <2>4, <4>1 DEF TokensInv
    <3> QED
      BY <1>1, <2>1, <3>1 DEF scopes
  <2> QED
    BY <2>3, <2>4
<1>3. ASSUME NEW c \in Callers, RotateMint(c) PROVE TokensInv'
  <2>1. PICK t \in TokenIds :
          /\ call[c].do = "mint"
          /\ InsertToken(t, [owner |-> call[c].who, mode |-> "read", state |-> "live",
                             from |-> call[c].tok],
                         {[s EXCEPT !.tok = t] : s \in call[c].read})
    BY <1>3 DEF RotateMint
  <2> DEFINE token == [owner |-> call[c].who, mode |-> "read", state |-> "live",
                       from |-> call[c].tok]
             granted == {[s EXCEPT !.tok = t] : s \in call[c].read}
  <2>2. call[c] \in TokenCalls /\ CallOK(call[c], spent, reached)
    BY <2>1, CallFields DEF AccessInv, CallsInv
  <2>3. /\ call[c].tok \in TokenIds /\ call[c].who \in People
        /\ call[c].read \in SUBSET Grants
        /\ \A s \in call[c].read : s.tok = call[c].tok /\ s \in reached
    BY <2>1, <2>2 DEF TokenCalls, CallOK
  <2>4. /\ token \in Tokens /\ token.state = "live" /\ token.mode = "read"
        /\ token.from = call[c].tok
    BY <2>3 DEF Tokens, Modes
  <2>5. \A s \in Grants : /\ [s EXCEPT !.tok = t] \in Grants
                          /\ [s EXCEPT !.tok = t].tok = t /\ [s EXCEPT !.tok = t].id = s.id
    BY DEF Grants
  <2>6. /\ granted \in SUBSET Grants /\ \A s \in granted : s.tok = t
        /\ \A s \in granted : \E x \in reached : x.tok = call[c].tok /\ x.id = s.id
    <3>1. ASSUME NEW s \in granted
          PROVE  /\ s \in Grants /\ s.tok = t
                 /\ \E x \in reached : x.tok = call[c].tok /\ x.id = s.id
      <4>1. PICK x \in call[c].read : s = [x EXCEPT !.tok = t]
        OBVIOUS
      <4>2. x \in Grants /\ x \in reached /\ x.tok = call[c].tok
        BY <2>3
      <4>3. s \in Grants /\ s.tok = t /\ s.id = x.id
        BY <2>5, <4>1, <4>2
      <4> QED
        BY <4>2, <4>3
    <3> HIDE DEF granted
    <3> QED
      BY <3>1
  <2>7. InsertToken(t, token, granted)
    BY <2>1
  <2> HIDE DEF token, granted
  <2> QED
    BY SMT, <1>0, <2>4, <2>6, <2>7, TokenMade DEF Modes
<1>4. ASSUME CreateToken PROVE TokensInv'
  <2>1. PICK t \in TokenIds, p \in People, ids \in SUBSET spent, mode \in Modes,
             allow \in Allowlists :
          InsertToken(t, [owner |-> p, mode |-> mode, state |-> "live",
                          from |-> Nobody], ScopesOf(t, ids, mode, allow))
    BY <1>4 DEF CreateToken
  <2> DEFINE token == [owner |-> p, mode |-> mode, state |-> "live", from |-> Nobody]
             granted == ScopesOf(t, ids, mode, allow)
  <2>2. token \in Tokens /\ token.state = "live" /\ token.mode \in Modes /\ token.from = Nobody
    BY DEF Tokens
  <2>3. granted \in SUBSET Grants /\ \A s \in granted : s.tok = t
    BY SMT, <1>0 DEF ScopesOf, Grants
  <2>4. InsertToken(t, token, granted)
    BY <2>1
  <2> HIDE DEF token, granted
  <2> QED
    BY <1>0, <2>2, <2>3, <2>4, TokenMade
<1>5. ASSUME NEW c \in Callers, DeleteToken(c) PROVE TokensInv'
  <2>1. /\ toks' = [toks EXCEPT ![call[c].tok].state = "deleted"]
        /\ tokenScopes' \subseteq tokenScopes /\ UNCHANGED <<tokenObjectScopes, reached>>
        /\ call[c].do = "drop"
    BY <1>5 DEF DeleteToken
  <2>2. call[c].tok \in TokenIds
    BY SMT, <2>1, CallFields DEF AccessInv, CallsInv, TokenCalls
  <2> QED
    BY <1>0, <2>1, <2>2, TokenState, TokensFewer
<1>6. ASSUME NEW c \in Callers, ReplaceTokenStorages(c) PROVE TokensInv'
  <2>1. /\ tokenScopes' \subseteq tokenScopes \cup call[c].granted
        /\ reached' = reached \cup call[c].granted /\ UNCHANGED <<toks, tokenObjectScopes>>
        /\ call[c].do = "scopes"
    BY <1>6 DEF ReplaceTokenStorages
  <2>2. call[c].granted \in SUBSET Grants
    BY SMT, <2>1, CallFields DEF AccessInv, CallsInv, ScopeCalls
  <2>3. ASSUME NEW t \in TokenIds
        PROVE  TokenOK(t, toks[t], tokenObjectScopes, reached')
    <3>1. TokenOK(t, toks[t], tokenObjectScopes, reached) /\ reached \subseteq reached'
      BY <1>0, <2>1 DEF TokensInv
    <3> QED
      BY <3>1 DEF TokenOK
  <2> QED
    BY <1>0, <2>1, <2>2, <2>3 DEF TokensInv
<1>7. ASSUME ExpireToken PROVE TokensInv'
  <2>1. PICK t \in TokenIds : /\ toks[t].state = "live" /\ UNCHANGED scopes
                              /\ toks' = [toks EXCEPT ![t].state = "revoked"]
    BY <1>7 DEF ExpireToken
  <2> QED
    BY <1>0, <2>1, TokenState, TokensFewer DEF scopes
<1>8. ASSUME NEW c \in Callers,
             \/ EnsurePersonal(c) \/ CreateRequest(c) \/ CreateStorage(c)
             \/ CreateStorageObject(c) \/ CreateObject(c) \/ CallFails(c)
             \/ ACLRequest(c) \/ UpsertACL(c) \/ DeleteACL(c)
      PROVE  UNCHANGED <<toks, scopes>>
  BY <1>8 DEF EnsurePersonal, CreateRequest, CreateStorage, CreateStorageObject,
              CreateObject, CallFails, ACLRequest, UpsertACL, DeleteACL
<1>9. ASSUME NEW c \in Callers,
             \/ ResolveToken(c) \/ MarkTokenUsed(c) \/ TokenRequest(c)
             \/ RotateNotRevoked(c) \/ ScopesRequest(c) \/ DeleteStorageRow(c)
             \/ PatchRequest(c) \/ UpdateObjectConfig(c)
      PROVE  UNCHANGED <<toks, scopes>>
  BY <1>9 DEF ResolveToken, MarkTokenUsed, TokenRequest, RotateNotRevoked,
              ScopesRequest, DeleteStorageRow, PatchRequest, UpdateObjectConfig
<1>10. ASSUME ExpireBinding \/ UpsertObjectACL PROVE UNCHANGED <<toks, scopes>>
  BY <1>10 DEF ExpireBinding, UpsertObjectACL
<1>11. ASSUME NEW c \in Callers, DeleteStorage(c) \/ DeleteObject(c)
       PROVE  /\ UNCHANGED <<toks, reached>> /\ tokenScopes' \subseteq tokenScopes
              /\ tokenObjectScopes' \subseteq tokenObjectScopes
  BY <1>11 DEF DeleteStorage, DeleteObject
<1>12. ASSUME UNCHANGED <<toks, scopes>> PROVE TokensInv'
  BY <1>1, <1>12 DEF scopes
<1> QED
  BY <1>1, <1>2, <1>3, <1>4, <1>5, <1>6, <1>7, <1>8, <1>9, <1>10, <1>11, <1>12
     DEF AccessNext

-----------------------------------------------------------------------------
\* At the start the personal storages of different people are different.
LEMMA AccessStart ==
  ASSUME AccessInit
  PROVE  AccessInv
<1>1. /\ stores \in [Ids -> People \cup {Nobody}]
      /\ \A i, j \in Ids : SameSlug(stores[i], stores[j]) => i = j
  <2>1. CASE stores = [i \in Ids |-> Nobody]
    BY <2>1 DEF SameSlug
  <2>2. CASE stores = [i \in Ids |-> IF i \in DOMAIN Settled THEN Settled[i] ELSE Nobody]
    BY <2>2, AccessAssumption DEF SameSlug
  <2> QED
    BY <2>1, <2>2 DEF AccessInit
<1>2. /\ spent = {i \in Ids : stores[i] # Nobody} /\ slug = stores /\ useDB \in BOOLEAN
      /\ objs = [i \in Ids |-> IF i \in spent THEN "storage" ELSE Nobody]
      /\ acl = {[id |-> i, who |-> stores[i], role |-> "owner", live |-> TRUE] : i \in spent}
      /\ objectACL = acl
      /\ toks = [t \in TokenIds |-> NoToken]
      /\ tokenScopes = {} /\ tokenObjectScopes = {} /\ reached = {}
      /\ call = [c \in Callers |-> NoCall]
  BY DEF AccessInit
<1>3. CallsInv
  <2>1. NoCall \in Calls /\ NoCall.do = "none"
    BY DEF NoCall, Calls
  <2> QED
    BY <1>2, <2>1 DEF CallsInv, CallOK
<1>4. StoresInv
  BY <1>1, <1>2 DEF StoresInv, OnePersonal
<1>5. ListsInv
  <2>1. ASSUME NEW b \in acl PROVE b \in Bindings
    <3>1. PICK i \in spent :
            b = [id |-> i, who |-> stores[i], role |-> "owner", live |-> TRUE]
      BY <1>2
    <3>2. i \in Ids /\ stores[i] \in Subjects
      BY <1>1, <1>2 DEF Subjects
    <3> QED
      BY <3>1, <3>2 DEF Bindings, Roles
  <2>2. objs \in [Ids -> ObjectKinds]
    BY <1>2 DEF ObjectKinds
  <2> QED
    BY <1>2, <2>1, <2>2 DEF ListsInv
<1>7. RowsInv
  <2>1. ASSUME NEW b \in acl PROVE objs[b.id] # Nobody
    <3>1. PICK i \in spent :
            b = [id |-> i, who |-> stores[i], role |-> "owner", live |-> TRUE]
      BY <1>2
    <3>2. i \in Ids /\ b.id = i
      BY <1>2, <3>1
    <3> QED
      BY <1>2, <3>2 DEF Nobody
  <2> QED
    BY <1>2, <2>1 DEF RowsInv
<1>6. TokensInv
  <2>1. NoToken \in Tokens /\ NoToken.state = "none" /\ NoToken.from = Nobody
    BY DEF NoToken, Tokens
  <2> QED
    BY <1>2, <2>1 DEF TokensInv, TokenOK
<1> QED
  BY <1>3, <1>4, <1>5, <1>6, <1>7 DEF AccessInv

\* The access store in every reachable state.
LEMMA AccessInductive == AccessSpec => []AccessInv
<1>1. AccessInit => AccessInv
  BY AccessStart
<1>2. AccessInv /\ [AccessNext]_accessVars => AccessInv'
  <2> SUFFICES ASSUME AccessInv, [AccessNext]_accessVars PROVE AccessInv'
    OBVIOUS
  <2>1. CASE AccessNext
    BY <2>1, CallsPart, StoresPart, ListsPart, RowsPart, TokensPart DEF AccessInv
  <2>2. CASE UNCHANGED accessVars
    <3>1. CallsInv' /\ ListsInv' /\ TokensInv'
      BY SMT, <2>2 DEF accessVars, lists, scopes, AccessInv, CallsInv, CallOK, ListsInv,
                  TokensInv, TokenOK
    <3>2. StoresInv'
      BY <2>2 DEF accessVars, AccessInv, StoresInv, OnePersonal, SameSlug
    <3>3. RowsInv'
      BY <2>2 DEF accessVars, lists, AccessInv, RowsInv
    <3> QED
      BY <3>1, <3>2, <3>3 DEF AccessInv
  <2> QED
    BY <2>1, <2>2
<1> QED
  BY <1>1, <1>2, PTL DEF AccessSpec

\* With PostgreSQL nobody has two personal storages, for any number of people
\* and of concurrent requests: the unique slug decides between two that both
\* found none, and the transaction that makes the object cannot bring a
\* deleted one back beside its successor (store.go:555).
THEOREM OnePersonalHolds == AccessSpec => []OnePersonal
<1>1. AccessInv => OnePersonal
  BY DEF AccessInv, StoresInv
<1> QED
  BY <1>1, AccessInductive, PTL

\* A token that is revoked, expired or deleted never resolves again, whatever
\* requests that had read it before still do (store.go:1043, 1222): tokens are
\* inserted once, and no write but that sets a state to live.
THEOREM RevokedStaysHolds == AccessSpec => RevokedStays
<1> DEFINE Stays == \A t \in TokenIds :
      toks[t].state \in {"revoked", "deleted"} => toks'[t].state # "live"
<1>1. AccessInv /\ [AccessNext]_accessVars => [Stays]_accessVars
  <2> SUFFICES ASSUME AccessInv, AccessNext PROVE Stays
    OBVIOUS
  <2>0. toks \in [TokenIds -> Tokens]
    BY DEF AccessInv, TokensInv
  <2>1. CASE toks' = toks
    BY <2>1
  <2>2. ASSUME NEW t \in TokenIds, NEW token, NEW granted, InsertToken(t, token, granted)
        PROVE  Stays
    <3>1. toks[t].state = "none" /\ toks' = [toks EXCEPT ![t] = token]
      BY <2>2 DEF InsertToken, Fresh
    <3>2. \A u \in TokenIds : u # t => toks'[u] = toks[u]
      BY <2>0, <3>1
    <3> QED
      BY <3>1, <3>2
  <2>3. ASSUME NEW t, NEW state \in {"revoked", "deleted"},
               toks' = [toks EXCEPT ![t].state = state]
        PROVE  Stays
    BY <2>0, <2>3 DEF Tokens
  <2>4. ASSUME NEW c \in Callers, RevokeToken(c) PROVE Stays
    <3>1. toks' = [toks EXCEPT ![call[c].tok].state = IF @ = "live" THEN "revoked" ELSE @]
      BY <2>4 DEF RevokeToken
    <3> QED
      BY <2>0, <3>1 DEF Tokens
  <2>5. ASSUME NEW c \in Callers,
               \/ EnsurePersonal(c) \/ CreateRequest(c) \/ CreateStorage(c)
               \/ CreateStorageObject(c) \/ CreateObject(c) \/ CallFails(c)
               \/ ACLRequest(c) \/ UpsertACL(c) \/ DeleteACL(c) \/ DeleteStorage(c)
        PROVE  toks' = toks
    BY <2>5 DEF EnsurePersonal, CreateRequest, CreateStorage, CreateStorageObject,
                CreateObject, CallFails, ACLRequest, UpsertACL, DeleteACL, DeleteStorage
  <2>6. ASSUME NEW c \in Callers,
               \/ ResolveToken(c) \/ MarkTokenUsed(c) \/ TokenRequest(c)
               \/ RotateNotRevoked(c) \/ ScopesRequest(c) \/ ReplaceTokenStorages(c)
               \/ DeleteObject(c) \/ DeleteStorageRow(c) \/ PatchRequest(c)
               \/ UpdateObjectConfig(c)
        PROVE  toks' = toks
    BY <2>6 DEF ResolveToken, MarkTokenUsed, TokenRequest, RotateNotRevoked,
                ScopesRequest, ReplaceTokenStorages, DeleteObject, DeleteStorageRow,
                PatchRequest, UpdateObjectConfig
  <2>7. ASSUME ExpireBinding \/ UpsertObjectACL PROVE toks' = toks
    BY <2>7 DEF ExpireBinding, UpsertObjectACL
  <2>8. ASSUME NEW c \in Callers, RotateMint(c) PROVE Stays
    BY <2>2, <2>8 DEF RotateMint
  <2>9. ASSUME CreateToken PROVE Stays
    BY <2>2, <2>9 DEF CreateToken
  <2>10. ASSUME NEW c \in Callers, DeleteToken(c) PROVE Stays
    BY <2>3, <2>10 DEF DeleteToken
  <2>11. ASSUME ExpireToken PROVE Stays
    BY <2>3, <2>11 DEF ExpireToken
  <2> HIDE DEF Stays
  <2> QED
    BY <2>1, <2>4, <2>5, <2>6, <2>7, <2>8, <2>9, <2>10, <2>11 DEF AccessNext
<1> QED
  BY <1>1, AccessInductive, PTL DEF AccessSpec, RevokedStays

\* A rotated token reads only, and only what its predecessor has had a scope
\* for, for any number of tokens and of requests that revoke, rescope, rotate
\* and delete them in between (admin_handler.go:629).
THEOREM RotatedWithinHolds == AccessSpec => []RotatedWithin
<1>1. AccessInv => RotatedWithin
  <2> SUFFICES ASSUME AccessInv, NEW t \in TokenIds, toks[t].from # Nobody,
                      NEW i \in Ids, NEW g \in tokenObjectScopes, g.tok = t, g.id = i
               PROVE  /\ ScopeMode([who |-> toks[t].owner, tok |-> t],
                                   {s \in tokenObjectScopes : s.tok = t}, i) = "read"
                      /\ \E s \in reached : s.tok = toks[t].from /\ s.id = i
    BY SMT DEF RotatedWithin
  <2>1. TokenOK(t, toks[t], tokenObjectScopes, reached) /\ tokenObjectScopes \subseteq Grants
    BY DEF AccessInv, TokensInv
  <2>2. toks[t].mode = "read" /\ \E s \in reached : s.tok = toks[t].from /\ s.id = i
    BY <2>1 DEF TokenOK
  <2> DEFINE c == [who |-> toks[t].owner, tok |-> t]
             first == {s \in tokenObjectScopes : s.tok = t}
             mine == {s \in first : s.tok = c.tok /\ s.id = i}
             s0 == CHOOSE s \in mine : TRUE
  <2>3. g \in mine /\ mine \subseteq Grants
    BY <2>1
  <2>4. s0 \in mine
    <3> HIDE DEF mine
    <3> QED
      BY <2>3
  <2>5. s0.mode \in {"read", "read_write"}
    <3> HIDE DEF mine, s0
    <3> QED
      BY <2>3, <2>4 DEF Grants, Modes
  <2>6. ScopeMode(c, first, i) = intersectMode(toks[t].mode, s0.mode)
    BY <2>3 DEF ScopeMode
  <2>7. intersectMode(toks[t].mode, s0.mode) = "read"
    <3> HIDE DEF s0
    <3> QED
      BY <2>2, <2>5 DEF intersectMode
  <2> QED
    BY <2>2, <2>6, <2>7
<1> QED
  BY <1>1, AccessInductive, PTL

\* A mode that permits something comes from a scope of the token.
LEMMA ModeFromScope ==
  ASSUME NEW c, NEW granted, NEW i, NEW perm,
         perm \in ModePermissions(ScopeMode(c, granted, i))
  PROVE  /\ ScopeMode(c, granted, i) # "none"
         /\ \E s \in granted : s.tok = c.tok /\ s.id = i
<1>1. ScopeMode(c, granted, i) # "none"
  BY DEF ModePermissions
<1>2. {s \in granted : s.tok = c.tok /\ s.id = i} # {}
  BY <1>1 DEF ScopeMode
<1> QED
  BY <1>1, <1>2

\* An object whose probe is allowed is among those a listing looks at.
LEMMA AllowedIsLookedAt ==
  ASSUME NEW c, NEW i \in ListObjects, NEW method, CanAccessObject(c, i, method)
  PROVE  i \in ListAccessibleObjects(c)
<1>1. CASE c.tok = Nobody
  <2> DEFINE bound == {b \in ObjectACLForSubject(c) : b.id = i}
             all == UNION {RolePermissions(b.role) : b \in bound}
  <2>1. method \in all \/ c.who \in Admins
    BY <1>1 DEF CanAccessObject, MethodsAllowed
  <2>2. method \in all => \E b \in ObjectACLForSubject(c) : b.id = i
    OBVIOUS
  <2> HIDE DEF all
  <2> QED
    BY <1>1, <2>1, <2>2 DEF ListAccessibleObjects
<1>2. CASE c.tok # Nobody
  <2>1. method \in ModePermissions(ScopeMode(c, TokenObjects(c.tok), i))
    BY <1>2 DEF CanAccessObject
  <2>2. \E s \in TokenObjects(c.tok) : s.id = i
    BY SMT, <2>1, ModeFromScope
  <2> QED
    BY <1>2, <2>2 DEF ListAccessibleObjects
<1> QED
  BY <1>1, <1>2

\* What a caller may use is listed, in every state that requests, expiries and
\* half-done creations and deletions lead to; but for a storage whose object
\* row PostgreSQL lacks, and then only platform admins and tokens may use it,
\* because a binding goes with the row (objects.go:236, 795).
THEOREM AllowedIsListedHolds == AccessSpec => []AllowedIsListed
<1>1. AccessInv => AllowedIsListed
  <2> SUFFICES ASSUME AccessInv, NEW c \in Persons \cup Bearers, NEW i \in Ids,
                      CanAccessObject(c, i, Probe(i)), i \notin AvailableObjects(c)
               PROVE  useDB /\ objs[i] = Nobody /\ (c.tok # Nobody \/ c.who \in Admins)
    BY DEF AllowedIsListed
  <2>1. i \notin ListAccessibleObjects(c)
    BY DEF AvailableObjects
  <2>2. i \notin ListObjects
    BY <2>1, AllowedIsLookedAt
  <2>3. GetObject(i) # Nobody
    BY DEF CanAccessObject
  <2>4. useDB /\ objs[i] = Nobody
    BY <2>2, <2>3 DEF GetObject, ListObjects
  <2>5. ASSUME c.tok = Nobody, c.who \notin Admins PROVE FALSE
    <3>1. Probe(i) \in UNION {RolePermissions(b.role) :
                                b \in {d \in ObjectACLForSubject(c) : d.id = i}}
      BY <2>5 DEF CanAccessObject, MethodsAllowed
    <3>2. PICK b \in ObjectACLForSubject(c) : b.id = i
      BY <3>1
    <3>3. b \in objectACL
      BY <2>4 DEF ObjectACLForSubject
    <3> QED
      BY <2>4, <3>2, <3>3 DEF AccessInv, RowsInv
  <2> QED
    BY <2>4, <2>5
<1> QED
  BY <1>1, AccessInductive, PTL

-----------------------------------------------------------------------------
\* Session.
SessionSteps == [op : {"none", "create", "delete"}, id : SessionIds \cup {"none"}]

SessionTypeOK ==
  /\ maker \in [SessionIds -> Processes \cup {"none"}]
  /\ inMemory \in [Processes -> SUBSET SessionIds]
  /\ inRedis \in SUBSET SessionIds /\ dropped \in SUBSET SessionIds
  /\ step \in [Processes -> SessionSteps]

\* A request of process p: a session being made is its own and was not
\* dropped; one being deleted is out of its memory.
StepOK(p, st, mk, mem, gone) ==
  /\ st.op # "none" => st.id \in SessionIds /\ mk[st.id] # "none"
  /\ st.op = "create" => mk[st.id] = p /\ st.id \notin gone
  /\ st.op = "delete" => st.id \notin mem

\* Only the process that made a session has it in memory, and a dropped
\* session is nowhere.
SessionInv ==
  /\ SessionTypeOK
  /\ \A p \in Processes : StepOK(p, step[p], maker, inMemory[p], dropped)
  /\ \A p \in Processes : \A s \in inMemory[p] : maker[s] = p
  /\ \A s \in inRedis : maker[s] # "none"
  /\ \A s \in dropped : /\ maker[s] # "none" /\ s \notin inRedis
                        /\ \A p \in Processes : s \notin inMemory[p]

\* The step of a process changes its own memory and request only.
LEMMA SessionProcess ==
  ASSUME SessionTypeOK, NEW p \in Processes, NEW st \in SessionSteps,
         step' = [step EXCEPT ![p] = st]
  PROVE  /\ step' \in [Processes -> SessionSteps] /\ step'[p] = st
         /\ \A q \in Processes : q # p => step'[q] = step[q]
  BY DEF SessionTypeOK

\* A session is created.
LEMMA SessionCreateSteps ==
  ASSUME SessionInv, NEW p \in Processes, CreatePersist(p) \/ CreateKeep(p)
  PROVE  SessionInv'
<1> USE DEF SessionInv
<1>0. AtRest \in SessionSteps /\ AtRest.op = "none"
  BY DEF AtRest, SessionSteps
<1>1. CASE CreatePersist(p)
  <2>1. PICK s \in SessionIds :
          /\ maker[s] = "none" /\ maker' = [maker EXCEPT ![s] = p]
          /\ Begins(p, "create", s)
          /\ inRedis' \in {inRedis, inRedis \cup (IF shared THEN {s} ELSE {})}
          /\ UNCHANGED <<shared, inMemory, past, dropped>>
    BY <1>1 DEF CreatePersist
  <2> DEFINE st == [op |-> "create", id |-> s]
  <2>2. st \in SessionSteps /\ st.op = "create" /\ st.id = s
    BY DEF SessionSteps
  <2>3. step' = [step EXCEPT ![p] = st]
    BY <2>1 DEF Begins
  <2> HIDE DEF st
  <2>4. /\ step' \in [Processes -> SessionSteps] /\ step'[p] = st
        /\ \A q \in Processes : q # p => step'[q] = step[q]
    BY <2>2, <2>3, SessionProcess
  <2>5. /\ maker' \in [SessionIds -> Processes \cup {"none"}] /\ maker'[s] = p
        /\ \A x \in SessionIds : x # s => maker'[x] = maker[x]
        /\ p # "none"
    BY <2>1, SessionAssumption DEF SessionTypeOK
  <2>6. inRedis' \in SUBSET (inRedis \cup {s})
    BY <2>1
  <2>7. SessionTypeOK'
    BY <2>1, <2>4, <2>5, <2>6 DEF SessionTypeOK
  <2>8. s \notin dropped /\ s \notin inRedis /\ \A q \in Processes : s \notin inMemory[q]
    BY <2>1, SessionAssumption
  <2>9. ASSUME NEW q \in Processes
        PROVE  StepOK(q, step'[q], maker', inMemory[q], dropped)
    <3>1. CASE q = p
      BY <2>2, <2>4, <2>5, <2>8, <3>1 DEF StepOK
    <3>2. CASE q # p
      <4>1. StepOK(q, step[q], maker, inMemory[q], dropped)
        OBVIOUS
      <4> QED
        BY SMT, <2>1, <2>4, <2>5, <3>2, <4>1 DEF StepOK
    <3> QED
      BY <3>1, <3>2
  <2>10. \A q \in Processes : \A x \in inMemory[q] : maker'[x] = q
    BY SMT, <2>5, <2>8 DEF SessionTypeOK
  <2>11. \A x \in inRedis' : maker'[x] # "none"
    BY <2>5, <2>6 DEF SessionTypeOK
  <2>12. \A x \in dropped : maker'[x] # "none" /\ x \notin inRedis'
    BY <2>5, <2>6, <2>8 DEF SessionTypeOK
  <2> QED
    BY <2>1, <2>7, <2>9, <2>10, <2>11, <2>12
<1>2. CASE CreateKeep(p)
  <2> DEFINE s == step[p].id
  <2>1. /\ step[p].op = "create" /\ inMemory' = [inMemory EXCEPT ![p] = @ \cup {s}]
        /\ step' = [step EXCEPT ![p] = AtRest]
        /\ UNCHANGED <<shared, maker, inRedis, past, dropped>>
    BY <1>2 DEF CreateKeep, Ends
  <2>2. s \in SessionIds /\ maker[s] = p /\ s \notin dropped
    BY <2>1 DEF StepOK
  <2> HIDE DEF s
  <2>3. /\ step' \in [Processes -> SessionSteps] /\ step'[p] = AtRest
        /\ \A q \in Processes : q # p => step'[q] = step[q]
    BY <1>0, <2>1, SessionProcess
  <2>4. /\ inMemory' \in [Processes -> SUBSET SessionIds]
        /\ inMemory'[p] = inMemory[p] \cup {s}
        /\ \A q \in Processes : q # p => inMemory'[q] = inMemory[q]
    BY SMT, <2>1, <2>2 DEF SessionTypeOK
  <2>5. SessionTypeOK'
    BY <2>1, <2>3, <2>4 DEF SessionTypeOK
  <2>6. \A q \in Processes : StepOK(q, step'[q], maker, inMemory'[q], dropped)
    <3>1. StepOK(p, AtRest, maker, inMemory'[p], dropped)
      BY <1>0 DEF StepOK
    <3> QED
      BY <2>3, <2>4, <3>1
  <2> QED
    BY SMT, <2>1, <2>2, <2>4, <2>5, <2>6
<1> QED
  BY <1>1, <1>2

\* A session is deleted.
LEMMA SessionDeleteSteps ==
  ASSUME SessionInv, NEW p \in Processes,
         DeleteMCPSession(p) \/ DeleteScan(p) \/ DeleteScanFails(p)
  PROVE  SessionInv'
<1> USE DEF SessionInv
<1>0. AtRest \in SessionSteps /\ AtRest.op = "none"
  BY DEF AtRest, SessionSteps
<1>1. CASE DeleteMCPSession(p)
  <2>1. PICK s \in SessionIds :
          /\ Accepted(p, s) /\ Begins(p, "delete", s)
          /\ inMemory' = [inMemory EXCEPT ![p] = @ \ {s}]
          /\ UNCHANGED <<shared, maker, inRedis, past, dropped>>
    BY <1>1 DEF DeleteMCPSession
  <2> DEFINE st == [op |-> "delete", id |-> s]
  <2>2. st \in SessionSteps /\ st.op = "delete" /\ st.id = s
    BY DEF SessionSteps
  <2>3. step' = [step EXCEPT ![p] = st]
    BY <2>1 DEF Begins
  <2> HIDE DEF st
  <2>4. /\ step' \in [Processes -> SessionSteps] /\ step'[p] = st
        /\ \A q \in Processes : q # p => step'[q] = step[q]
    BY <2>2, <2>3, SessionProcess
  <2>5. /\ inMemory' \in [Processes -> SUBSET SessionIds]
        /\ inMemory'[p] = inMemory[p] \ {s}
        /\ \A q \in Processes : q # p => inMemory'[q] = inMemory[q]
    BY <2>1 DEF SessionTypeOK
  <2>6. SessionTypeOK'
    BY <2>1, <2>4, <2>5 DEF SessionTypeOK
  <2>7. maker[s] # "none"
    BY <2>1, SessionAssumption DEF Accepted
  <2>8. StepOK(p, st, maker, inMemory'[p], dropped)
    BY <2>2, <2>5, <2>7 DEF StepOK
  <2> QED
    BY SMT, <2>1, <2>4, <2>5, <2>6, <2>8
<1>2. CASE DeleteScan(p)
  <2> DEFINE s == step[p].id
  <2>1. /\ step[p].op = "delete" /\ inRedis' = inRedis \ {s}
        /\ dropped' = IF maker[s] = p THEN dropped \cup {s} ELSE dropped
        /\ step' = [step EXCEPT ![p] = AtRest]
        /\ UNCHANGED <<shared, maker, inMemory, past>>
    BY <1>2 DEF DeleteScan, Ends, RedisKeys
  <2>2. s \in SessionIds /\ maker[s] # "none" /\ s \notin inMemory[p]
    BY <2>1 DEF StepOK
  <2> HIDE DEF s
  <2>3. /\ step' \in [Processes -> SessionSteps] /\ step'[p] = AtRest
        /\ \A q \in Processes : q # p => step'[q] = step[q]
    BY <1>0, <2>1, SessionProcess
  <2>4. SessionTypeOK'
    BY <2>1, <2>2, <2>3 DEF SessionTypeOK
  <2>5. ASSUME NEW q \in Processes
        PROVE  StepOK(q, step'[q], maker, inMemory[q], dropped')
    <3>1. CASE q = p
      BY <1>0, <2>3, <3>1 DEF StepOK
    <3>2. CASE q # p
      <4>1. StepOK(q, step[q], maker, inMemory[q], dropped)
        OBVIOUS
      <4> QED
        BY <2>1, <2>3, <3>2, <4>1 DEF StepOK
    <3> QED
      BY <3>1, <3>2
  <2>6. \A x \in dropped' : /\ maker[x] # "none" /\ x \notin inRedis'
                            /\ \A q \in Processes : x \notin inMemory[q]
    BY SMT, <2>1, <2>2
  <2> QED
    BY <2>1, <2>4, <2>5, <2>6
<1>3. CASE DeleteScanFails(p)
  <2>1. step' = [step EXCEPT ![p] = AtRest]
        /\ UNCHANGED <<shared, maker, inMemory, inRedis, past, dropped>>
    BY <1>3 DEF DeleteScanFails, Ends
  <2>2. /\ step' \in [Processes -> SessionSteps] /\ step'[p] = AtRest
        /\ \A q \in Processes : q # p => step'[q] = step[q]
    BY <1>0, <2>1, SessionProcess
  <2>3. StepOK(p, AtRest, maker, inMemory[p], dropped)
    BY <1>0 DEF StepOK
  <2> QED
    BY <2>1, <2>2, <2>3 DEF SessionTypeOK
<1> QED
  BY <1>1, <1>2, <1>3

\* Time passes, or a process restarts.
LEMMA SessionOtherSteps ==
  ASSUME SessionInv,
         \/ \E p \in Processes : EvictExpired(p) \/ Restart(p)
         \/ \E s \in SessionIds : SessionTTL(s)
  PROVE  SessionInv'
<1> USE DEF SessionInv
<1>0. AtRest \in SessionSteps /\ AtRest.op = "none"
  BY DEF AtRest, SessionSteps
<1>1. ASSUME NEW p \in Processes, EvictExpired(p) PROVE SessionInv'
  <2>1. /\ inMemory' \in [Processes -> SUBSET SessionIds]
        /\ \A q \in Processes : inMemory'[q] \subseteq inMemory[q]
        /\ UNCHANGED <<shared, maker, inRedis, past, step, dropped>>
    BY <1>1 DEF EvictExpired, SessionTypeOK
  <2>2. \A q \in Processes : StepOK(q, step[q], maker, inMemory'[q], dropped)
    BY SMT, <2>1 DEF StepOK
  <2> QED
    BY <2>1, <2>2 DEF SessionTypeOK
<1>2. ASSUME NEW p \in Processes, Restart(p) PROVE SessionInv'
  <2>1. /\ inMemory' \in [Processes -> SUBSET SessionIds]
        /\ \A q \in Processes : inMemory'[q] \subseteq inMemory[q]
        /\ step' = [step EXCEPT ![p] = AtRest]
        /\ UNCHANGED <<shared, maker, inRedis, past, dropped>>
    BY <1>2 DEF Restart, Ends, SessionTypeOK
  <2>2. /\ step' \in [Processes -> SessionSteps] /\ step'[p] = AtRest
        /\ \A q \in Processes : q # p => step'[q] = step[q]
    BY <1>0, <2>1, SessionProcess
  <2>3. \A q \in Processes : StepOK(q, step'[q], maker, inMemory'[q], dropped)
    BY SMT, <1>0, <2>1, <2>2 DEF StepOK
  <2> QED
    BY <2>1, <2>2, <2>3 DEF SessionTypeOK
<1>3. ASSUME NEW s \in SessionIds, SessionTTL(s) PROVE SessionInv'
  BY <1>3 DEF SessionTTL, SessionTypeOK
<1> QED
  BY <1>1, <1>2, <1>3

\* A session whose maker has answered DELETE, with every Redis call answered,
\* is accepted by no process ever after: however creations, deletions in other
\* processes, expiries and restarts interleave (redis_store.go:75).
THEOREM DroppedIsUnknownHolds == SessionSpec => []DroppedIsUnknown
<1>1. SessionInit => SessionInv
  <2> SUFFICES ASSUME SessionInit PROVE SessionInv
    OBVIOUS
  <2>0. AtRest \in SessionSteps /\ AtRest.op = "none"
    BY DEF AtRest, SessionSteps
  <2>1. SessionTypeOK
    BY <2>0 DEF SessionInit, SessionTypeOK
  <2> QED
    BY <2>0, <2>1 DEF SessionInit, SessionInv, StepOK
<1>2. SessionInv /\ [SessionNext]_sessionVars => SessionInv'
  <2> SUFFICES ASSUME SessionInv, [SessionNext]_sessionVars PROVE SessionInv'
    OBVIOUS
  <2>1. CASE UNCHANGED sessionVars
    BY <2>1 DEF sessionVars, SessionInv, SessionTypeOK, StepOK
  <2> QED
    BY <2>1, SessionCreateSteps, SessionDeleteSteps, SessionOtherSteps DEF SessionNext
<1>3. SessionInv => DroppedIsUnknown
  BY DEF SessionInv, DroppedIsUnknown, Accepted
<1> QED
  BY <1>1, <1>2, <1>3, PTL DEF SessionSpec

-----------------------------------------------------------------------------
\* Accounts.
UserRecords == [status : {"none", "active", "disabled"},
                hash : Passwords \cup {NoPassword}]
Visits == {Resting} \cup [do : {"ensure"}, user : Users]
          \cup [do : {"update"}, user : Users, read : UserRecords]
          \cup [do : {"password"}, user : Users, new : Passwords]

\* With PostgreSQL the hash of every row is the password last set: a request
\* that has read a row holds an old hash, and no write uses it.
AccountsInv ==
  /\ users \in [Users -> UserRecords]
  /\ chosen \in [Users -> Passwords \cup {NoPassword}]
  /\ visit \in [Visitors -> Visits]
  /\ inDB => \A u \in Users : users[u].hash = chosen[u]

\* Putting a record keeps the hash of a row.
LEMMA PutKeepsHash ==
  ASSUME AccountsInv, NEW u \in Users, NEW status \in {"active", "disabled"},
         Put(u, status)
  PROVE  /\ users' \in [Users -> UserRecords]
         /\ inDB => \A x \in Users : users'[x].hash = users[x].hash
<1> DEFINE new == [status |-> status,
                   hash |-> IF inDB THEN users[u].hash ELSE NoPassword]
<1>1. new \in UserRecords /\ (inDB => new.hash = users[u].hash)
  BY DEF AccountsInv, UserRecords
<1>2. users' = [users EXCEPT ![u] = new]
  BY DEF Put
<1> HIDE DEF new
<1> QED
  BY <1>1, <1>2 DEF AccountsInv

\* The steps of a request.
LEMMA AccountsVisitSteps ==
  ASSUME AccountsInv, NEW v \in Visitors,
         \/ Ensure(v) \/ UpsertUserFromPrincipal(v) \/ GetUser(v)
         \/ CheckUserPassword(v) \/ WriteFails(v)
  PROVE  AccountsInv'
<1> USE DEF AccountsInv
<1>0. Resting \in Visits
  BY DEF Visits
<1>1. CASE Ensure(v)
  <2>1. PICK u \in Users : visit' = [visit EXCEPT ![v] = [do |-> "ensure", user |-> u]]
    BY <1>1 DEF Ensure, Visit
  <2>2. [do |-> "ensure", user |-> u] \in Visits
    BY DEF Visits
  <2> QED
    BY SMT, <1>1, <2>1, <2>2 DEF Ensure
<1>2. CASE UpsertUserFromPrincipal(v)
  <2>1. visit[v].do = "ensure" /\ visit[v] \in Visits
    BY <1>2 DEF UpsertUserFromPrincipal
  <2>2. visit[v].user \in Users
    BY SMT, <2>1 DEF Visits, Resting
  <2>3. /\ users' \in [Users -> UserRecords]
        /\ inDB => \A x \in Users : users'[x].hash = users[x].hash
    BY <1>2, <2>2, PutKeepsHash DEF UpsertUserFromPrincipal
  <2> QED
    BY <1>0, <1>2, <2>3 DEF UpsertUserFromPrincipal, Visit
<1>3. CASE GetUser(v)
  <2>1. PICK u \in Users, status \in {"active", "disabled", "same"} :
          \E p \in Actors :
            Visit(v, [do |-> "update", user |-> u,
                      read |-> IF p = Chief /\ status # "same"
                               THEN [users[u] EXCEPT !.status = status]
                               ELSE users[u]])
    BY <1>3 DEF GetUser
  <2>2. PICK row \in UserRecords :
          visit' = [visit EXCEPT ![v] = [do |-> "update", user |-> u, read |-> row]]
    <3>1. users[u] \in UserRecords
      OBVIOUS
    <3>2. status # "same" => [users[u] EXCEPT !.status = status] \in UserRecords
      BY <3>1 DEF UserRecords
    <3> QED
      BY <2>1, <3>1, <3>2 DEF Visit
  <2>3. [do |-> "update", user |-> u, read |-> row] \in Visits
    BY DEF Visits
  <2> QED
    BY SMT, <1>3, <2>2, <2>3 DEF GetUser
<1>4. CASE CheckUserPassword(v)
  <2>1. PICK u \in Users, new \in Passwords :
          visit' = [visit EXCEPT ![v] = [do |-> "password", user |-> u, new |-> new]]
    BY <1>4 DEF CheckUserPassword, Visit
  <2>2. [do |-> "password", user |-> u, new |-> new] \in Visits
    BY DEF Visits
  <2> QED
    BY SMT, <1>4, <2>1, <2>2 DEF CheckUserPassword
<1>5. CASE WriteFails(v)
  BY <1>0, <1>5 DEF WriteFails, Visit
<1> QED
  BY <1>1, <1>2, <1>3, <1>4, <1>5

\* The writes of a request that has read a record.
LEMMA AccountsWriteSteps ==
  ASSUME AccountsInv, NEW v \in Visitors, UpdateUser(v) \/ SetUserPassword(v)
  PROVE  AccountsInv'
<1> USE DEF AccountsInv
<1>0. Resting \in Visits /\ visit[v] \in Visits
  BY DEF Visits
<1>1. CASE UpdateUser(v)
  <2>1. visit[v].do = "update"
    BY <1>1 DEF UpdateUser
  <2> DEFINE u == visit[v].user
             row == visit[v].read
  <2>2. u \in Users /\ row \in UserRecords
    BY SMT, <1>0, <2>1 DEF Visits, Resting
  <2>3. /\ \/ users' = users
           \/ ~inDB /\ users' = [users EXCEPT ![u] = row]
           \/ users' = [users EXCEPT ![u].status = row.status]
        /\ visit' = [visit EXCEPT ![v] = Resting]
        /\ UNCHANGED <<inDB, chosen>>
    BY <1>1 DEF UpdateUser, Visit
  <2> HIDE DEF u, row
  <2>4. /\ users' \in [Users -> UserRecords]
        /\ inDB => \A x \in Users : users'[x].hash = users[x].hash
    <3>1. CASE users' = users
      BY <3>1
    <3>2. CASE ~inDB /\ users' = [users EXCEPT ![u] = row]
      BY <2>2, <3>2
    <3>3. CASE users' = [users EXCEPT ![u].status = row.status]
      <4>1. row.status \in {"none", "active", "disabled"}
        BY <2>2 DEF UserRecords
      <4>2. /\ [users[u] EXCEPT !.status = row.status] \in UserRecords
            /\ [users[u] EXCEPT !.status = row.status].hash = users[u].hash
        BY <2>2, <4>1 DEF UserRecords
      <4>3. users' = [users EXCEPT ![u] = [users[u] EXCEPT !.status = row.status]]
        BY <2>2, <3>3
      <4> QED
        BY <2>2, <4>2, <4>3
    <3> QED
      BY <2>3, <3>1, <3>2, <3>3
  <2> QED
    BY <1>0, <2>3, <2>4
<1>2. CASE SetUserPassword(v)
  <2>1. visit[v].do = "password"
    BY <1>2 DEF SetUserPassword
  <2> DEFINE u == visit[v].user
             new == visit[v].new
  <2>2. u \in Users /\ new \in Passwords
    BY SMT, <1>0, <2>1 DEF Visits, Resting
  <2>3. /\ \/ UNCHANGED <<users, chosen>>
           \/ /\ users' = [users EXCEPT ![u].hash = new]
              /\ chosen' = [chosen EXCEPT ![u] = new]
        /\ visit' = [visit EXCEPT ![v] = Resting]
        /\ inDB' = inDB
    BY <1>2 DEF SetUserPassword, Visit
  <2> HIDE DEF u, new
  <2>4. CASE UNCHANGED <<users, chosen>>
    BY <1>0, <2>3, <2>4
  <2>5. CASE /\ users' = [users EXCEPT ![u].hash = new]
             /\ chosen' = [chosen EXCEPT ![u] = new]
    <3>1. /\ [users[u] EXCEPT !.hash = new] \in UserRecords
          /\ [users[u] EXCEPT !.hash = new].hash = new
      BY <2>2 DEF UserRecords
    <3>2. users' = [users EXCEPT ![u] = [users[u] EXCEPT !.hash = new]]
      BY <2>2, <2>5
    <3>3. /\ users' \in [Users -> UserRecords] /\ users'[u].hash = new
          /\ \A x \in Users : x # u => users'[x] = users[x]
      BY <2>2, <3>1, <3>2
    <3>4. /\ chosen' \in [Users -> Passwords \cup {NoPassword}] /\ chosen'[u] = new
          /\ \A x \in Users : x # u => chosen'[x] = chosen[x]
      BY <2>2, <2>5
    <3> QED
      BY <1>0, <2>3, <3>3, <3>4
  <2> QED
    BY <2>3, <2>4, <2>5
<1> QED
  BY <1>1, <1>2

\* With PostgreSQL a user signs in with the password last set for the account
\* and no other, for any number of users, passwords and concurrent requests:
\* an update that read the row before the password was changed does not bring
\* the old one back (store.go:218).
THEOREM LastPasswordOnlyHolds == AccountsSpec => []LastPasswordOnly
<1>1. AccountsInit => AccountsInv
  <2>1. NoUser \in UserRecords /\ NoUser.hash = NoPassword /\ Resting \in Visits
    BY DEF NoUser, UserRecords, Visits
  <2> QED
    BY <2>1 DEF AccountsInit, AccountsInv
<1>2. AccountsInv /\ [AccountsNext]_accountVars => AccountsInv'
  <2> SUFFICES ASSUME AccountsInv, [AccountsNext]_accountVars PROVE AccountsInv'
    OBVIOUS
  <2>1. CASE UNCHANGED accountVars
    BY <2>1 DEF accountVars, AccountsInv
  <2>2. CASE CreateUser
    <3>1. PICK u \in Users, status \in {"active", "disabled"} : Put(u, status)
      BY <2>2 DEF CreateUser
    <3>2. /\ users' \in [Users -> UserRecords]
          /\ inDB => \A x \in Users : users'[x].hash = users[x].hash
      BY <3>1, PutKeepsHash
    <3> QED
      BY SMT, <2>2, <3>2 DEF CreateUser, AccountsInv
  <2>3. CASE DeleteUser
    <3>1. PICK u \in Users : /\ users' = [users EXCEPT ![u] = NoUser]
                             /\ chosen' = [chosen EXCEPT ![u] = NoPassword]
                             /\ UNCHANGED <<inDB, visit>>
      BY <2>3 DEF DeleteUser
    <3>2. NoUser \in UserRecords /\ NoUser.hash = NoPassword
      BY DEF NoUser, UserRecords
    <3> QED
      BY <3>1, <3>2 DEF AccountsInv
  <2>4. CASE EnsuredTTL \/ AddGroupMember \/ RemoveGroupMember \/ DeleteGroup
    <3>1. UNCHANGED <<inDB, users, visit, chosen>>
      BY <2>4 DEF EnsuredTTL, AddGroupMember, RemoveGroupMember, DeleteGroup
    <3> QED
      BY <3>1 DEF AccountsInv
  <2> QED
    BY <2>1, <2>2, <2>3, <2>4, AccountsVisitSteps, AccountsWriteSteps DEF AccountsNext
<1>3. AccountsInv => LastPasswordOnly
  BY DEF AccountsInv, LastPasswordOnly, AuthenticateUser
<1> QED
  BY <1>1, <1>2, <1>3, PTL DEF AccountsSpec

-----------------------------------------------------------------------------
\* AgentKeys.  A nonce that a registration or a key rests on is in the store no
\* more, and it is drawn once, so nobody can consume it again.
KeysTypeOK ==
  /\ drawn \in [Nonces -> Binders \cup {"none"}]
  /\ challs \in [Nonces -> [binder : Binders \cup {"none"}, old : BOOLEAN]]
  /\ posts \in [Posts -> [nonce : Nonces \cup {"none"},
                          binder : Binders \cup {"none"}, signed : BOOLEAN]]
  /\ keys \in SUBSET [nonce : Nonces, binder : Binders, post : Posts,
                      revoked : BOOLEAN]

\* A challenge is in the store for the caller it was drawn for.
StoredAsDrawn == \A n \in Nonces : challs[n].binder \in {"none", drawn[n]}

\* A challenge drawn for d lets b register: b is d, or what Redis keeps of it.
Serves(d, b) == b # d => redisOn /\ b = Cut[d]

\* Nobody can consume the nonce n, which served b, again: it was drawn, and it
\* is gone.
Spent(n, b) == /\ n \in Nonces /\ b \in Binders /\ drawn[n] # "none"
               /\ Serves(drawn[n], b) /\ challs[n].binder = "none"

PostsSpent == \A r \in Posts : posts[r] # NoPost => Spent(posts[r].nonce, posts[r].binder)
KeysSpent == \A k \in keys : Spent(k.nonce, k.binder)

KeysInv == /\ KeysTypeOK /\ StoredAsDrawn /\ PostsSpent /\ KeysSpent
           /\ ChallengeOnce

-----------------------------------------------------------------------------
\* At the start nothing is drawn and nobody registers.
LEMMA KeysInitInv == KeysInit => KeysInv
<1> SUFFICES ASSUME KeysInit PROVE KeysInv
  OBVIOUS
<1>1. KeysTypeOK
  BY DEF KeysInit, KeysTypeOK, NoPost
<1>2. \A r \in Posts : posts[r] = NoPost
  BY DEF KeysInit
<1>3. \A n \in Nonces : challs[n].binder = "none"
  BY DEF KeysInit
<1>4. ChallengeOnce
  BY <1>2 DEF KeysInit, ChallengeOnce
<1> QED
  BY <1>1, <1>2, <1>3, <1>4 DEF KeysInit, KeysInv, StoredAsDrawn, PostsSpent, KeysSpent

\* A step that leaves the registrations and the keys alone and changes only
\* challenges that are not spent, or removes them, keeps the invariant.
LEMMA StoreStep ==
  ASSUME KeysInv, KeysTypeOK', StoredAsDrawn', UNCHANGED <<redisOn, posts, keys>>,
         \A n \in Nonces : drawn[n] # "none" =>
           drawn'[n] = drawn[n] /\ (challs[n].binder = "none" => challs'[n].binder = "none")
  PROVE  KeysInv'
<1>1. \A n, b : Spent(n, b) => Spent(n, b)'
  BY DEF Spent, Serves
<1>2. PostsSpent' /\ KeysSpent'
  BY <1>1 DEF KeysInv, PostsSpent, KeysSpent
<1>3. \A k \in keys : drawn'[k.nonce] = drawn[k.nonce]
  BY DEF KeysInv, KeysSpent, Spent
<1>4. ChallengeOnce'
  BY <1>3 DEF KeysInv, ChallengeOnce
<1> QED
  BY <1>2, <1>4 DEF KeysInv

\* A registration ends: with its key inserted, or without.
LEMMA EndStep ==
  ASSUME KeysInv, NEW r \in Posts, posts[r] # NoPost,
         posts' = [posts EXCEPT ![r] = NoPost], UNCHANGED <<redisOn, challs, drawn>>,
         \/ UNCHANGED keys
         \/ \E k \in [nonce : Nonces, binder : Binders, post : Posts,
                      revoked : BOOLEAN] :
              /\ k.nonce = posts[r].nonce /\ k.binder = posts[r].binder
              /\ keys' = keys \cup {k}
  PROVE  KeysInv'
<1>0. KeysTypeOK /\ StoredAsDrawn /\ PostsSpent /\ KeysSpent /\ ChallengeOnce
  BY DEF KeysInv
<1>1. \A s \in Posts : posts'[s] = IF s = r THEN NoPost ELSE posts[s]
  BY <1>0 DEF KeysTypeOK
<1>2. Spent(posts[r].nonce, posts[r].binder)
  BY <1>0 DEF PostsSpent
<1>3. KeysTypeOK'
  <2>1. posts' \in [Posts -> [nonce : Nonces \cup {"none"},
                              binder : Binders \cup {"none"}, signed : BOOLEAN]]
    BY <1>0 DEF KeysTypeOK, NoPost
  <2> QED
    BY <1>0, <2>1 DEF KeysTypeOK
<1>4. \A k \in keys' : \/ k \in keys
                       \/ k.nonce = posts[r].nonce /\ k.binder = posts[r].binder
  OBVIOUS
<1>5. PostsSpent' /\ KeysSpent' /\ StoredAsDrawn'
  <2>1. \A n, b : Spent(n, b) => Spent(n, b)'
    BY DEF Spent, Serves
  <2>2. PostsSpent'
    BY <1>0, <1>1, <2>1 DEF PostsSpent
  <2>3. KeysSpent'
    BY <1>0, <1>2, <1>4, <2>1 DEF KeysSpent
  <2> QED
    BY <1>0, <2>2, <2>3 DEF StoredAsDrawn
<1>6. \A k, l \in keys' : k.nonce = l.nonce => k = l
  BY SMT, <1>0 DEF ChallengeOnce
<1>7. \A s, t \in Posts : posts'[s] # NoPost /\ posts'[s].nonce = posts'[t].nonce => s = t
  <2>1. \A s \in Posts : posts[s] # NoPost => posts[s].nonce # "none"
    BY <1>0, KeysAssumption DEF PostsSpent, Spent
  <2>2. NoPost.nonce = "none"
    BY DEF NoPost
  <2> QED
    BY SMT, <1>0, <1>1, <2>1, <2>2 DEF ChallengeOnce
<1>8. \A s \in Posts, k \in keys' : posts'[s].nonce # k.nonce
  <2>1. \A k \in keys' : k.nonce # "none"
    BY SMT, <1>3, KeysAssumption DEF KeysTypeOK
  <2>2. \A s \in Posts \ {r} : posts[s].nonce # posts[r].nonce
    BY <1>0 DEF ChallengeOnce
  <2> QED
    BY SMT, <1>0, <1>1, <1>4, <2>1, <2>2 DEF ChallengeOnce, NoPost
<1>9. \A k \in keys' : k.binder # drawn'[k.nonce] =>
        redisOn' /\ k.binder = Cut[drawn'[k.nonce]]
  BY <1>5 DEF KeysSpent, Spent, Serves
<1> QED
  BY <1>3, <1>5, <1>6, <1>7, <1>8, <1>9 DEF KeysInv, ChallengeOnce

\* Every step of the store, of a registration and of a revocation keeps the
\* invariant.
LEMMA KeysStep == KeysInv /\ [KeysNext]_keyVars => KeysInv'
<1> SUFFICES ASSUME KeysInv, [KeysNext]_keyVars PROVE KeysInv'
  OBVIOUS
<1>0. KeysTypeOK /\ StoredAsDrawn /\ PostsSpent /\ KeysSpent /\ ChallengeOnce
  BY DEF KeysInv
<1>a. /\ drawn \in [Nonces -> Binders \cup {"none"}]
      /\ challs \in [Nonces -> [binder : Binders \cup {"none"}, old : BOOLEAN]]
  BY <1>0 DEF KeysTypeOK
<1>b. \A n \in Nonces : Forget(n) \in
        [Nonces -> [binder : Binders \cup {"none"}, old : BOOLEAN]]
  BY <1>a DEF Forget
<1>c. \A n \in Nonces : /\ Forget(n)[n].binder = "none"
                        /\ \A m \in Nonces \ {n} : Forget(n)[m] = challs[m]
  BY <1>a DEF Forget
<1>1. CASE CreateChallenge
  <2>1. PICK n \in Nonces, b \in Binders :
          /\ drawn[n] = "none" /\ drawn' = [drawn EXCEPT ![n] = b]
          /\ challs' = [challs EXCEPT ![n].binder = b]
          /\ UNCHANGED <<redisOn, posts, keys>>
    BY <1>1 DEF CreateChallenge
  <2>2. challs[n] \in [binder : Binders \cup {"none"}, old : BOOLEAN]
    BY <1>a
  <2>3. /\ challs'[n].binder = b
        /\ \A m \in Nonces \ {n} : challs'[m] = challs[m]
    BY <1>a, <2>1, <2>2
  <2>4. challs' \in [Nonces -> [binder : Binders \cup {"none"}, old : BOOLEAN]]
    BY <1>a, <2>1, <2>2
  <2>5. \A m \in Nonces : drawn'[m] = IF m = n THEN b ELSE drawn[m]
    BY <1>a, <2>1
  <2>6. KeysTypeOK'
    BY <1>0, <2>1, <2>4 DEF KeysTypeOK
  <2>7. StoredAsDrawn'
    BY <1>0, <2>3, <2>5 DEF StoredAsDrawn
  <2> QED
    BY <2>1, <2>3, <2>5, <2>6, <2>7, StoreStep
<1>2. ASSUME NEW n \in Nonces, ChallengeTTL(n) PROVE KeysInv'
  <2>1. challs[n] \in [binder : Binders \cup {"none"}, old : BOOLEAN]
    BY <1>a
  <2>2. UNCHANGED <<redisOn, drawn, posts, keys>>
    BY <1>2 DEF ChallengeTTL
  <2>3. CASE redisOn
    <3>1. challs' = Forget(n)
      BY <1>2, <2>3 DEF ChallengeTTL
    <3>2. KeysTypeOK'
      BY <1>0, <1>b, <2>2, <3>1 DEF KeysTypeOK
    <3>3. \A m \in Nonces : challs'[m].binder \in {"none", challs[m].binder}
      BY <1>c, <3>1
    <3> QED
      BY <1>0, <2>2, <3>2, <3>3, StoreStep DEF StoredAsDrawn
  <2>4. CASE ~redisOn
    <3>1. challs' = [challs EXCEPT ![n].old = TRUE]
      BY <1>2, <2>4 DEF ChallengeTTL
    <3>2. challs' \in [Nonces -> [binder : Binders \cup {"none"}, old : BOOLEAN]]
      BY <1>a, <2>1, <3>1
    <3>3. KeysTypeOK'
      BY <1>0, <2>2, <3>2 DEF KeysTypeOK
    <3>4. \A m \in Nonces : challs'[m].binder = challs[m].binder
      BY <1>a, <2>1, <3>1
    <3> QED
      BY <1>0, <2>2, <3>3, <3>4, StoreStep DEF StoredAsDrawn
  <2> QED
    BY <2>3, <2>4
<1>3. ASSUME NEW r \in Posts, ConsumeChallenge(r) PROVE KeysInv'
  <2>1. PICK n \in Nonces, b \in Binders, signed \in BOOLEAN :
          /\ posts[r] = NoPost /\ challs' = AfterConsume(n, b)
          /\ IF BoundTo(n, b) /\ ~challs[n].old
             THEN posts' = [posts EXCEPT ![r] = [nonce |-> n, binder |-> b,
                                                 signed |-> signed]]
             ELSE UNCHANGED posts
          /\ UNCHANGED <<redisOn, drawn, keys>>
    BY <1>3 DEF ConsumeChallenge
  <2>2. challs' = Forget(n) \/ (challs' = challs /\ ~BoundTo(n, b))
    BY <2>1 DEF AfterConsume
  <2>3. \A m \in Nonces : challs'[m].binder \in {"none", challs[m].binder}
    BY <1>c, <2>2
  <2>4. /\ challs' \in [Nonces -> [binder : Binders \cup {"none"}, old : BOOLEAN]]
        /\ StoredAsDrawn'
    BY <1>0, <1>a, <1>b, <2>1, <2>2, <2>3 DEF StoredAsDrawn
  <2>5. CASE UNCHANGED posts
    <3>1. KeysTypeOK'
      BY <1>0, <2>1, <2>4, <2>5 DEF KeysTypeOK
    <3> QED
      BY <2>1, <2>3, <2>4, <2>5, <3>1, StoreStep
  <2>6. CASE /\ BoundTo(n, b)
             /\ posts' = [posts EXCEPT ![r] = [nonce |-> n, binder |-> b,
                                               signed |-> signed]]
    <3>1. /\ posts'[r] = [nonce |-> n, binder |-> b, signed |-> signed]
          /\ \A s \in Posts \ {r} : posts'[s] = posts[s]
      BY <1>0, <2>6 DEF KeysTypeOK
    <3>a. challs[n].binder # "none" /\ challs[n].binder = drawn[n]
      BY <1>0, <2>6 DEF StoredAsDrawn, BoundTo
    <3>2. /\ challs'[n].binder = "none" /\ drawn[n] # "none"
          /\ Serves(drawn[n], b)
      BY <1>c, <2>2, <2>6, <3>a DEF BoundTo, Serves
    <3>3. KeysTypeOK'
      <4>1. posts' \in [Posts -> [nonce : Nonces \cup {"none"},
                                  binder : Binders \cup {"none"}, signed : BOOLEAN]]
        BY <1>0, <2>6 DEF KeysTypeOK
      <4> QED
        BY <1>0, <2>1, <2>4, <4>1 DEF KeysTypeOK
    <3>4. \A m, c : Spent(m, c) => Spent(m, c)' /\ m # n
      BY <2>1, <2>3, <3>a DEF Spent, Serves
    <3>5. Spent(n, b)'
      BY <2>1, <3>2 DEF Spent, Serves
    <3>6. PostsSpent' /\ KeysSpent'
      <4>1. posts'[r].nonce = n /\ posts'[r].binder = b
        BY SMT, <3>1
      <4>2. ASSUME NEW s \in Posts, s # r, posts'[s] # NoPost
            PROVE  Spent(posts[s].nonce, posts[s].binder)' /\ posts'[s] = posts[s]
        <5>1. posts'[s] = posts[s] /\ Spent(posts[s].nonce, posts[s].binder)
          BY <1>0, <3>1, <4>2 DEF PostsSpent
        <5>2. \A m, d : Spent(m, d) => Spent(m, d)'
          BY <3>4
        <5>3. PICK m, d : m = posts[s].nonce /\ d = posts[s].binder
          OBVIOUS
        <5>4. Spent(m, d)' /\ posts'[s].nonce = m /\ posts'[s].binder = d
          BY <5>1, <5>2, <5>3
        <5> QED
          BY <5>1, <5>4 DEF Spent, Serves
      <4>3. PostsSpent'
        BY <3>5, <4>1, <4>2 DEF PostsSpent, Spent, Serves
      <4>4. KeysSpent'
        BY <1>0, <2>1, <3>4 DEF KeysSpent
      <4> QED
        BY <4>3, <4>4
    <3>7. \A s \in Posts \ {r} : posts[s].nonce # n
      BY SMT, <1>0, <3>4, KeysAssumption DEF PostsSpent, NoPost
    <3>8. \A k \in keys : k.nonce # n
      BY <1>0, <3>4 DEF KeysSpent
    <3>9. ChallengeOnce'
      BY SMT, <1>0, <2>1, <3>1, <3>7, <3>8 DEF ChallengeOnce
    <3> QED
      BY <2>4, <3>3, <3>6, <3>9 DEF KeysInv
  <2> QED
    BY <2>1, <2>5, <2>6
<1>4. ASSUME NEW r \in Posts, RegisterKey(r) PROVE KeysInv'
  <2> DEFINE k == [nonce |-> posts[r].nonce, binder |-> posts[r].binder,
                   post |-> r, revoked |-> FALSE]
  <2>1. /\ posts[r].signed /\ keys' = keys \cup {k}
        /\ posts' = [posts EXCEPT ![r] = NoPost]
        /\ UNCHANGED <<redisOn, challs, drawn>>
    BY <1>4 DEF RegisterKey
  <2>2. posts[r] # NoPost
    BY SMT, <2>1 DEF NoPost
  <2>3. posts[r].nonce \in Nonces /\ posts[r].binder \in Binders
    BY <1>0, <2>2 DEF PostsSpent, Spent
  <2>4. /\ k \in [nonce : Nonces, binder : Binders, post : Posts, revoked : BOOLEAN]
        /\ k.nonce = posts[r].nonce /\ k.binder = posts[r].binder
    BY <2>3
  <2> HIDE DEF k
  <2> QED
    BY <2>1, <2>2, <2>4, EndStep
<1>5. ASSUME NEW r \in Posts, RegisterKeyFails(r) PROVE KeysInv'
  BY <1>5, EndStep DEF RegisterKeyFails
<1>6. CASE Revoke
  <2>1. PICK k \in keys : /\ keys' = (keys \ {k}) \cup {[k EXCEPT !.revoked = TRUE]}
                          /\ UNCHANGED <<redisOn, challs, drawn, posts>>
    BY <1>6 DEF Revoke
  <2> DEFINE l == [k EXCEPT !.revoked = TRUE]
  <2>2. k \in [nonce : Nonces, binder : Binders, post : Posts, revoked : BOOLEAN]
    BY <1>0 DEF KeysTypeOK
  <2>3. /\ l \in [nonce : Nonces, binder : Binders, post : Posts, revoked : BOOLEAN]
        /\ l.nonce = k.nonce /\ l.binder = k.binder
    BY <2>2
  <2> HIDE DEF l
  <2>4. keys' = (keys \ {k}) \cup {l}
    BY <2>1 DEF l
  <2>5. KeysTypeOK'
    BY <1>0, <2>1, <2>3, <2>4 DEF KeysTypeOK
  <2>6. PostsSpent' /\ StoredAsDrawn' /\ \A n, b : Spent(n, b) => Spent(n, b)'
    BY <1>0, <2>1 DEF PostsSpent, StoredAsDrawn, Spent, Serves
  <2>7. KeysSpent'
    BY <1>0, <2>3, <2>4, <2>6 DEF KeysSpent
  <2>8. ChallengeOnce'
    BY SMT, <1>0, <2>1, <2>3, <2>4 DEF ChallengeOnce
  <2> QED
    BY <2>5, <2>6, <2>7, <2>8 DEF KeysInv
<1>7. CASE UNCHANGED keyVars
  <2>1. KeysTypeOK' /\ StoredAsDrawn'
    BY <1>0, <1>7 DEF keyVars, KeysTypeOK, StoredAsDrawn
  <2> QED
    BY <1>7, <2>1, StoreStep DEF keyVars
<1> QED
  BY <1>1, <1>2, <1>3, <1>4, <1>5, <1>6, <1>7 DEF KeysNext

-----------------------------------------------------------------------------
\* No two keys and no two registrations rest on one challenge, whatever the
\* interleaving of requests, expiries and failures (agentkeys/store.go:81),
\* and a key is the caller's the challenge was drawn for, or, with Redis, that
\* of a caller whose binder is the beginning of it up to a "|".
THEOREM ChallengeOnceHolds == KeysSpec => []ChallengeOnce
<1>1. KeysInv => ChallengeOnce
  BY DEF KeysInv
<1> QED
  BY KeysInitInv, KeysStep, <1>1, PTL DEF KeysSpec

=============================================================================
