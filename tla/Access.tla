------------------------------- MODULE Access -------------------------------
(***************************************************************************)
(* The access store and what is decided from it: storages, the data        *)
(* objects that mirror them, the two access-control lists, access tokens   *)
(* and their scopes.  The in-memory store changes all of its maps under    *)
(* one lock; with PostgreSQL a storage and its object are made by two      *)
(* transactions, and the tables carry the constraints of the migrations.   *)
(* The nine permissions come in three classes, read, write and manage,     *)
(* and a kind's methods in two, read and write.                            *)
(***************************************************************************)
EXTENDS Naturals, FiniteSets

CONSTANTS People, Admins, \* who calls, and who of them is a platform_admin
          Team,           \* who carries the group "team" in the claims
          Ids, TokenIds,  \* uuids, each used once
          Settled,        \* personal storages there from the start: their owner
          Callers,        \* administration requests in progress
          Kinds,          \* of objects that are no storages: table or other
          Grantees, GrantRoles, \* what the bindings are made of
          Allowlists,     \* of methods, in token scopes; an empty one allows all
          MaxRequests     \* bound on the requests made

ASSUME AccessAssumption ==
  /\ Admins \subseteq People /\ Team \subseteq People
  /\ Grantees \subseteq People \cup {"all", "team"}
  /\ Kinds \subseteq {"table", "queue"}
  /\ GrantRoles \subseteq {"owner", "writer", "reader"} /\ MaxRequests \in Nat
  /\ \A i \in DOMAIN Settled : Settled[i] \in People
  /\ \A i, j \in DOMAIN Settled : Settled[i] = Settled[j] => i = j

VARIABLES useDB,       \* PostgreSQL, or the maps in memory
          stores,      \* storages: the owner, or Nobody
          slug,        \* whose personal storage an id is by its slug, if any
          objs,        \* data_objects: the kind, or Nobody
          acl,         \* storage_acl_bindings
          objectACL,   \* object_acl_bindings
          toks,        \* access_tokens
          tokenScopes, \* access_token_storages
          tokenObjectScopes, \* access_token_objects
          reached,     \* the scopes each token ever had
          spent,       \* the ids used so far
          made,        \* how many requests were made
          call         \* what each request has checked and is about to do

accessVars == <<useDB, stores, slug, objs, acl, objectACL, toks,
                tokenScopes, tokenObjectScopes, reached, spent, made, call>>
lists == <<acl, objectACL>>
scopes == <<tokenScopes, tokenObjectScopes, reached>>

Nobody == "nobody"
Roles == {"owner", "writer", "reader"}
Modes == {"read", "read_write"}
NoCall == [do |-> "none"]
NoToken == [owner |-> Nobody, mode |-> "none", state |-> "none", from |-> Nobody]

\* Some have signed in before, and have their personal storage.
AccessInit ==
  /\ useDB \in BOOLEAN
  /\ stores \in {[i \in Ids |-> Nobody], [i \in Ids |-> IF i \in DOMAIN Settled
                                                     THEN Settled[i] ELSE Nobody]}
  /\ spent = {i \in Ids : stores[i] # Nobody}
  /\ slug = stores
  /\ objs = [i \in Ids |-> IF i \in spent THEN "storage" ELSE Nobody]
  /\ acl = {[id |-> i, who |-> stores[i], role |-> "owner", live |-> TRUE] : i \in spent}
  /\ objectACL = acl
  /\ toks = [t \in TokenIds |-> NoToken]
  /\ tokenScopes = {} /\ tokenObjectScopes = {} /\ reached = {}
  /\ made = 0
  /\ call = [c \in Callers |-> NoCall]

-----------------------------------------------------------------------------
\* What a role and a mode allow.
RolePermissions(role) == CASE role = "owner"  -> {"read", "write", "manage"}
                           [] role = "writer" -> {"read", "write"}
                           [] role = "reader" -> {"read"}
ModePermissions(mode) == CASE mode = "read_write" -> RolePermissions("writer")
                           [] mode = "read"       -> RolePermissions("reader")
                           [] mode = "none"       -> {}
intersectMode(a, b) == CASE "none" \in {a, b} -> "none"
                         [] "read" \in {a, b} -> "read"
                         [] OTHER             -> "read_write"

\* A caller is a person, with or without one of the person's tokens; a token
\* carries no groups.
Persons == [who : People, tok : {Nobody}]
Bearers == {[who |-> toks[t].owner, tok |-> t] :
              t \in {u \in TokenIds : toks[u].state = "live"}}
SubjectKeys(c) == {c.who, "all"}
                    \cup (IF c.tok = Nobody /\ c.who \in Team THEN {"team"} ELSE {})

\* The mode a token has for an id: that of its scope, if there is one.
ScopeMode(c, granted, i) ==
  LET mine == {s \in granted : s.tok = c.tok /\ s.id = i}
  IN  IF mine = {} THEN "none"
      ELSE intersectMode(toks[c.tok].mode, (CHOOSE s \in mine : TRUE).mode)

\* The method allowlist of that scope.
ScopeAllows(c, granted, i, method) ==
  \A s \in granted : s.tok = c.tok /\ s.id = i => s.allow = {} \/ method \in s.allow

\* evaluateStorageAccess: bindings are not asked whether they are expired.
\* (AllowedPermissions, which no handler sets, is left out.)
StoragePermissions(c, bindings, i, perm) ==
  LET userPerms == UNION {RolePermissions(b.role) :
                     b \in {d \in bindings : d.id = i /\ d.who \in SubjectKeys(c)}}
  IN  IF c.tok # Nobody
      THEN userPerms \cap ModePermissions(ScopeMode(c, tokenScopes, i))
      ELSE IF userPerms = {} /\ c.who \in Admins THEN {perm} ELSE userPerms
CanAccessStorage(c, i, perm) == perm \in StoragePermissions(c, acl, i, perm)

\* The storages a listing looks at: those with an unexpired binding.
ListAccessibleStorages(c) ==
  {i \in Ids : /\ stores[i] # Nobody
               /\ \/ c.tok = Nobody /\ c.who \in Admins
                  \/ /\ \E b \in acl : b.id = i /\ b.live /\ b.who \in SubjectKeys(c)
                     /\ c.tok = Nobody \/ ScopeMode(c, tokenScopes, i) # "none"}

-----------------------------------------------------------------------------
\* The object view.  In memory the storage list is bridged into the object
\* list; a storage without an object row is still found as an object.
GetObject(i) == IF objs[i] # Nobody THEN objs[i]
                ELSE IF stores[i] # Nobody THEN "storage" ELSE Nobody
Methods_(kind) == IF kind = "table" THEN {"write"} ELSE {"read", "write"}
ObjectACLForSubject(c) ==
  {b \in objectACL \cup (IF useDB THEN {} ELSE acl) : b.who \in SubjectKeys(c)}
\* Without an object scope of its own a token's storage scopes stand in.
TokenObjects(t) ==
  LET mine == {s \in tokenObjectScopes : s.tok = t}
  IN  IF mine # {} THEN mine ELSE {s \in tokenScopes : s.tok = t}
MethodsAllowed(allowed, kind) == allowed \cap Methods_(kind)

\* evaluateObjectAccess: a scoped token whose owner has no binding passes on
\* its mode alone.
CanAccessObject(c, i, method) ==
  LET kind == GetObject(i)
      bound == {b \in ObjectACLForSubject(c) : b.id = i}
      byRole == MethodsAllowed(UNION {RolePermissions(b.role) : b \in bound}, kind)
      mode == ScopeMode(c, TokenObjects(c.tok), i)
  IN  /\ kind # Nobody /\ method \in Methods_(kind)
      /\ IF c.tok = Nobody
         THEN method \in byRole \/ (bound = {} /\ c.who \in Admins)
         ELSE /\ ScopeAllows(c, TokenObjects(c.tok), i, method)
              /\ method \in ModePermissions(mode)
              /\ byRole = {} \/ method \in byRole
ListObjects == {i \in Ids : objs[i] # Nobody \/ (~useDB /\ stores[i] # Nobody)}
ListAccessibleObjects(c) ==
  IF c.tok = Nobody
  THEN {i \in ListObjects : \/ c.who \in Admins
                            \/ \E b \in ObjectACLForSubject(c) : b.id = i}
  ELSE {i \in ListObjects : \E s \in TokenObjects(c.tok) : s.id = i}
Probe(i) == IF GetObject(i) = "table" THEN "write" ELSE "read"
AvailableObjects(c) ==
  {i \in ListAccessibleObjects(c) : CanAccessObject(c, i, Probe(i))}

-----------------------------------------------------------------------------
Idle_(c) == call[c] = NoCall
Made == made < MaxRequests /\ made' = made + 1
Begin_(c, what) == call' = [call EXCEPT ![c] = what]
End_(c) == call' = [call EXCEPT ![c] = NoCall]
Binding(i, p, role) == [id |-> i, who |-> p, role |-> role, live |-> TRUE]
\* PostgreSQL keeps one row per id, subject and role.
Bind(list, b) ==
  (IF useDB THEN {d \in list : <<d.id, d.who, d.role>> # <<b.id, b.who, b.role>>}
            ELSE list) \cup {b}

SameSlug(s, t) == s = t /\ s # Nobody

\* EnsurePersonalStorage looks for the slug first ...
EnsurePersonal(c) == \E p \in People :
  /\ Idle_(c) /\ Made
  /\ \A i \in Ids : stores[i] # Nobody => slug[i] # p
  /\ Begin_(c, [do |-> "store", who |-> p, slug |-> p])
  /\ UNCHANGED <<useDB, stores, slug, objs, lists, toks, scopes, spent>>

CreateRequest(c) == \E p \in People, kind \in {"store"} \cup Kinds :
  /\ Idle_(c) /\ Made
  /\ Begin_(c, [do |-> kind, who |-> p, slug |-> Nobody])
  /\ UNCHANGED <<useDB, stores, slug, objs, lists, toks, scopes, spent>>

CreateStorage_NoConstraint(c) == \E i \in Ids \ spent :
  /\ call[c].do = "store"
  /\ stores' = [stores EXCEPT ![i] = call[c].who]
  /\ slug' = [slug EXCEPT ![i] = call[c].slug]
  /\ acl' = Bind(acl, Binding(i, call[c].who, "owner"))
  /\ spent' = spent \cup {i}
  /\ IF useDB THEN /\ Begin_(c, [do |-> "object", who |-> call[c].who, id |-> i])
                   /\ UNCHANGED <<objs, objectACL>>
     ELSE /\ objs' = [objs EXCEPT ![i] = "storage"]
          /\ objectACL' = Bind(objectACL, Binding(i, call[c].who, "owner"))
          /\ End_(c)
  /\ UNCHANGED <<useDB, made, toks, scopes>>

\* ... and CreateStorage writes: in PostgreSQL the slug is unique.
CreateStorage(c) == \E i \in Ids \ spent :
  /\ call[c].do = "store"
  /\ useDB => \A j \in Ids : stores[j] # Nobody => ~SameSlug(slug[j], call[c].slug)
  /\ stores' = [stores EXCEPT ![i] = call[c].who]
  /\ slug' = [slug EXCEPT ![i] = call[c].slug]
  /\ acl' = Bind(acl, Binding(i, call[c].who, "owner"))
  /\ spent' = spent \cup {i}
  /\ IF useDB THEN /\ Begin_(c, [do |-> "object", who |-> call[c].who, id |-> i])
                   /\ UNCHANGED <<objs, objectACL>>
     ELSE /\ objs' = [objs EXCEPT ![i] = "storage"]
          /\ objectACL' = Bind(objectACL, Binding(i, call[c].who, "owner"))
          /\ End_(c)
  /\ UNCHANGED <<useDB, made, toks, scopes>>

\* The second transaction of CreateStorage: the object, its owner's binding,
\* and the storage and its binding again should they be gone.  Should the slug
\* have been taken, by an object or by a storage, the error is dropped.
CreateStorageObject(c) ==
  /\ call[c].do = "object"
  /\ LET i == call[c].id
     IN  IF \E j \in Ids \ {i} :
              /\ SameSlug(slug[j], slug[i])
              /\ objs[j] # Nobody \/ (stores[i] = Nobody /\ stores[j] # Nobody)
         THEN UNCHANGED <<stores, objs, lists>>
         ELSE /\ objs' = [objs EXCEPT ![i] = "storage"]
              /\ stores' = [stores EXCEPT ![i] = call[c].who]
              /\ objectACL' = Bind(objectACL, Binding(i, call[c].who, "owner"))
              /\ acl' = IF \E b \in acl : b.id = i /\ b.who = call[c].who
                                          /\ b.role = "owner"
                        THEN acl ELSE acl \cup {Binding(i, call[c].who, "owner")}
  /\ End_(c)
  /\ UNCHANGED <<useDB, made, slug, toks, scopes, spent>>

\* CreateObject for the other kinds.
CreateObject(c) == \E i \in Ids \ spent :
  /\ call[c].do \in Kinds
  /\ objs' = [objs EXCEPT ![i] = call[c].do]
  /\ objectACL' = Bind(objectACL, Binding(i, call[c].who, "owner"))
  /\ spent' = spent \cup {i}
  /\ End_(c)
  /\ UNCHANGED <<useDB, made, stores, slug, acl, toks, scopes>>

\* A statement of PostgreSQL fails, or a request is refused.
CallFails(c) ==
  /\ ~Idle_(c)
  /\ End_(c)
  /\ UNCHANGED <<useDB, made, stores, slug, objs, lists, toks, scopes, spent>>

-----------------------------------------------------------------------------
\* upsertACL and admin_acl_grant: the right to manage is checked, then the
\* binding written; admin_acl_revoke and the deletion of a storage alike.
MayManage(p, i) ==
  LET c == [who |-> p, tok |-> Nobody]
  IN  CanAccessStorage(c, i, "manage") \/ p \in Admins

ACLRequest(c) == \E p \in People, i \in Ids, q \in Grantees,
                    role \in GrantRoles, what \in {"grant", "revoke"} :
  /\ Idle_(c) /\ Made /\ MayManage(p, i)
  /\ \/ Begin_(c, [do |-> what, id |-> i, who |-> q, role |-> role])
     \/ Begin_(c, [do |-> "delete", id |-> i])
  /\ UNCHANGED <<useDB, stores, slug, objs, lists, toks, scopes, spent>>

UpsertACL(c) ==
  /\ call[c].do = "grant"
  /\ acl' = Bind(acl, Binding(call[c].id, call[c].who, call[c].role))
  /\ End_(c)
  /\ UNCHANGED <<useDB, made, stores, slug, objs, objectACL, toks, scopes, spent>>

DeleteACL(c) ==
  /\ call[c].do = "revoke"
  /\ acl' = {b \in acl : <<b.id, b.who, b.role>>
                          # <<call[c].id, call[c].who, call[c].role>>}
  /\ End_(c)
  /\ UNCHANGED <<useDB, made, stores, slug, objs, objectACL, toks, scopes, spent>>

\* A binding's expires_at has come.
ExpireBinding == \E b \in acl :
  /\ b.live
  /\ acl' = (acl \ {b}) \cup {[b EXCEPT !.live = FALSE]}
  /\ UNCHANGED <<useDB, made, stores, slug, objs, objectACL, toks, scopes, spent, call>>

\* putACL
UpsertObjectACL == \E i \in Ids, q \in Grantees, role \in GrantRoles :
  /\ objs[i] # Nobody \/ (~useDB /\ i \in spent)
  /\ Made
  /\ objectACL' = Bind(objectACL, Binding(i, q, role))
  /\ UNCHANGED <<useDB, stores, slug, objs, acl, toks, scopes, spent, call>>

\* DeleteStorage leaves the object, its bindings and the object scopes.  With
\* PostgreSQL its statements are sent as one, with a parameter, which the
\* server refuses: CallFails.
DeleteStorage(c) ==
  /\ call[c].do = "delete" /\ ~useDB
  /\ stores' = [stores EXCEPT ![call[c].id] = Nobody]
  /\ acl' = {b \in acl : b.id # call[c].id}
  /\ tokenScopes' = {s \in tokenScopes : s.id # call[c].id}
  /\ End_(c)
  /\ UNCHANGED <<useDB, made, slug, objs, objectACL, toks, tokenObjectScopes, reached,
                 spent>>

DeleteObject_KeepsBindings(c) == \E i \in Ids :
  /\ Idle_(c) /\ Made /\ GetObject(i) # Nobody
  /\ objs' = [objs EXCEPT ![i] = Nobody]
  /\ LET alsoStore == GetObject(i) = "storage"
     IN  IF useDB
         THEN /\ tokenObjectScopes' = {s \in tokenObjectScopes : s.id # i}
              /\ Begin_(c, IF alsoStore THEN [do |-> "row", id |-> i] ELSE NoCall)
              /\ UNCHANGED stores
         ELSE /\ stores' = [stores EXCEPT ![i] = IF alsoStore THEN Nobody ELSE @]
              /\ UNCHANGED <<tokenObjectScopes, call>>
  /\ UNCHANGED <<useDB, slug, lists, toks, tokenScopes, reached, spent>>

\* DeleteObject leaves the storage's bindings and scopes.  In PostgreSQL the
\* object scopes go with the object, and the storage in a second statement.
DeleteObject(c) == \E i \in Ids :
  /\ Idle_(c) /\ Made /\ GetObject(i) # Nobody
  /\ objs' = [objs EXCEPT ![i] = Nobody]
  /\ objectACL' = {b \in objectACL : b.id # i}
  /\ LET alsoStore == GetObject(i) = "storage"
     IN  IF useDB
         THEN /\ tokenObjectScopes' = {s \in tokenObjectScopes : s.id # i}
              /\ Begin_(c, IF alsoStore THEN [do |-> "row", id |-> i] ELSE NoCall)
              /\ UNCHANGED stores
         ELSE /\ stores' = [stores EXCEPT ![i] = IF alsoStore THEN Nobody ELSE @]
              /\ UNCHANGED <<tokenObjectScopes, call>>
  /\ UNCHANGED <<useDB, slug, acl, toks, tokenScopes, reached, spent>>

DeleteStorageRow(c) ==
  /\ call[c].do = "row"
  /\ stores' = [stores EXCEPT ![call[c].id] = Nobody]
  /\ End_(c)
  /\ UNCHANGED <<useDB, made, slug, objs, lists, toks, scopes, spent>>

\* UpdateObjectConfig: in memory the object that was read is put back.
PatchRequest(c) == \E i \in Ids :
  /\ Idle_(c) /\ Made /\ GetObject(i) # Nobody
  /\ Begin_(c, [do |-> "patch", id |-> i, read |-> GetObject(i)])
  /\ UNCHANGED <<useDB, stores, slug, objs, lists, toks, scopes, spent>>

UpdateObjectConfig(c) ==
  /\ call[c].do = "patch"
  /\ objs' = IF useDB THEN objs ELSE [objs EXCEPT ![call[c].id] = call[c].read]
  /\ End_(c)
  /\ UNCHANGED <<useDB, made, stores, slug, lists, toks, scopes, spent>>

-----------------------------------------------------------------------------
ScopesOf(t, ids, mode, allow) ==
  {[tok |-> t, id |-> i, mode |-> mode, allow |-> allow] : i \in ids}
Fresh(t) == toks[t].state = "none"

\* CreateToken: one transaction; in PostgreSQL an object scope needs its row.
InsertToken(t, token, granted) ==
  /\ Fresh(t)
  /\ useDB => \A s \in granted : objs[s.id] # Nobody
  /\ toks' = [toks EXCEPT ![t] = token]
  /\ tokenScopes' = tokenScopes \cup granted
  /\ tokenObjectScopes' = tokenObjectScopes \cup granted
  /\ reached' = reached \cup granted

\* createToken does not ask what the owner may do with the storages: that is
\* decided at each use.
CreateToken == \E t \in TokenIds, p \in People, ids \in SUBSET spent,
                  mode \in Modes, allow \in Allowlists :
  /\ Made /\ ids # {}
  /\ InsertToken(t, [owner |-> p, mode |-> mode, state |-> "live",
                     from |-> Nobody], ScopesOf(t, ids, mode, allow))
  /\ UNCHANGED <<useDB, stores, slug, objs, lists, spent, call>>

\* ResolveToken reads the token, and marks it used in a write of its own.
ResolveToken(c) == \E t \in TokenIds :
  /\ Idle_(c) /\ Made /\ toks[t].state = "live"
  /\ Begin_(c, [do |-> "used", tok |-> t, read |-> toks[t]])
  /\ UNCHANGED <<useDB, stores, slug, objs, lists, toks, scopes, spent>>

MarkTokenUsed_WritesBack(c) ==
  /\ call[c].do = "used"
  /\ toks' = [toks EXCEPT ![call[c].tok] = call[c].read]
  /\ End_(c)
  /\ UNCHANGED <<useDB, made, stores, slug, objs, lists, scopes, spent>>

MarkTokenUsed(c) ==
  /\ call[c].do = "used"
  /\ End_(c)
  /\ UNCHANGED <<useDB, made, stores, slug, objs, lists, toks, scopes, spent>>

\* canManageToken and requireTokenAccess; a manager of one of the token's
\* storages may revoke it and change its scopes, over MCP.
Manages(p, i) ==
  LET c == [who |-> p, tok |-> Nobody]
  IN  p \in Admins \/ (/\ i \in ListAccessibleStorages(c)
                       /\ "manage" \in StoragePermissions(c, acl, i, "read"))
OwnsToken(p, t) ==
  p \in Admins \/ (toks[t].owner = p /\ toks[t].state # "deleted")
MayChange(p, t) ==
  \/ OwnsToken(p, t)
  \/ \E s \in tokenScopes : s.tok = t /\ toks[t].state # "deleted" /\ Manages(p, s.id)

TokenRequest(c) == \E p \in People, t \in TokenIds, what \in {"kill", "drop", "rotate"} :
  /\ Idle_(c) /\ Made /\ ~Fresh(t)
  /\ OwnsToken(p, t) \/ (what = "kill" /\ MayChange(p, t))
  /\ Begin_(c, [do |-> what, tok |-> t, who |-> p,
                read |-> {s \in tokenScopes : s.tok = t}])
  /\ UNCHANGED <<useDB, stores, slug, objs, lists, toks, scopes, spent>>

ScopesRequest(c) == \E p \in People, t \in TokenIds, ids \in SUBSET spent,
                       allow \in Allowlists :
  /\ Idle_(c) /\ Made /\ toks[t].state \notin {"none", "deleted"} /\ MayChange(p, t)
  /\ \A i \in ids : Manages(p, i)
  /\ Begin_(c, [do |-> "scopes", tok |-> t,
                granted |-> ScopesOf(t, ids, toks[t].mode, allow)])
  /\ UNCHANGED <<useDB, stores, slug, objs, lists, toks, scopes, spent>>

RevokeToken(c) ==
  /\ call[c].do \in {"kill", "rotate"}
  /\ toks' = [toks EXCEPT ![call[c].tok].state =
                IF @ = "live" THEN "revoked" ELSE @]
  /\ IF call[c].do = "rotate" THEN Begin_(c, [call[c] EXCEPT !.do = "mint"])
                              ELSE End_(c)
  /\ UNCHANGED <<useDB, made, stores, slug, objs, lists, scopes, spent>>

\* rotateToken drops the error of RevokeToken.
RotateNotRevoked(c) ==
  /\ call[c].do = "rotate"
  /\ Begin_(c, [call[c] EXCEPT !.do = "mint"])
  /\ UNCHANGED <<useDB, made, stores, slug, objs, lists, toks, scopes, spent>>

RotateMint_ModeKept(c) == \E t \in TokenIds :
  /\ call[c].do = "mint"
  /\ InsertToken(t, [owner |-> call[c].who, mode |-> "read_write",
                     state |-> "live", from |-> call[c].tok],
                 {[s EXCEPT !.tok = t, !.mode = "read_write"] : s \in call[c].read})
  /\ End_(c)
  /\ UNCHANGED <<useDB, made, stores, slug, objs, lists, spent>>

RotateMint(c) == \E t \in TokenIds :
  /\ call[c].do = "mint"
  /\ InsertToken(t, [owner |-> call[c].who, mode |-> "read", state |-> "live",
                     from |-> call[c].tok],
                 {[s EXCEPT !.tok = t] : s \in call[c].read})
  /\ End_(c)
  /\ UNCHANGED <<useDB, made, stores, slug, objs, lists, spent>>

\* DeleteToken leaves the object scopes; with PostgreSQL it is refused like
\* DeleteStorage.
DeleteToken(c) ==
  /\ call[c].do = "drop" /\ ~useDB
  /\ toks' = [toks EXCEPT ![call[c].tok].state = "deleted"]
  /\ tokenScopes' = {s \in tokenScopes : s.tok # call[c].tok}
  /\ End_(c)
  /\ UNCHANGED <<useDB, made, stores, slug, objs, lists, tokenObjectScopes, reached, spent>>

\* ReplaceTokenStorages leaves the object scopes CreateToken copied.
ReplaceTokenStorages(c) ==
  /\ call[c].do = "scopes"
  /\ tokenScopes' = {s \in tokenScopes : s.tok # call[c].tok} \cup call[c].granted
  /\ reached' = reached \cup call[c].granted
  /\ End_(c)
  /\ UNCHANGED <<useDB, made, stores, slug, objs, lists, toks, tokenObjectScopes, spent>>

ExpireToken == \E t \in TokenIds :
  /\ toks[t].state = "live"
  /\ toks' = [toks EXCEPT ![t].state = "revoked"]
  /\ UNCHANGED <<useDB, made, stores, slug, objs, lists, scopes, spent, call>>

AccessNext ==
  \/ \E c \in Callers :
       \/ EnsurePersonal(c) \/ CreateRequest(c) \/ CreateStorage(c)
       \/ CreateStorageObject(c) \/ CreateObject(c) \/ CallFails(c)
       \/ ACLRequest(c) \/ UpsertACL(c) \/ DeleteACL(c) \/ DeleteStorage(c)
       \/ ResolveToken(c) \/ MarkTokenUsed(c) \/ TokenRequest(c)
       \/ RevokeToken(c) \/ RotateNotRevoked(c) \/ RotateMint(c)
       \/ DeleteToken(c) \/ ScopesRequest(c) \/ ReplaceTokenStorages(c)
       \/ DeleteObject(c) \/ DeleteStorageRow(c)
       \/ PatchRequest(c) \/ UpdateObjectConfig(c)
  \/ ExpireBinding \/ UpsertObjectACL
  \/ CreateToken \/ ExpireToken

AccessSpec == AccessInit /\ [][AccessNext]_accessVars

-----------------------------------------------------------------------------
\* An object the caller may use, for the method a listing probes, is listed
\* (objects.go:795).  The exception is a storage whose object row PostgreSQL
\* lacks, before CreateStorage's second transaction, without it, or half way
\* through DeleteObject: CanAccessObject finds it (objects.go:236), and only
\* platform admins and tokens, who need no binding, are let in.
AllowedIsListed == \A c \in Persons \cup Bearers, i \in Ids :
  CanAccessObject(c, i, Probe(i)) /\ i \notin AvailableObjects(c) =>
    useDB /\ objs[i] = Nobody /\ (c.tok # Nobody \/ c.who \in Admins)

\* A token that is revoked, expired or deleted never resolves again, also not
\* when a request that had resolved it marks it used (store.go:1043, 1222).
RevokedStays == [][\A t \in TokenIds :
  toks[t].state \in {"revoked", "deleted"} => toks'[t].state # "live"]_accessVars

\* A rotated token reads only, and only what its predecessor had a scope for
\* at some time, although the scopes are read before the old token is revoked
\* and the new one made (admin_handler.go:629).
RotatedWithin == \A t \in TokenIds : toks[t].from # Nobody =>
  \A i \in Ids :
    LET c == [who |-> toks[t].owner, tok |-> t]
        first == {s \in tokenObjectScopes : s.tok = t}
    IN  (\E s \in first : s.id = i) =>
          /\ ScopeMode(c, first, i) = "read"
          /\ \E s \in reached : s.tok = toks[t].from /\ s.id = i

\* With PostgreSQL nobody has two personal storages, although two requests of
\* a new person may both find none (store.go:555).
OnePersonal == useDB => \A i, j \in Ids :
  /\ i # j /\ stores[i] # Nobody /\ stores[j] # Nobody
  => ~SameSlug(slug[i], slug[j])

=============================================================================
