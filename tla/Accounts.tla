------------------------------ MODULE Accounts ------------------------------
(***************************************************************************)
(* Users and groups of the access store.  A request of the admin API first *)
(* refreshes its own user's record, at most once in a while (EnsurePrin-   *)
(* cipal); users are created, changed by reading the record and writing it *)
(* back, given a password, and deleted.  With PostgreSQL each write is a   *)
(* statement on the columns it names; in memory it replaces the record.    *)
(***************************************************************************)
EXTENDS Naturals, FiniteSets

CONSTANTS Users, Chief,     \* who calls, and the platform_admin
          Passwords, Groups,
          Visitors          \* requests in progress

VARIABLES inDB,        \* PostgreSQL, or the maps in memory
          users,       \* access_users
          memberships, \* access_group_memberships
          ensured,     \* whom shouldEnsurePrincipal has marked
          visit,       \* what each request has read and is about to do
          chosen       \* the password last set since the user was made

accountVars == <<inDB, users, memberships, ensured, visit, chosen>>

NoPassword == "none"
NoUser == [status |-> "none", hash |-> NoPassword]
Known(u) == users[u] # NoUser
Resting == [do |-> "none"]

AccountsInit == /\ inDB \in BOOLEAN
                /\ users = [u \in Users |-> NoUser]
                /\ memberships = {} /\ ensured = {}
                /\ visit = [v \in Visitors |-> Resting]
                /\ chosen = [u \in Users |-> NoPassword]

Rests(v) == visit[v] = Resting
Visit(v, what) == visit' = [visit EXCEPT ![v] = what]
Actors == Users \cup {Chief}
CanEditUser(p, u) == p = Chief \/ p = u

\* Writes the record of a user, or the columns of its row.
Put(u, status) ==
  users' = [users EXCEPT ![u] =
    [status |-> status, hash |-> IF inDB THEN @.hash ELSE NoPassword]]

-----------------------------------------------------------------------------
\* A request marks its user before EnsurePrincipal runs ...
Ensure(v) == \E u \in Users \ ensured :
  /\ Rests(v)
  /\ ensured' = ensured \cup {u}
  /\ Visit(v, [do |-> "ensure", user |-> u])
  /\ UNCHANGED <<inDB, users, memberships, chosen>>

\* ... which makes the user active, and keeps of the record in memory only
\* the time it was made.
UpsertUserFromPrincipal(v) ==
  /\ visit[v].do = "ensure"
  /\ Put(visit[v].user, "active")
  /\ Visit(v, Resting)
  /\ UNCHANGED <<inDB, memberships, ensured, chosen>>

EnsuredTTL == \E u \in ensured :
  /\ ensured' = ensured \ {u}
  /\ UNCHANGED <<inDB, users, memberships, visit, chosen>>

\* createUser, of the platform_admin.
CreateUser == \E u \in Users, status \in {"active", "disabled"} :
  /\ Put(u, status)
  /\ UNCHANGED <<inDB, memberships, ensured, visit, chosen>>

\* updateUser and admin_user_disable: only the platform_admin's status counts.
GetUser(v) == \E p \in Actors, u \in Users,
                status \in {"active", "disabled", "same"} :
  /\ Rests(v) /\ Known(u) /\ CanEditUser(p, u)
  /\ Visit(v, [do |-> "update", user |-> u,
               read |-> IF p = Chief /\ status # "same"
                        THEN [users[u] EXCEPT !.status = status] ELSE users[u]])
  /\ UNCHANGED <<inDB, users, memberships, ensured, chosen>>

UpdateUser_WholeRow(v) ==
  /\ visit[v].do = "update"
  /\ LET u == visit[v].user
     IN  users' = IF inDB /\ ~Known(u) THEN users
                  ELSE [users EXCEPT ![u] = visit[v].read]
  /\ Visit(v, Resting)
  /\ UNCHANGED <<inDB, memberships, ensured, chosen>>

UpdateUser(v) ==
  /\ visit[v].do = "update"
  /\ LET u == visit[v].user
     IN  users' = IF ~inDB THEN [users EXCEPT ![u] = visit[v].read]
                  ELSE IF ~Known(u) THEN users
                  ELSE [users EXCEPT ![u].status = visit[v].read.status]
  /\ Visit(v, Resting)
  /\ UNCHANGED <<inDB, memberships, ensured, chosen>>

\* changeUserPassword: who is no platform_admin shows the current password,
\* if there is one.
CheckUserPassword(v) == \E p \in Actors, u \in Users,
                          current, new \in Passwords :
  /\ Rests(v) /\ Known(u) /\ CanEditUser(p, u)
  /\ p = Chief \/ users[u].hash \in {NoPassword, current}
  /\ Visit(v, [do |-> "password", user |-> u, new |-> new])
  /\ UNCHANGED <<inDB, users, memberships, ensured, chosen>>

SetUserPassword(v) ==
  /\ visit[v].do = "password"
  /\ LET u == visit[v].user
     IN  IF Known(u)
         THEN /\ users' = [users EXCEPT ![u].hash = visit[v].new]
              /\ chosen' = [chosen EXCEPT ![u] = visit[v].new]
         ELSE UNCHANGED <<users, chosen>>
  /\ Visit(v, Resting)
  /\ UNCHANGED <<inDB, memberships, ensured>>

\* Any of the writes may fail; EnsurePrincipal's error is dropped.
WriteFails(v) ==
  /\ ~Rests(v)
  /\ Visit(v, Resting)
  /\ UNCHANGED <<inDB, users, memberships, ensured, chosen>>

AuthenticateUser(u, password) ==
  users[u].status = "active" /\ password # NoPassword /\ users[u].hash = password

\* With PostgreSQL the statements of DeleteUser are sent as one, with a
\* parameter, which the server refuses; so are those of DeleteGroup.
DeleteUser == \E u \in Users :
  /\ ~inDB
  /\ users' = [users EXCEPT ![u] = NoUser]
  /\ chosen' = [chosen EXCEPT ![u] = NoPassword]
  /\ memberships' = {m \in memberships : m.user # u}
  /\ UNCHANGED <<inDB, ensured, visit>>

AddGroupMember == \E u \in Users, g \in Groups :
  /\ memberships' = memberships \cup {[group |-> g, user |-> u]}
  /\ UNCHANGED <<inDB, users, ensured, visit, chosen>>

RemoveGroupMember == \E m \in memberships :
  /\ memberships' = memberships \ {m}
  /\ UNCHANGED <<inDB, users, ensured, visit, chosen>>

DeleteGroup == \E g \in Groups :
  /\ ~inDB
  /\ memberships' = {m \in memberships : m.group # g}
  /\ UNCHANGED <<inDB, users, ensured, visit, chosen>>

AccountsNext ==
  \/ \E v \in Visitors : \/ Ensure(v) \/ UpsertUserFromPrincipal(v)
                         \/ GetUser(v) \/ UpdateUser(v)
                         \/ CheckUserPassword(v) \/ SetUserPassword(v)
                         \/ WriteFails(v)
  \/ EnsuredTTL \/ CreateUser \/ DeleteUser
  \/ AddGroupMember \/ RemoveGroupMember \/ DeleteGroup

AccountsSpec == AccountsInit /\ [][AccountsNext]_accountVars

-----------------------------------------------------------------------------
\* With PostgreSQL a user signs in with the password last set for the account
\* and with no other: not with one that an update brings back which had read
\* the record before (store.go:218).
LastPasswordOnly == inDB => \A u \in Users, w \in Passwords :
  AuthenticateUser(u, w) => w = chosen[u]

=============================================================================
