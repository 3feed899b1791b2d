----------------------------- MODULE OAuthProofs -----------------------------
(***************************************************************************)
(* Codes and refresh tokens are spent once, for any number of requests,    *)
(* clients, login sessions, codes and tokens.  The argument: a grant is    *)
(* marked used in the transaction that checks it, so between that check    *)
(* and the token there is one handler with the grant.  After that: a code  *)
(* is for what authorize accepted, and the tokens descending from a code   *)
(* form a line of which one is live.                                       *)
(***************************************************************************)
EXTENDS OAuth, SequenceTheorems, TLAPS

\* The leaves are first-order unless they name the SMT solver.
USE Zenon

Sessions == [client : Clients \cup {None}, redirect : Redirects \cup {None},
             challenge : ({"S256"} \X Verifiers) \cup {None}, provider : BOOLEAN]
Grants == ({"code", "refresh", "token"} \X Nat) \cup {<<>>}
Places == {"idle", "take", "start", "complete", "revoke", "mint", "save"}
HandlerStates == [at : Places, login : Logins \cup {None}, sess : Sessions,
                  who : Subjects \cup {None}, client : Clients \cup {None},
                  grant : Grants]
Codes == [login : Logins \cup {None}, client : Clients \cup {None},
          redirect : Redirects \cup {None},
          challenge : ({"S256"} \X Verifiers) \cup {None},
          subject : Subjects \cup {None}, used : BOOLEAN]
Refreshes == [client : Clients \cup {None}, subject : Subjects \cup {None},
              access : Nat, used : BOOLEAN]

Tokens == [subject : Subjects \cup {None}, grant : Grants, root : Nat,
           live : BOOLEAN, kept : BOOLEAN]

OAuthTypeOK ==
  /\ clients \in [Clients -> SUBSET Redirects]
  /\ logins \in [Logins -> Sessions] /\ asked \in [Logins -> Sessions]
  /\ codes \in Seq(Codes) /\ refreshes \in Seq(Refreshes) /\ tokens \in Seq(Tokens)
  /\ handler \in [Handlers -> HandlerStates]

\* A grant that was marked used: nobody else is let through with it.
Spent(cs, rs, g) ==
  \/ \E i \in 1 .. Len(cs) : cs[i].used /\ g = <<"code", i>>
  \/ \E j \in 1 .. Len(rs) : rs[j].used /\ g = <<"refresh", j>>

Exchanging(h) == handler[h].at \in {"revoke", "mint"}

\* A handler between the check of its grant and the token for it is the only
\* one with that grant, and no token has it.
GrantsApart ==
  /\ \A h \in Handlers : Exchanging(h) => Spent(codes, refreshes, handler[h].grant)
  /\ \A k \in 1 .. Len(tokens) : Spent(codes, refreshes, tokens[k].grant)
  /\ \A h \in Handlers : Exchanging(h) =>
       \A k \in 1 .. Len(tokens) : tokens[k].grant # handler[h].grant
  /\ \A g, h \in Handlers :
       Exchanging(g) /\ Exchanging(h) /\ handler[g].grant = handler[h].grant => g = h

\* Refresh tokens, kept and about to be, name the access token they replace.
AccessKnown ==
  /\ \A j \in 1 .. Len(refreshes) : refreshes[j].access \in 1 .. Len(tokens)
  /\ \A h \in Handlers : handler[h].at = "save" =>
       \E k \in 1 .. Len(tokens) : handler[h].grant = <<"token", k>>
  /\ \A h \in Handlers : handler[h].at = "revoke" =>
       \E j \in 1 .. Len(refreshes) : handler[h].grant = <<"refresh", j>>

GrantInv == OAuthTypeOK /\ GrantsApart /\ AccessKnown /\ GrantOnce

-----------------------------------------------------------------------------
\* An idle handler, and a session nobody opened.
LEMMA IdleTyped == NoSession \in Sessions /\ IdleHandler \in HandlerStates
  BY DEF NoSession, Sessions, IdleHandler, HandlerStates, Grants, Places, None

\* The start: no codes, no tokens, and every handler idle.
LEMMA OAuthInitInv == OAuthInit => GrantInv
<1> SUFFICES ASSUME OAuthInit PROVE GrantInv
  OBVIOUS
<1>1. OAuthTypeOK
  BY IdleTyped, EmptySeq DEF OAuthInit, OAuthTypeOK
<1>2. /\ \A h \in Handlers : handler[h].at = "idle"
      /\ Len(tokens) = 0 /\ Len(refreshes) = 0
  BY EmptySeq DEF OAuthInit, IdleHandler
<1>3. GrantOnce
  BY SMT DEF OAuthInit, GrantOnce
<1>4. GrantsApart
  <2>1. (\A h \in Handlers : ~Exchanging(h)) /\ 1 .. Len(tokens) = {}
    BY SMT, <1>2 DEF Exchanging
  <2> QED
    BY <2>1 DEF GrantsApart
<1>5. AccessKnown
  BY SMT, <1>2 DEF AccessKnown
<1> QED
  BY <1>1, <1>3, <1>4, <1>5 DEF GrantInv

\* A handler that moves on keeps what it has read.
LEMMA MoveHandler ==
  ASSUME handler \in [Handlers -> HandlerStates], NEW h \in Handlers,
         NEW p \in Places, handler' = [handler EXCEPT ![h].at = p]
  PROVE  /\ handler' \in [Handlers -> HandlerStates]
         /\ handler'[h].at = p /\ handler'[h].grant = handler[h].grant
         /\ \A g \in Handlers \ {h} : handler'[g] = handler[g]
<1>1. handler[h] \in HandlerStates
  OBVIOUS
<1>2. PICK r : r = [handler[h] EXCEPT !.at = p]
  OBVIOUS
<1>3. r \in HandlerStates /\ r.at = p /\ r.grant = handler[h].grant
  BY <1>1, <1>2 DEF HandlerStates
<1>4. handler' = [handler EXCEPT ![h] = r]
  BY <1>2
<1> QED
  BY <1>3, <1>4

\* A sequence of rows with the flag of one of them set.
LEMMA FlagSet ==
  ASSUME NEW S, NEW seq \in Seq(S), NEW i \in 1 .. Len(seq), NEW x \in S
  PROVE  /\ [seq EXCEPT ![i] = x] \in Seq(S)
         /\ Len([seq EXCEPT ![i] = x]) = Len(seq)
         /\ [seq EXCEPT ![i] = x][i] = x
         /\ \A k \in 1 .. Len(seq) : k # i => [seq EXCEPT ![i] = x][k] = seq[k]
  BY SMT, ExceptSeq, LenProperties

\* The handler spends a grant in this step, and has it.
StartsExchange(h) ==
  /\ handler'[h].at \in {"revoke", "mint"}
  /\ Spent(codes', refreshes', handler'[h].grant)
  /\ ~Spent(codes, refreshes, handler'[h].grant)
  /\ handler'[h].at = "revoke" =>
       \E j \in 1 .. Len(refreshes) : handler'[h].grant = <<"refresh", j>>

\* The step leaves the grants of the tokens, and what is spent stays spent.
KeepsGrants ==
  /\ Len(tokens') = Len(tokens)
  /\ \A k \in 1 .. Len(tokens) : tokens'[k].grant = tokens[k].grant
  /\ Len(refreshes') = Len(refreshes)
  /\ \A j \in 1 .. Len(refreshes) : refreshes'[j].access = refreshes[j].access
  /\ \A g : Spent(codes, refreshes, g) => Spent(codes', refreshes', g)

\* Nobody but n starts an exchange in the step.
MovesOn(n) == \A h \in Handlers :
  \/ handler'[h] = handler[h]
  \/ handler'[h].at \notin {"revoke", "mint", "save"}
  \/ /\ handler'[h].at = "mint" /\ Exchanging(h)
     /\ handler'[h].grant = handler[h].grant
  \/ h = n /\ StartsExchange(h)

\* Every step but the minting of a token and the saving of its refresh token:
\* what is spent stays spent, and a handler that starts an exchange does it
\* with a grant that it has spent itself.
LEMMA GrantStep ==
  ASSUME GrantInv, OAuthTypeOK', KeepsGrants, NEW n, MovesOn(n)
  PROVE  GrantInv'
<1> USE DEF KeepsGrants, MovesOn
<1>0. OAuthTypeOK /\ GrantsApart /\ AccessKnown /\ GrantOnce
  BY DEF GrantInv
<1>1. \A h \in Handlers : Exchanging(h)' =>
        \/ Exchanging(h) /\ handler'[h].grant = handler[h].grant
        \/ /\ h = n /\ Spent(codes', refreshes', handler'[h].grant)
           /\ ~Spent(codes, refreshes, handler'[h].grant)
  BY DEF Exchanging, StartsExchange
<1>2. GrantsApart'
  <2>1. \A h \in Handlers : Exchanging(h)' => Spent(codes', refreshes', handler'[h].grant)
    BY <1>0, <1>1 DEF GrantsApart
  <2>2. \A k \in 1 .. Len(tokens') : Spent(codes', refreshes', tokens'[k].grant)
    BY <1>0 DEF GrantsApart
  <2>3. \A h \in Handlers : Exchanging(h)' =>
          \A k \in 1 .. Len(tokens') : tokens'[k].grant # handler'[h].grant
    BY SMT, <1>0, <1>1 DEF GrantsApart
  <2>4. \A g, h \in Handlers :
          Exchanging(g)' /\ Exchanging(h)' /\ handler'[g].grant = handler'[h].grant
          => g = h
    <3> SUFFICES ASSUME NEW g \in Handlers, NEW h \in Handlers,
                        Exchanging(g)', Exchanging(h)',
                        handler'[g].grant = handler'[h].grant
                 PROVE  g = h
      OBVIOUS
    <3>1. \A x \in Handlers : Exchanging(x) => Spent(codes, refreshes, handler[x].grant)
      BY <1>0 DEF GrantsApart
    <3>2. CASE Spent(codes, refreshes, handler'[g].grant)
      <4>1. /\ Exchanging(g) /\ handler'[g].grant = handler[g].grant
            /\ Exchanging(h) /\ handler'[h].grant = handler[h].grant
        BY <1>1, <3>2
      <4> QED
        BY <1>0, <4>1 DEF GrantsApart
    <3>3. CASE ~Spent(codes, refreshes, handler'[g].grant)
      BY <1>1, <3>1, <3>3
    <3> QED
      BY <3>2, <3>3
  <2> QED
    BY <2>1, <2>2, <2>3, <2>4 DEF GrantsApart
<1>3. AccessKnown'
  <2>1. \A h \in Handlers : handler'[h].at = "save" =>
          \E k \in 1 .. Len(tokens) : handler'[h].grant = <<"token", k>>
    BY SMT, <1>0 DEF AccessKnown, StartsExchange
  <2>2. \A h \in Handlers : handler'[h].at = "revoke" =>
          \E j \in 1 .. Len(refreshes) : handler'[h].grant = <<"refresh", j>>
    BY SMT, <1>0 DEF AccessKnown, StartsExchange
  <2> QED
    BY <1>0, <2>1, <2>2 DEF AccessKnown
<1>4. GrantOnce'
  <2>1. DOMAIN tokens = 1 .. Len(tokens) /\ DOMAIN tokens' = 1 .. Len(tokens')
    BY <1>0, LenProperties DEF OAuthTypeOK
  <2> QED
    BY <1>0, <2>1 DEF GrantOnce
<1> QED
  BY <1>2, <1>3, <1>4 DEF GrantInv

\* A step that exchanges nothing and leaves the grants alone.
LEMMA QuietStep ==
  ASSUME GrantInv, OAuthTypeOK', UNCHANGED <<codes, refreshes, tokens>>,
         \A h \in Handlers : \/ handler'[h] = handler[h]
                             \/ handler'[h].at \notin {"revoke", "mint", "save"}
  PROVE  GrantInv'
<1>1. \A g : Spent(codes, refreshes, g) => Spent(codes', refreshes', g)
  OBVIOUS
<1>k. KeepsGrants
  BY <1>1 DEF KeepsGrants
<1>m. MovesOn(0)
  BY <1>1 DEF MovesOn
<1> QED
  BY <1>k, <1>m, GrantStep

\* Registration, authorize and the login handlers up to the code.
LEMMA LoginSteps ==
  ASSUME GrantInv, NEW h \in Handlers,
         \/ \E c \in Clients : Register(c)
         \/ \E l \in Logins : authorize(l) \/ ExpireLogin(l)
         \/ LoginGet(h) \/ LoginTake(h) \/ OIDCStartGet(h) \/ OIDCStartSave(h)
         \/ OIDCCallback(h) \/ HandlerFails(h)
  PROVE  GrantInv'
<1>0. /\ clients \in [Clients -> SUBSET Redirects]
      /\ logins \in [Logins -> Sessions] /\ asked \in [Logins -> Sessions]
      /\ handler \in [Handlers -> HandlerStates] /\ OAuthTypeOK
  BY DEF GrantInv, OAuthTypeOK
<1>a. /\ \A l \in Logins : logins[l] \in Sessions
      /\ handler[h] \in HandlerStates /\ handler[h].sess \in Sessions
  BY <1>0 DEF HandlerStates
<1>b. ASSUME NEW r \in HandlerStates, r.at \notin {"revoke", "mint", "save"},
             handler' = [handler EXCEPT ![h] = r],
             logins' \in [Logins -> Sessions],
             UNCHANGED <<clients, asked, codes, refreshes, tokens>>
      PROVE  GrantInv'
  <2>1. handler' \in [Handlers -> HandlerStates]
    BY <1>0, <1>b
  <2>2. OAuthTypeOK'
    BY <1>0, <1>b, <2>1 DEF OAuthTypeOK
  <2>3. \A g \in Handlers : handler'[g] = IF g = h THEN r ELSE handler[g]
    BY <1>0, <1>b
  <2> QED
    BY <1>b, <2>2, <2>3, QuietStep
<1>1. ASSUME NEW c \in Clients, Register(c) PROVE GrantInv'
  <2>1. OAuthTypeOK'
    BY <1>0, <1>1 DEF Register, OAuthTypeOK
  <2> QED
    BY <1>1, <2>1, QuietStep DEF Register
<1>2. ASSUME NEW l \in Logins, authorize(l) PROVE GrantInv'
  <2> DEFINE Asked(c, u, v) == [client |-> c, redirect |-> u,
                                challenge |-> S256(v), provider |-> FALSE]
  <2>0. PICK c \in Clients, u \in Redirects, v \in Verifiers :
          /\ logins' = [logins EXCEPT ![l] = Asked(c, u, v)]
          /\ asked' = [asked EXCEPT ![l] = Asked(c, u, v)]
          /\ UNCHANGED <<expired, clients, codes, refreshes, tokens, handler>>
    BY <1>2 DEF authorize
  <2> DEFINE sess == Asked(c, u, v)
  <2>2. sess \in Sessions
    BY DEF Sessions, S256
  <2>1. /\ logins' = [logins EXCEPT ![l] = sess]
        /\ asked' = [asked EXCEPT ![l] = sess]
        /\ UNCHANGED <<expired, clients, codes, refreshes, tokens, handler>>
    BY <2>0
  <2> HIDE DEF sess
  <2>3. OAuthTypeOK'
    BY <1>0, <2>1, <2>2 DEF OAuthTypeOK
  <2> QED
    BY <2>1, <2>3, QuietStep
<1>3. ASSUME NEW l \in Logins, ExpireLogin(l) PROVE GrantInv'
  <2>1. OAuthTypeOK'
    BY <1>0, <1>3 DEF ExpireLogin, OAuthTypeOK
  <2> QED
    BY <1>3, <2>1, QuietStep DEF ExpireLogin
<1>4. CASE LoginGet(h)
  <2>1. PICK l \in Logins, s \in Subjects :
          /\ handler' = [handler EXCEPT ![h] =
               [IdleHandler EXCEPT !.at = "take", !.login = l, !.sess = logins[l],
                                   !.who = s]]
          /\ UNCHANGED <<clients, logins, asked, expired, codes, refreshes, tokens>>
    BY <1>4 DEF LoginGet
  <2>2. PICK r : r = [IdleHandler EXCEPT !.at = "take", !.login = l,
                                         !.sess = logins[l], !.who = s]
    OBVIOUS
  <2>3. r \in HandlerStates /\ r.at = "take"
    BY <1>a, <2>2, IdleTyped DEF HandlerStates, Places
  <2> QED
    BY <1>0, <1>b, <2>1, <2>2, <2>3
<1>5. CASE OIDCStartGet(h)
  <2>1. PICK l \in Logins :
          /\ handler' = [handler EXCEPT ![h] =
               [IdleHandler EXCEPT !.at = "start", !.login = l, !.sess = logins[l]]]
          /\ UNCHANGED <<clients, logins, asked, expired, codes, refreshes, tokens>>
    BY <1>5 DEF OIDCStartGet
  <2>2. PICK r : r = [IdleHandler EXCEPT !.at = "start", !.login = l, !.sess = logins[l]]
    OBVIOUS
  <2>3. r \in HandlerStates /\ r.at = "start"
    BY <1>a, <2>2, IdleTyped DEF HandlerStates, Places
  <2> QED
    BY <1>0, <1>b, <2>1, <2>2, <2>3
<1>6. CASE LoginTake(h)
  <2>1. logins' \in [Logins -> Sessions]
    BY <1>0, <1>6, IdleTyped DEF LoginTake
  <2>2. PICK r : r = [handler[h] EXCEPT !.at = "complete"]
    OBVIOUS
  <2>3. r \in HandlerStates /\ r.at = "complete"
    BY <1>a, <2>2 DEF HandlerStates, Places
  <2>4. /\ handler' = [handler EXCEPT ![h] = r]
        /\ UNCHANGED <<clients, asked, codes, refreshes, tokens>>
    BY <1>6, <2>2 DEF LoginTake
  <2> QED
    BY <1>b, <2>1, <2>3, <2>4
<1>7. CASE OIDCStartSave(h)
  <2>1. PICK sess : sess = [handler[h].sess EXCEPT !.provider = TRUE]
    OBVIOUS
  <2>2. sess \in Sessions
    BY <1>a, <2>1 DEF Sessions
  <2>3. /\ logins' = [logins EXCEPT ![handler[h].login] = sess]
        /\ handler' = [handler EXCEPT ![h] = IdleHandler]
        /\ UNCHANGED <<clients, asked, codes, refreshes, tokens>>
    BY <1>7, <2>1 DEF OIDCStartSave, Done
  <2>4. logins' \in [Logins -> Sessions]
    BY <1>0, <2>2, <2>3
  <2> QED
    BY <1>b, <2>3, <2>4, IdleTyped DEF IdleHandler
<1>8. CASE OIDCCallback(h)
  <2>1. PICK l \in Logins :
          /\ logins' = [logins EXCEPT ![l] = NoSession]
          /\ \/ \E s \in Subjects :
                  handler' = [handler EXCEPT ![h] =
                    [IdleHandler EXCEPT !.at = "complete", !.login = l,
                                        !.sess = logins[l], !.who = s]]
             \/ UNCHANGED handler
          /\ UNCHANGED <<clients, asked, expired, codes, refreshes, tokens>>
    BY <1>8 DEF OIDCCallback
  <2>2. logins' \in [Logins -> Sessions]
    BY <1>0, <2>1, IdleTyped
  <2>3. CASE UNCHANGED handler
    <3>1. OAuthTypeOK'
      BY <1>0, <2>1, <2>2, <2>3 DEF OAuthTypeOK
    <3> QED
      BY <2>1, <2>3, <3>1, QuietStep
  <2>4. ASSUME NEW s \in Subjects,
               handler' = [handler EXCEPT ![h] =
                 [IdleHandler EXCEPT !.at = "complete", !.login = l,
                                     !.sess = logins[l], !.who = s]]
        PROVE  GrantInv'
    <3>1. PICK r : r = [IdleHandler EXCEPT !.at = "complete", !.login = l,
                                           !.sess = logins[l], !.who = s]
      OBVIOUS
    <3>2. r \in HandlerStates /\ r.at = "complete"
      BY <1>a, <3>1, IdleTyped DEF HandlerStates, Places
    <3> QED
      BY <1>b, <2>1, <2>2, <2>4, <3>1, <3>2
  <2> QED
    BY <2>1, <2>3, <2>4
<1>9. CASE HandlerFails(h)
  BY <1>0, <1>b, <1>9, IdleTyped DEF HandlerFails, Done, IdleHandler
<1> QED
  BY <1>1, <1>2, <1>3, <1>4, <1>5, <1>6, <1>7, <1>8, <1>9

\* Marking a code used spends its grant and no other.
LEMMA ConsumedSpends ==
  ASSUME codes \in Seq(Codes), NEW i \in DOMAIN codes, ~codes[i].used,
         Consumed(i), UNCHANGED refreshes
  PROVE  /\ codes' \in Seq(Codes)
         /\ ~Spent(codes, refreshes, <<"code", i>>)
         /\ Spent(codes', refreshes', <<"code", i>>)
         /\ \A g : Spent(codes, refreshes, g) => Spent(codes', refreshes', g)
<1>1. i \in 1 .. Len(codes) /\ codes[i] \in Codes
  BY LenProperties, ElementOfSeq
<1>2. PICK c : c = [codes[i] EXCEPT !.used = TRUE]
  OBVIOUS
<1>3. c \in Codes /\ c.used
  BY <1>1, <1>2 DEF Codes
<1>4. codes' = [codes EXCEPT ![i] = c]
  BY <1>2 DEF Consumed
<1>5. /\ codes' \in Seq(Codes) /\ Len(codes') = Len(codes) /\ codes'[i] = c
      /\ \A k \in 1 .. Len(codes) : k # i => codes'[k] = codes[k]
  BY SMT, <1>1, <1>3, <1>4, FlagSet
<1>6. ~Spent(codes, refreshes, <<"code", i>>)
  BY DEF Spent
<1>7. \A g : Spent(codes, refreshes, g) => Spent(codes', refreshes', g)
  BY <1>3, <1>5 DEF Spent
<1>8. Spent(codes', refreshes', <<"code", i>>)
  BY <1>1, <1>3, <1>5 DEF Spent
<1> QED
  BY <1>5, <1>6, <1>7, <1>8

\* A code is saved, is exchanged once, or its time is over.
LEMMA CodeSteps ==
  ASSUME GrantInv, NEW h \in Handlers,
         completeAuthorize(h) \/ tokenAuthorizationCode(h) \/ ExpireCode
  PROVE  GrantInv'
<1>0. /\ codes \in Seq(Codes) /\ handler \in [Handlers -> HandlerStates]
      /\ OAuthTypeOK
  BY DEF GrantInv, OAuthTypeOK
<1>1. CASE completeAuthorize(h)
  <2>1. PICK c : c = [login |-> handler[h].login, client |-> handler[h].sess.client,
                      redirect |-> handler[h].sess.redirect,
                      challenge |-> handler[h].sess.challenge,
                      subject |-> handler[h].who, used |-> FALSE]
    OBVIOUS
  <2>2. c \in Codes
    <3>1. handler[h] \in HandlerStates
      BY <1>0
    <3>2. /\ handler[h].login \in Logins \cup {None} /\ handler[h].sess \in Sessions
          /\ handler[h].who \in Subjects \cup {None}
      BY <3>1 DEF HandlerStates
    <3> QED
      BY <2>1, <3>2 DEF Codes, Sessions
  <2>3. /\ codes' = Append(codes, c)
        /\ handler' = [handler EXCEPT ![h] = IdleHandler]
        /\ UNCHANGED <<clients, logins, asked, refreshes, tokens>>
    BY <1>1, <2>1 DEF completeAuthorize, Done
  <2>4. /\ codes' \in Seq(Codes) /\ Len(codes') = Len(codes) + 1 /\ Len(codes) \in Nat
        /\ \A k \in 1 .. Len(codes) : codes'[k] = codes[k]
    BY SMT, <1>0, <2>2, <2>3, AppendProperties, LenProperties
  <2>5. \A g : Spent(codes, refreshes, g) => Spent(codes', refreshes', g)
    BY SMT, <2>3, <2>4 DEF Spent
  <2>6. /\ handler' \in [Handlers -> HandlerStates] /\ handler'[h].at = "idle"
        /\ \A x \in Handlers \ {h} : handler'[x] = handler[x]
    BY <1>0, <2>3, IdleTyped DEF IdleHandler
  <2>7. OAuthTypeOK'
    BY <1>0, <2>3, <2>4, <2>6 DEF OAuthTypeOK
  <2>8. \A x \in Handlers : \/ handler'[x] = handler[x]
                            \/ handler'[x].at \notin {"revoke", "mint", "save"}
    BY <2>6
  <2>k. KeepsGrants
    BY <2>3, <2>5, <2>8 DEF KeepsGrants
  <2>m. MovesOn(h)
    BY <2>3, <2>5, <2>8 DEF MovesOn
  <2> QED
    BY <2>7, <2>k, <2>m, GrantStep
<1>2. CASE tokenAuthorizationCode(h)
  <2>1. PICK i \in DOMAIN codes, client \in Clients :
          /\ ~codes[i].used /\ Consumed(i)
          /\ \/ handler' = [handler EXCEPT ![h] =
                  [IdleHandler EXCEPT !.at = "mint", !.who = codes[i].subject,
                                      !.client = client, !.grant = <<"code", i>>]]
             \/ UNCHANGED handler
          /\ UNCHANGED <<clients, logins, asked, expired, refreshes, tokens>>
    BY <1>2 DEF tokenAuthorizationCode, ConsumeCode
  <2>2. /\ codes' \in Seq(Codes)
        /\ ~Spent(codes, refreshes, <<"code", i>>)
        /\ Spent(codes', refreshes', <<"code", i>>)
        /\ \A g : Spent(codes, refreshes, g) => Spent(codes', refreshes', g)
    BY <1>0, <2>1, ConsumedSpends
  <2>3. CASE UNCHANGED handler
    <3>1. OAuthTypeOK'
      BY <1>0, <2>1, <2>2, <2>3 DEF OAuthTypeOK
    <3>k. KeepsGrants
      BY <2>1, <2>2, <2>3 DEF KeepsGrants
    <3>m. MovesOn(h)
      BY <2>1, <2>2, <2>3 DEF MovesOn
    <3> QED
      BY <3>1, <3>k, <3>m, GrantStep
  <2>4. CASE handler' = [handler EXCEPT ![h] =
               [IdleHandler EXCEPT !.at = "mint", !.who = codes[i].subject,
                                   !.client = client, !.grant = <<"code", i>>]]
    <3>1. PICK r : r = [IdleHandler EXCEPT !.at = "mint", !.who = codes[i].subject,
                                           !.client = client, !.grant = <<"code", i>>]
      OBVIOUS
    <3>2. i \in Nat /\ codes[i] \in Codes
      BY SMT, <1>0, LenProperties, ElementOfSeq
    <3>a. codes[i].subject \in Subjects \cup {None} /\ <<"code", i>> \in Grants
      BY <3>2 DEF Codes, Grants
    <3>3. r \in HandlerStates /\ r.at = "mint" /\ r.grant = <<"code", i>>
      BY <3>1, <3>a, IdleTyped DEF HandlerStates, Places, IdleHandler
    <3>4. /\ handler' \in [Handlers -> HandlerStates] /\ handler'[h] = r
          /\ \A x \in Handlers \ {h} : handler'[x] = handler[x]
      BY <1>0, <2>4, <3>1, <3>3
    <3>5. OAuthTypeOK'
      BY <1>0, <2>1, <2>2, <3>4 DEF OAuthTypeOK
    <3>6. \A x \in Handlers : handler'[x] = handler[x] \/ (x = h /\ StartsExchange(x))
      BY <2>2, <3>3, <3>4 DEF StartsExchange
    <3>7. /\ Len(tokens') = Len(tokens) /\ Len(refreshes') = Len(refreshes)
          /\ \A k \in 1 .. Len(tokens) : tokens'[k].grant = tokens[k].grant
          /\ \A j \in 1 .. Len(refreshes) : refreshes'[j].access = refreshes[j].access
      BY <2>1
    <3>k. KeepsGrants
      BY <2>2, <3>6, <3>7 DEF KeepsGrants
    <3>m. MovesOn(h)
      BY <2>2, <3>6, <3>7 DEF MovesOn
    <3> QED
      BY <3>5, <3>k, <3>m, GrantStep
  <2> QED
    BY <2>1, <2>3, <2>4
<1>3. CASE ExpireCode
  <2>1. PICK i \in DOMAIN codes :
          /\ ~codes[i].used /\ Consumed(i)
          /\ UNCHANGED <<clients, logins, asked, expired, refreshes, tokens, handler>>
    BY <1>3 DEF ExpireCode
  <2>2. /\ codes' \in Seq(Codes)
        /\ \A g : Spent(codes, refreshes, g) => Spent(codes', refreshes', g)
    BY <1>0, <2>1, ConsumedSpends
  <2>3. OAuthTypeOK'
    BY <1>0, <2>1, <2>2 DEF OAuthTypeOK
  <2>k. KeepsGrants
    BY <2>1, <2>2 DEF KeepsGrants
  <2>m. MovesOn(h)
    BY <2>1, <2>2 DEF MovesOn
  <2> QED
    BY <2>3, <2>k, <2>m, GrantStep
<1> QED
  BY <1>1, <1>2, <1>3

\* Marking a refresh token used spends its grant and no other.
LEMMA RefreshSpends ==
  ASSUME refreshes \in Seq(Refreshes), NEW j \in DOMAIN refreshes,
         ~refreshes[j].used, UNCHANGED codes,
         refreshes' = [refreshes EXCEPT ![j].used = TRUE]
  PROVE  /\ refreshes' \in Seq(Refreshes) /\ Len(refreshes') = Len(refreshes)
         /\ \A k \in 1 .. Len(refreshes) : refreshes'[k].access = refreshes[k].access
         /\ ~Spent(codes, refreshes, <<"refresh", j>>)
         /\ Spent(codes', refreshes', <<"refresh", j>>)
         /\ \A g : Spent(codes, refreshes, g) => Spent(codes', refreshes', g)
<1>1. j \in 1 .. Len(refreshes) /\ refreshes[j] \in Refreshes
  BY LenProperties, ElementOfSeq
<1>2. PICK r : r = [refreshes[j] EXCEPT !.used = TRUE]
  OBVIOUS
<1>3. r \in Refreshes /\ r.used /\ r.access = refreshes[j].access
  BY <1>1, <1>2 DEF Refreshes
<1>4. refreshes' = [refreshes EXCEPT ![j] = r]
  BY <1>2
<1>5. /\ refreshes' \in Seq(Refreshes) /\ Len(refreshes') = Len(refreshes)
      /\ refreshes'[j] = r
      /\ \A k \in 1 .. Len(refreshes) : k # j => refreshes'[k] = refreshes[k]
  <2> DEFINE new == [refreshes EXCEPT ![j] = r]
  <2>1. /\ new \in Seq(Refreshes) /\ Len(new) = Len(refreshes) /\ new[j] = r
        /\ \A k \in 1 .. Len(refreshes) : k # j => new[k] = refreshes[k]
    BY SMT, <1>1, <1>3, FlagSet
  <2> HIDE DEF new
  <2>2. refreshes' = new
    BY <1>4 DEF new
  <2> QED
    BY <2>1, <2>2
<1>6. ~Spent(codes, refreshes, <<"refresh", j>>)
  BY DEF Spent
<1>7. \A g : Spent(codes, refreshes, g) => Spent(codes', refreshes', g)
  BY <1>3, <1>5 DEF Spent
<1>8. Spent(codes', refreshes', <<"refresh", j>>)
  BY <1>1, <1>3, <1>5 DEF Spent
<1> QED
  BY <1>3, <1>5, <1>6, <1>7, <1>8

\* A refresh token is exchanged once, or its time is over.
LEMMA RefreshSteps ==
  ASSUME GrantInv, NEW h \in Handlers, tokenRefresh(h) \/ ExpireRefresh
  PROVE  GrantInv'
<1>0. /\ refreshes \in Seq(Refreshes) /\ handler \in [Handlers -> HandlerStates]
      /\ OAuthTypeOK
  BY DEF GrantInv, OAuthTypeOK
<1>1. PICK j \in DOMAIN refreshes :
        /\ ~refreshes[j].used
        /\ refreshes' = [refreshes EXCEPT ![j].used = TRUE]
        /\ \/ handler' = [handler EXCEPT ![h] =
                [IdleHandler EXCEPT !.at = "revoke", !.who = refreshes[j].subject,
                                    !.client = refreshes[j].client,
                                    !.grant = <<"refresh", j>>]]
           \/ UNCHANGED handler
        /\ UNCHANGED <<clients, logins, asked, expired, codes, tokens>>
  <2>1. CASE tokenRefresh(h)
    BY <2>1 DEF tokenRefresh
  <2>2. CASE ExpireRefresh
    BY <2>2 DEF ExpireRefresh
  <2> QED
    BY <2>1, <2>2
<1>2. /\ refreshes' \in Seq(Refreshes) /\ Len(refreshes') = Len(refreshes)
      /\ \A k \in 1 .. Len(refreshes) : refreshes'[k].access = refreshes[k].access
      /\ ~Spent(codes, refreshes, <<"refresh", j>>)
      /\ Spent(codes', refreshes', <<"refresh", j>>)
      /\ \A g : Spent(codes, refreshes, g) => Spent(codes', refreshes', g)
  BY <1>0, <1>1, RefreshSpends
<1>a. /\ Len(tokens') = Len(tokens)
      /\ \A k \in 1 .. Len(tokens) : tokens'[k].grant = tokens[k].grant
  BY <1>1
<1>3. CASE UNCHANGED handler
  <2>1. OAuthTypeOK'
    BY <1>0, <1>1, <1>2, <1>3 DEF OAuthTypeOK
  <2>k. KeepsGrants
    BY <1>2, <1>3, <1>a DEF KeepsGrants
  <2>m. MovesOn(h)
    BY <1>2, <1>3, <1>a DEF MovesOn
  <2> QED
    BY <2>1, <2>k, <2>m, GrantStep
<1>4. CASE handler' = [handler EXCEPT ![h] =
             [IdleHandler EXCEPT !.at = "revoke", !.who = refreshes[j].subject,
                                 !.client = refreshes[j].client,
                                 !.grant = <<"refresh", j>>]]
  <2>1. PICK r : r = [IdleHandler EXCEPT !.at = "revoke", !.who = refreshes[j].subject,
                                         !.client = refreshes[j].client,
                                         !.grant = <<"refresh", j>>]
    OBVIOUS
  <2>2. j \in Nat /\ j \in 1 .. Len(refreshes) /\ refreshes[j] \in Refreshes
    BY SMT, <1>0, LenProperties, ElementOfSeq
  <2>3. /\ refreshes[j].subject \in Subjects \cup {None}
        /\ refreshes[j].client \in Clients \cup {None} /\ <<"refresh", j>> \in Grants
    BY <2>2 DEF Refreshes, Grants
  <2>4. r \in HandlerStates /\ r.at = "revoke" /\ r.grant = <<"refresh", j>>
    BY <2>1, <2>3, IdleTyped DEF HandlerStates, Places, IdleHandler
  <2>5. /\ handler' \in [Handlers -> HandlerStates] /\ handler'[h] = r
        /\ \A x \in Handlers \ {h} : handler'[x] = handler[x]
    BY <1>0, <1>4, <2>1, <2>4
  <2>6. OAuthTypeOK'
    BY <1>0, <1>1, <1>2, <2>5 DEF OAuthTypeOK
  <2>7. \A x \in Handlers : handler'[x] = handler[x] \/ (x = h /\ StartsExchange(x))
    BY <1>2, <2>2, <2>4, <2>5 DEF StartsExchange
  <2>k. KeepsGrants
    BY <1>2, <1>a, <2>7 DEF KeepsGrants
  <2>m. MovesOn(h)
    BY <1>2, <1>a, <2>7 DEF MovesOn
  <2> QED
    BY <2>6, <2>k, <2>m, GrantStep
<1> QED
  BY <1>1, <1>3, <1>4

\* The old access token is revoked, or its revocation fails, before the new
\* one is minted for the same grant.
LEMMA RevokeSteps ==
  ASSUME GrantInv, NEW h \in Handlers, RevokeOld(h) \/ RevokeFails(h)
  PROVE  GrantInv'
<1>0. /\ refreshes \in Seq(Refreshes) /\ tokens \in Seq(Tokens)
      /\ handler \in [Handlers -> HandlerStates] /\ OAuthTypeOK /\ AccessKnown
  BY DEF GrantInv, OAuthTypeOK
<1>1. /\ handler[h].at = "revoke" /\ handler' = [handler EXCEPT ![h].at = "mint"]
      /\ UNCHANGED <<clients, logins, asked, expired, codes, refreshes>>
  BY DEF RevokeOld, RevokeFails, At
<1>2. PICK j \in 1 .. Len(refreshes) : handler[h].grant = <<"refresh", j>>
  BY <1>0, <1>1 DEF AccessKnown
<1>3. PICK k \in 1 .. Len(tokens) : k = refreshes[handler[h].grant[2]].access
  BY SMT, <1>0, <1>2 DEF AccessKnown
<1>4. tokens[k] \in Tokens
  BY <1>0, ElementOfSeq
<1>5. PICK t \in Tokens : /\ t.grant = tokens[k].grant
                          /\ tokens' = [tokens EXCEPT ![k] = t]
  <2>1. CASE RevokeOld(h)
    <3>1. tokens' = [tokens EXCEPT ![k] = [tokens[k] EXCEPT !.live = FALSE]]
      BY <1>3, <2>1 DEF RevokeOld
    <3>2. PICK t : t = [tokens[k] EXCEPT !.live = FALSE]
      OBVIOUS
    <3>3. t \in Tokens /\ t.grant = tokens[k].grant
      BY <1>4, <3>2 DEF Tokens
    <3> QED
      BY <3>1, <3>2, <3>3
  <2>2. CASE RevokeFails(h)
    <3>1. tokens' = [tokens EXCEPT ![k] = [tokens[k] EXCEPT !.kept = TRUE]]
      BY <1>3, <2>2 DEF RevokeFails
    <3>2. PICK t : t = [tokens[k] EXCEPT !.kept = TRUE]
      OBVIOUS
    <3>3. t \in Tokens /\ t.grant = tokens[k].grant
      BY <1>4, <3>2 DEF Tokens
    <3> QED
      BY <3>1, <3>2, <3>3
  <2> QED
    BY <2>1, <2>2
<1>6. /\ tokens' \in Seq(Tokens) /\ Len(tokens') = Len(tokens)
      /\ \A x \in 1 .. Len(tokens) : tokens'[x].grant = tokens[x].grant
  <2>1. /\ tokens' \in Seq(Tokens) /\ Len(tokens') = Len(tokens) /\ tokens'[k] = t
        /\ \A x \in 1 .. Len(tokens) : x # k => tokens'[x] = tokens[x]
    BY SMT, <1>0, <1>5, FlagSet
  <2> QED
    BY <1>5, <2>1
<1>7. /\ handler' \in [Handlers -> HandlerStates]
      /\ handler'[h].at = "mint" /\ handler'[h].grant = handler[h].grant
      /\ \A x \in Handlers \ {h} : handler'[x] = handler[x]
  BY <1>0, <1>1, MoveHandler DEF Places
<1>8. OAuthTypeOK'
  BY <1>0, <1>1, <1>6, <1>7 DEF OAuthTypeOK
<1>9. \A x \in Handlers : \/ handler'[x] = handler[x]
                          \/ /\ handler'[x].at = "mint" /\ Exchanging(x)
                             /\ handler'[x].grant = handler[x].grant
  BY <1>1, <1>7 DEF Exchanging
<1>10. \A g : Spent(codes, refreshes, g) => Spent(codes', refreshes', g)
  BY <1>1
<1>11. /\ Len(refreshes') = Len(refreshes)
       /\ \A x \in 1 .. Len(refreshes) : refreshes'[x].access = refreshes[x].access
  BY <1>1
<1>k. KeepsGrants
  BY <1>6, <1>9, <1>10, <1>11 DEF KeepsGrants
<1>m. MovesOn(h)
  BY <1>6, <1>9, <1>10, <1>11 DEF MovesOn
<1> QED
  BY <1>8, <1>k, <1>m, GrantStep

\* The token for a grant is minted by the one handler that has the grant.
LEMMA MintStep ==
  ASSUME GrantInv, NEW h \in Handlers, MintToken(h)
  PROVE  GrantInv'
<1>0. /\ refreshes \in Seq(Refreshes) /\ tokens \in Seq(Tokens)
      /\ handler \in [Handlers -> HandlerStates] /\ OAuthTypeOK
      /\ GrantsApart /\ AccessKnown /\ GrantOnce
  BY DEF GrantInv, OAuthTypeOK
<1> DEFINE len == Len(tokens)
           g == handler[h].grant
           tok == [subject |-> handler[h].who, grant |-> g, root |-> Root(g),
                   live |-> TRUE, kept |-> FALSE]
           state == [handler[h] EXCEPT !.at = "save", !.grant = <<"token", len + 1>>]
<1>1. /\ handler[h].at = "mint" /\ tokens' = Append(tokens, tok)
      /\ handler' = [handler EXCEPT ![h] = state]
      /\ UNCHANGED <<clients, logins, asked, expired, codes, refreshes>>
  BY <1>0 DEF MintToken, At
<1>2. handler[h] \in HandlerStates /\ len \in Nat
  BY <1>0, LenProperties
<1>3. Exchanging(h) /\ Spent(codes, refreshes, g)
  BY <1>0, <1>1 DEF GrantsApart, Exchanging
<1>4. Root(g) \in Nat
  <2>1. CASE \E i \in 1 .. Len(codes) : g = <<"code", i>>
    BY SMT, <2>1 DEF Root
  <2>2. CASE \E j \in 1 .. Len(refreshes) : g = <<"refresh", j>>
    <3>1. PICK j \in 1 .. Len(refreshes) : g = <<"refresh", j>>
      BY <2>2
    <3>2. tokens[refreshes[j].access] \in Tokens
      BY <1>0, <3>1, ElementOfSeq DEF AccessKnown
    <3>3. Root(g) = tokens[refreshes[j].access].root
      BY SMT, <3>1 DEF Root
    <3> QED
      BY <3>2, <3>3 DEF Tokens
  <2> QED
    BY <1>3, <2>1, <2>2 DEF Spent
<1>5. tok \in Tokens /\ tok.grant = g
  <2>1. g \in Grants /\ handler[h].who \in Subjects \cup {None}
    BY <1>2 DEF HandlerStates
  <2> HIDE DEF g
  <2> QED
    BY <1>4, <2>1 DEF Tokens
<1>6. state \in HandlerStates /\ state.at = "save" /\ state.grant = <<"token", len + 1>>
  <2>1. <<"token", len + 1>> \in Grants
    BY SMT, <1>2 DEF Grants
  <2> HIDE DEF len
  <2> QED
    BY <1>2, <2>1 DEF HandlerStates, Places
<1> HIDE DEF tok, state
<1>7. /\ tokens' \in Seq(Tokens) /\ Len(tokens') = len + 1 /\ tokens'[len + 1] = tok
      /\ \A k \in 1 .. len : tokens'[k] = tokens[k]
  BY SMT, <1>0, <1>1, <1>5, AppendProperties
<1>8. /\ handler' \in [Handlers -> HandlerStates] /\ handler'[h] = state
      /\ \A x \in Handlers \ {h} : handler'[x] = handler[x]
  BY <1>0, <1>1, <1>6
<1>9. OAuthTypeOK'
  BY <1>0, <1>1, <1>7, <1>8 DEF OAuthTypeOK
<1>a. \A k \in 1 .. Len(tokens') :
        \/ k \in 1 .. len /\ tokens'[k].grant = tokens[k].grant
        \/ k = len + 1 /\ tokens'[k].grant = g
  BY SMT, <1>2, <1>5, <1>7
<1>b. \A x \in Handlers : Exchanging(x)' =>
        x # h /\ Exchanging(x) /\ handler'[x] = handler[x]
  BY <1>6, <1>8 DEF Exchanging
<1> HIDE DEF len, g
<1>10. GrantsApart'
  <2>1. \A x \in Handlers : Exchanging(x) => /\ Spent(codes, refreshes, handler[x].grant)
                                             /\ x # h => handler[x].grant # g
    BY <1>0, <1>3 DEF GrantsApart, g
  <2>2. \A k \in 1 .. Len(tokens') : Spent(codes', refreshes', tokens'[k].grant)
    BY <1>0, <1>1, <1>3, <1>a DEF GrantsApart, len
  <2>3. \A x \in Handlers : Exchanging(x)' =>
          \A k \in 1 .. Len(tokens') : tokens'[k].grant # handler'[x].grant
    BY <1>0, <1>a, <1>b, <2>1 DEF GrantsApart, len
  <2>4. \A x, y \in Handlers :
          Exchanging(x)' /\ Exchanging(y)' /\ handler'[x].grant = handler'[y].grant
          => x = y
    BY <1>0, <1>b DEF GrantsApart
  <2>5. \A x \in Handlers : Exchanging(x)' => Spent(codes', refreshes', handler'[x].grant)
    BY <1>1, <1>b, <2>1
  <2> QED
    BY <2>2, <2>3, <2>4, <2>5 DEF GrantsApart
<1>11. AccessKnown'
  <2>1. 1 .. len \subseteq 1 .. len + 1 /\ len + 1 \in 1 .. len + 1
    BY SMT, <1>2
  <2>2. \A x \in Handlers : handler'[x].at = "save" =>
          \E k \in 1 .. len + 1 : handler'[x].grant = <<"token", k>>
    BY <1>0, <1>6, <1>8, <2>1 DEF AccessKnown, len
  <2>3. \A x \in Handlers : handler'[x].at = "revoke" =>
          \E j \in 1 .. Len(refreshes) : handler'[x].grant = <<"refresh", j>>
    BY <1>0, <1>6, <1>8 DEF AccessKnown
  <2>4. \A j \in 1 .. Len(refreshes) : refreshes[j].access \in 1 .. len + 1
    BY <1>0, <2>1 DEF AccessKnown, len
  <2> QED
    BY <1>1, <1>7, <2>2, <2>3, <2>4 DEF AccessKnown
<1>12. GrantOnce'
  <2>1. DOMAIN tokens = 1 .. len /\ DOMAIN tokens' = 1 .. Len(tokens')
    BY <1>0, <1>7, LenProperties DEF len
  <2>2. \A k \in 1 .. len : tokens[k].grant # g
    BY <1>0, <1>3 DEF GrantsApart, len, g
  <2> QED
    BY SMT, <1>0, <1>a, <2>1, <2>2 DEF GrantOnce
<1> QED
  BY <1>9, <1>10, <1>11, <1>12 DEF GrantInv

\* The refresh token saved last names the access token it came with.
LEMMA SaveStep ==
  ASSUME GrantInv, NEW h \in Handlers, SaveRefresh(h)
  PROVE  GrantInv'
<1>0. /\ refreshes \in Seq(Refreshes) /\ tokens \in Seq(Tokens)
      /\ handler \in [Handlers -> HandlerStates] /\ OAuthTypeOK
      /\ GrantsApart /\ AccessKnown /\ GrantOnce
  BY DEF GrantInv, OAuthTypeOK
<1> DEFINE r == [client |-> handler[h].client, subject |-> handler[h].who,
                 access |-> handler[h].grant[2], used |-> FALSE]
<1>1. /\ handler[h].at = "save" /\ refreshes' = Append(refreshes, r)
      /\ handler' = [handler EXCEPT ![h] = IdleHandler]
      /\ UNCHANGED <<clients, logins, asked, expired, codes, tokens>>
  BY DEF SaveRefresh, At, Done
<1>2. PICK k \in 1 .. Len(tokens) : handler[h].grant = <<"token", k>>
  BY <1>0, <1>1 DEF AccessKnown
<1>3. handler[h] \in HandlerStates
  BY <1>0
<1>4. r \in Refreshes /\ r.access = k
  <2>1. /\ handler[h].client \in Clients \cup {None}
        /\ handler[h].who \in Subjects \cup {None}
    BY <1>3 DEF HandlerStates
  <2>2. handler[h].grant[2] = k
    BY SMT, <1>2
  <2>3. k \in Nat
    BY SMT, <1>0, LenProperties
  <2> QED
    BY <2>1, <2>2, <2>3 DEF Refreshes
<1> HIDE DEF r
<1>5. /\ refreshes' \in Seq(Refreshes) /\ Len(refreshes') = Len(refreshes) + 1
      /\ Len(refreshes) \in Nat /\ refreshes'[Len(refreshes) + 1] = r
      /\ \A j \in 1 .. Len(refreshes) : refreshes'[j] = refreshes[j]
  BY SMT, <1>0, <1>1, <1>4, AppendProperties, LenProperties
<1>6. /\ handler' \in [Handlers -> HandlerStates] /\ handler'[h].at = "idle"
      /\ \A x \in Handlers \ {h} : handler'[x] = handler[x]
  BY <1>0, <1>1, IdleTyped DEF IdleHandler
<1>7. OAuthTypeOK'
  BY <1>0, <1>1, <1>5, <1>6 DEF OAuthTypeOK
<1>8. \A g : Spent(codes, refreshes, g) => Spent(codes', refreshes', g)
  BY SMT, <1>1, <1>5 DEF Spent
<1>9. \A x \in Handlers : Exchanging(x)' => Exchanging(x) /\ handler'[x] = handler[x]
  BY <1>6 DEF Exchanging
<1>10. GrantsApart' /\ GrantOnce'
  <2>1. GrantOnce'
    BY SMT, <1>0, <1>1 DEF GrantOnce
  <2>2. \A x \in Handlers : Exchanging(x)' =>
          /\ Spent(codes', refreshes', handler'[x].grant)
          /\ \A n \in 1 .. Len(tokens') : tokens'[n].grant # handler'[x].grant
    BY SMT, <1>0, <1>1, <1>8, <1>9 DEF GrantsApart
  <2>3. \A n \in 1 .. Len(tokens') : Spent(codes', refreshes', tokens'[n].grant)
    BY <1>0, <1>1, <1>8 DEF GrantsApart
  <2>4. \A x, y \in Handlers :
          Exchanging(x)' /\ Exchanging(y)' /\ handler'[x].grant = handler'[y].grant
          => x = y
    BY <1>0, <1>9 DEF GrantsApart
  <2> QED
    BY <2>1, <2>2, <2>3, <2>4 DEF GrantsApart
<1>11. AccessKnown'
  <2>1. \A x \in Handlers : handler'[x].at = "save" =>
          \E n \in 1 .. Len(tokens) : handler'[x].grant = <<"token", n>>
    BY <1>0, <1>6 DEF AccessKnown
  <2>2. \A x \in Handlers : handler'[x].at = "revoke" =>
          \E j \in 1 .. Len(refreshes') : handler'[x].grant = <<"refresh", j>>
    <3>1. 1 .. Len(refreshes) \subseteq 1 .. Len(refreshes')
      BY SMT, <1>5
    <3> QED
      BY <1>0, <1>6, <3>1 DEF AccessKnown
  <2>3. \A j \in 1 .. Len(refreshes') : refreshes'[j].access \in 1 .. Len(tokens)
    BY SMT, <1>0, <1>4, <1>5 DEF AccessKnown
  <2> QED
    BY <1>1, <2>1, <2>2, <2>3 DEF AccessKnown
<1> QED
  BY <1>7, <1>10, <1>11 DEF GrantInv

\* Every step keeps the invariant.
LEMMA OAuthStep == GrantInv /\ [OAuthNext]_oauthVars => GrantInv'
<1> SUFFICES ASSUME GrantInv, [OAuthNext]_oauthVars PROVE GrantInv'
  OBVIOUS
<1>1. CASE UNCHANGED oauthVars
  <2>1. OAuthTypeOK'
    BY <1>1 DEF oauthVars, GrantInv, OAuthTypeOK
  <2> QED
    BY <1>1, <2>1, QuietStep DEF oauthVars
<1>2. PICK any \in Handlers : TRUE
  BY OAuthAssumption
<1>3. CASE \/ \E c \in Clients : Register(c)
           \/ \E l \in Logins : authorize(l) \/ ExpireLogin(l)
  BY <1>2, <1>3, LoginSteps
<1>4. CASE ExpireCode \/ ExpireRefresh
  BY <1>2, <1>4, CodeSteps, RefreshSteps
<1>5. ASSUME NEW h \in Handlers,
             \/ LoginGet(h) \/ LoginTake(h) \/ OIDCStartGet(h) \/ OIDCStartSave(h)
             \/ OIDCCallback(h) \/ HandlerFails(h)
      PROVE  GrantInv'
  BY <1>5, LoginSteps
<1> QED
  BY <1>1, <1>3, <1>4, <1>5, CodeSteps, RefreshSteps, RevokeSteps, MintStep, SaveStep
     DEF OAuthNext

-----------------------------------------------------------------------------
\* Whatever requests are made at once, and whichever of their calls fail, a
\* code and a refresh token each yield one access token at most
\* (oauthas/store.go:164, 229).
THEOREM GrantOnceHolds == OAuthSpec => []GrantOnce
<1>1. GrantInv => GrantOnce
  BY DEF GrantInv
<1> QED
  BY OAuthInitInv, OAuthStep, <1>1, PTL DEF OAuthSpec


-----------------------------------------------------------------------------
\* Something has the client, the redirect URI and the challenge of what was
\* accepted for a login session that authorize has opened.
AsAsked(ask, l, x) ==
  /\ l \in Logins /\ ask[l] # NoSession
  /\ x.client = ask[l].client /\ x.redirect = ask[l].redirect
  /\ x.challenge = ask[l].challenge

LoggingIn(r) == r.at \in {"take", "start", "complete"}

\* What authorize accepted names a client and a URI it registered, and the
\* stored sessions, the copies handlers have read, and the codes agree with it.
SessionInv ==
  /\ \A l \in Logins : asked[l] # NoSession =>
       asked[l].client \in Clients /\ asked[l].redirect \in clients[asked[l].client]
  /\ \A l \in Logins : logins[l] # NoSession => AsAsked(asked, l, logins[l])
  /\ \A h \in Handlers : LoggingIn(handler[h]) =>
       AsAsked(asked, handler[h].login, handler[h].sess)
  /\ \A i \in 1 .. Len(codes) : AsAsked(asked, codes[i].login, codes[i])

\* A handler that will leave a token or a refresh token, the code from which
\* its grant descends, and the access token it has: the one to replace, or the
\* one just minted.
Holding(r) == r.at \in {"revoke", "mint", "save"}
HeldRoot(r, rs, ts) ==
  IF r.at = "save" THEN ts[r.grant[2]].root
  ELSE IF r.grant[1] = "code" THEN r.grant[2]
  ELSE ts[rs[r.grant[2]].access].root
HeldToken(r, rs) == IF r.at = "save" THEN r.grant[2]
                    ELSE IF r.at = "revoke" THEN rs[r.grant[2]].access
                    ELSE 0
SavedRoot(rs, ts, j) == ts[rs[j].access].root

\* Of the handlers and the unused refresh tokens that descend from one code
\* there is one at most.
LineApart ==
  /\ \A g, h \in Handlers :
       /\ Holding(handler[g]) /\ Holding(handler[h])
       /\ HeldRoot(handler[g], refreshes, tokens) = HeldRoot(handler[h], refreshes, tokens)
       => g = h
  /\ \A h \in Handlers, j \in 1 .. Len(refreshes) :
       Holding(handler[h]) /\ ~refreshes[j].used
       => HeldRoot(handler[h], refreshes, tokens) # SavedRoot(refreshes, tokens, j)
  /\ \A i, j \in 1 .. Len(refreshes) :
       /\ ~refreshes[i].used /\ ~refreshes[j].used
       /\ SavedRoot(refreshes, tokens, i) = SavedRoot(refreshes, tokens, j)
       => i = j

\* Tokens descend from codes that were used.
RootsUsed == \A k \in 1 .. Len(tokens) :
  tokens[k].root \in 1 .. Len(codes) /\ codes[tokens[k].root].used

\* A token that a refresh has to end is the one that the line goes on from.
Counts(t) == t.live /\ ~t.kept
LineLive ==
  /\ \A k \in 1 .. Len(tokens) : Counts(tokens[k]) =>
       /\ \A h \in Handlers :
            /\ Holding(handler[h])
            /\ HeldRoot(handler[h], refreshes, tokens) = tokens[k].root
            => HeldToken(handler[h], refreshes) = k
       /\ \A j \in 1 .. Len(refreshes) :
            ~refreshes[j].used /\ SavedRoot(refreshes, tokens, j) = tokens[k].root
            => refreshes[j].access = k
  /\ \A i, k \in 1 .. Len(tokens) :
       Counts(tokens[i]) /\ Counts(tokens[k]) /\ tokens[i].root = tokens[k].root => i = k

LineInv == LineApart /\ RootsUsed /\ LineLive

-----------------------------------------------------------------------------
\* What was accepted for a login session is not replaced, so whatever agreed
\* with it still does.
LEMMA SessionKept ==
  ASSUME SessionInv,
         \A l \in Logins : asked[l] # NoSession => asked'[l] = asked[l],
         \A l \in Logins : asked'[l] # NoSession =>
            /\ asked'[l].client \in Clients
            /\ asked'[l].redirect \in clients'[asked'[l].client],
         \A l \in Logins : logins'[l] # NoSession =>
            logins'[l] = logins[l] \/ AsAsked(asked', l, logins'[l]),
         \A h \in Handlers : LoggingIn(handler'[h]) =>
            \/ /\ LoggingIn(handler[h]) /\ handler'[h].login = handler[h].login
               /\ handler'[h].sess = handler[h].sess
            \/ AsAsked(asked', handler'[h].login, handler'[h].sess),
         \A i \in 1 .. Len(codes') :
            \/ /\ i \in 1 .. Len(codes) /\ codes'[i].login = codes[i].login
               /\ codes'[i].client = codes[i].client
               /\ codes'[i].redirect = codes[i].redirect
               /\ codes'[i].challenge = codes[i].challenge
            \/ AsAsked(asked', codes'[i].login, codes'[i])
  PROVE  SessionInv'
<1>1. \A l, x : AsAsked(asked, l, x) => AsAsked(asked', l, x)
  BY DEF AsAsked
<1>2. \A l \in Logins : logins'[l] # NoSession => AsAsked(asked', l, logins'[l])
  BY <1>1 DEF SessionInv
<1>3. \A h \in Handlers : LoggingIn(handler'[h]) =>
        AsAsked(asked', handler'[h].login, handler'[h].sess)
  BY <1>1 DEF SessionInv
<1>4. \A i \in 1 .. Len(codes') : AsAsked(asked', codes'[i].login, codes'[i])
  BY SMT, <1>1 DEF SessionInv, AsAsked
<1> QED
  BY <1>2, <1>3, <1>4 DEF SessionInv

\* The accepted sessions are as they were, and a client that has redirect URIs
\* keeps them.
LEMMA AskedSame ==
  ASSUME SessionInv, UNCHANGED <<clients, asked>>
  PROVE  /\ \A l \in Logins : asked[l] # NoSession => asked'[l] = asked[l]
         /\ \A l \in Logins : asked'[l] # NoSession =>
              /\ asked'[l].client \in Clients
              /\ asked'[l].redirect \in clients'[asked'[l].client]
  BY DEF SessionInv

\* A client registers, authorize accepts a session, its time is over.
LEMMA SessionOpens ==
  ASSUME GrantInv, SessionInv,
         \/ \E c \in Clients : Register(c)
         \/ \E l \in Logins : authorize(l) \/ ExpireLogin(l)
  PROVE  SessionInv'
<1>0. /\ clients \in [Clients -> SUBSET Redirects]
      /\ logins \in [Logins -> Sessions] /\ asked \in [Logins -> Sessions]
  BY DEF GrantInv, OAuthTypeOK
<1>1. ASSUME NEW c \in Clients, Register(c) PROVE SessionInv'
  <2>1. \A d \in Clients : clients[d] # {} => clients'[d] = clients[d]
    BY <1>0, <1>1 DEF Register
  <2>2. UNCHANGED <<logins, asked, codes, handler>>
    BY <1>1 DEF Register
  <2> QED
    BY <2>1, <2>2 DEF SessionInv
<1>2. ASSUME NEW l \in Logins, authorize(l) PROVE SessionInv'
  <2> DEFINE Opened(c, u, v) == [client |-> c, redirect |-> u,
                                 challenge |-> S256(v), provider |-> FALSE]
  <2>0. PICK c \in Clients, u \in Redirects, v \in Verifiers :
          /\ asked[l] = NoSession /\ u \in clients[c]
          /\ logins' = [logins EXCEPT ![l] = Opened(c, u, v)]
          /\ asked' = [asked EXCEPT ![l] = Opened(c, u, v)]
          /\ UNCHANGED <<expired, clients, codes, refreshes, tokens, handler>>
    BY <1>2 DEF authorize
  <2>1. PICK sess : sess = Opened(c, u, v)
    OBVIOUS
  <2>2. sess.client = c /\ sess.redirect = u
    BY <2>1
  <2>3. sess # NoSession
    BY SMT, <2>2, OAuthAssumption DEF NoSession
  <2>4. /\ \A x \in Logins : logins'[x] = IF x = l THEN sess ELSE logins[x]
        /\ \A x \in Logins : asked'[x] = IF x = l THEN sess ELSE asked[x]
    BY <1>0, <2>0, <2>1
  <2>5. \A x \in Logins : asked[x] # NoSession => asked'[x] = asked[x]
    BY <2>0, <2>4
  <2>6. \A x \in Logins : asked'[x] # NoSession =>
          /\ asked'[x].client \in Clients
          /\ asked'[x].redirect \in clients'[asked'[x].client]
    BY SMT, <2>0, <2>2, <2>4 DEF SessionInv
  <2>7. \A x \in Logins : logins'[x] # NoSession =>
          logins'[x] = logins[x] \/ AsAsked(asked', x, logins'[x])
    BY <2>3, <2>4 DEF AsAsked
  <2> QED
    BY <2>0, <2>5, <2>6, <2>7, SessionKept
<1>3. ASSUME NEW l \in Logins, ExpireLogin(l) PROVE SessionInv'
  BY <1>3 DEF ExpireLogin, SessionInv
<1> QED
  BY <1>1, <1>2, <1>3

\* A login session is read, taken and saved again, and leaves its code.
LEMMA SessionTravels ==
  ASSUME GrantInv, SessionInv, NEW h \in Handlers,
         \/ LoginGet(h) \/ LoginTake(h) \/ OIDCStartGet(h) \/ OIDCStartSave(h)
         \/ OIDCCallback(h) \/ completeAuthorize(h)
  PROVE  SessionInv'
<1>0. /\ logins \in [Logins -> Sessions] /\ asked \in [Logins -> Sessions]
      /\ handler \in [Handlers -> HandlerStates] /\ codes \in Seq(Codes)
  BY DEF GrantInv, OAuthTypeOK
<1>a. UNCHANGED <<clients, asked>>
  BY DEF LoginGet, LoginTake, OIDCStartGet, OIDCStartSave, OIDCCallback,
         completeAuthorize
<1>b. /\ \A l \in Logins : asked[l] # NoSession => asked'[l] = asked[l]
      /\ \A l \in Logins : asked'[l] # NoSession =>
           /\ asked'[l].client \in Clients
           /\ asked'[l].redirect \in clients'[asked'[l].client]
  BY <1>a, AskedSame
<1>c. \A l \in Logins : logins[l] # NoSession => AsAsked(asked', l, logins[l])
  BY <1>a DEF SessionInv
<1>d. LoggingIn(handler[h]) => AsAsked(asked', handler[h].login, handler[h].sess)
  BY <1>a DEF SessionInv
<1>e. ~LoggingIn(IdleHandler)
  BY DEF LoggingIn, IdleHandler
<1>1. CASE \/ LoginGet(h) \/ OIDCStartGet(h)
  <2>0. PICK l \in Logins : \E r :
          /\ logins[l] # NoSession /\ r.login = l /\ r.sess = logins[l]
          /\ handler' = [handler EXCEPT ![h] = r]
          /\ UNCHANGED <<logins, codes>>
    <3>1. ASSUME NEW l \in Logins, NEW s \in Subjects, Idle(h), Open(l),
                 handler' = [handler EXCEPT ![h] =
                   [IdleHandler EXCEPT !.at = "take", !.login = l, !.sess = logins[l],
                                       !.who = s]],
                 UNCHANGED <<logins, codes>>
          PROVE  \E k \in Logins : \E r :
                   /\ logins[k] # NoSession /\ r.login = k /\ r.sess = logins[k]
                   /\ handler' = [handler EXCEPT ![h] = r]
                   /\ UNCHANGED <<logins, codes>>
      BY <3>1 DEF Open, IdleHandler
    <3>2. ASSUME NEW l \in Logins, Idle(h), Open(l),
                 handler' = [handler EXCEPT ![h] =
                   [IdleHandler EXCEPT !.at = "start", !.login = l, !.sess = logins[l]]],
                 UNCHANGED <<logins, codes>>
          PROVE  \E k \in Logins : \E r :
                   /\ logins[k] # NoSession /\ r.login = k /\ r.sess = logins[k]
                   /\ handler' = [handler EXCEPT ![h] = r]
                   /\ UNCHANGED <<logins, codes>>
      BY <3>2 DEF Open, IdleHandler
    <3> QED
      BY <1>1, <3>1, <3>2 DEF LoginGet, OIDCStartGet
  <2>1. PICK r : /\ logins[l] # NoSession /\ r.login = l /\ r.sess = logins[l]
                 /\ handler' = [handler EXCEPT ![h] = r]
                 /\ UNCHANGED <<logins, codes>>
    BY <2>0
  <2>2. \A x \in Handlers : handler'[x] = IF x = h THEN r ELSE handler[x]
    BY <1>0, <2>1
  <2> QED
    BY SMT, <1>b, <1>c, <2>1, <2>2, SessionKept
<1>2. CASE LoginTake(h)
  <2>1. /\ handler[h].at = "take" /\ handler' = [handler EXCEPT ![h].at = "complete"]
        /\ logins' = [logins EXCEPT ![handler[h].login] = NoSession]
        /\ UNCHANGED codes
    BY <1>2 DEF LoginTake, At
  <2>2. \A l \in Logins : logins'[l] \in {logins[l], NoSession}
    BY <1>0, <2>1
  <2>3. /\ handler'[h].login = handler[h].login /\ handler'[h].sess = handler[h].sess
        /\ \A x \in Handlers \ {h} : handler'[x] = handler[x]
    <3>1. handler[h] \in HandlerStates
      BY <1>0
    <3>2. PICK r : r = [handler[h] EXCEPT !.at = "complete"]
      OBVIOUS
    <3>3. r.login = handler[h].login /\ r.sess = handler[h].sess
      BY <3>1, <3>2 DEF HandlerStates
    <3>4. handler' = [handler EXCEPT ![h] = r]
      BY <2>1, <3>2
    <3> QED
      BY <1>0, <3>3, <3>4
  <2>4. LoggingIn(handler[h])
    BY <2>1 DEF LoggingIn
  <2> QED
    BY <1>b, <2>1, <2>2, <2>3, <2>4, SessionKept
<1>3. CASE OIDCStartSave(h)
  <2>1. PICK sess : sess = [handler[h].sess EXCEPT !.provider = TRUE]
    OBVIOUS
  <2>2. /\ handler[h].at = "start" /\ handler' = [handler EXCEPT ![h] = IdleHandler]
        /\ logins' = [logins EXCEPT ![handler[h].login] = sess]
        /\ UNCHANGED codes
    BY <1>3, <2>1 DEF OIDCStartSave, At, Done
  <2>3. handler[h].sess \in Sessions
    BY <1>0 DEF HandlerStates
  <2>4. /\ sess.client = handler[h].sess.client
        /\ sess.redirect = handler[h].sess.redirect
        /\ sess.challenge = handler[h].sess.challenge
    BY <2>1, <2>3 DEF Sessions
  <2>5. AsAsked(asked', handler[h].login, sess)
    BY <1>d, <2>2, <2>4 DEF AsAsked, LoggingIn
  <2>6. \A l \in Logins : logins'[l] = IF l = handler[h].login THEN sess ELSE logins[l]
    BY <1>0, <2>2
  <2>7. \A x \in Handlers : handler'[x] = IF x = h THEN IdleHandler ELSE handler[x]
    BY <1>0, <2>2
  <2> QED
    BY SMT, <1>b, <1>e, <2>2, <2>5, <2>6, <2>7, SessionKept
<1>4. CASE OIDCCallback(h)
  <2>1. PICK l \in Logins :
          /\ logins[l] # NoSession
          /\ logins' = [logins EXCEPT ![l] = NoSession]
          /\ \/ \E s \in Subjects :
                  handler' = [handler EXCEPT ![h] =
                    [IdleHandler EXCEPT !.at = "complete", !.login = l,
                                        !.sess = logins[l], !.who = s]]
             \/ UNCHANGED handler
          /\ UNCHANGED codes
    BY <1>4 DEF OIDCCallback, Open
  <2>2. \A x \in Logins : logins'[x] \in {logins[x], NoSession}
    BY <1>0, <2>1
  <2>3. \A x \in Handlers :
          \/ handler'[x] = handler[x]
          \/ handler'[x].login = l /\ handler'[x].sess = logins[l]
    <3>1. ASSUME NEW s \in Subjects,
                 handler' = [handler EXCEPT ![h] =
                    [IdleHandler EXCEPT !.at = "complete", !.login = l,
                                        !.sess = logins[l], !.who = s]]
          PROVE  \A x \in Handlers :
                   \/ handler'[x] = handler[x]
                   \/ handler'[x].login = l /\ handler'[x].sess = logins[l]
      <4>1. PICK r : r = [IdleHandler EXCEPT !.at = "complete", !.login = l,
                                             !.sess = logins[l], !.who = s]
        OBVIOUS
      <4>2. r.login = l /\ r.sess = logins[l]
        BY <4>1 DEF IdleHandler
      <4>3. handler' = [handler EXCEPT ![h] = r]
        BY <3>1, <4>1
      <4> QED
        BY <1>0, <4>2, <4>3
    <3> QED
      BY <2>1, <3>1
  <2> QED
    BY <1>b, <1>c, <2>1, <2>2, <2>3, SessionKept
<1>5. CASE completeAuthorize(h)
  <2>1. PICK c : c = [login |-> handler[h].login, client |-> handler[h].sess.client,
                      redirect |-> handler[h].sess.redirect,
                      challenge |-> handler[h].sess.challenge,
                      subject |-> handler[h].who, used |-> FALSE]
    OBVIOUS
  <2>2. /\ c.login = handler[h].login /\ c.client = handler[h].sess.client
        /\ c.redirect = handler[h].sess.redirect
        /\ c.challenge = handler[h].sess.challenge
    BY <2>1
  <2>3. /\ handler[h].at = "complete" /\ codes' = Append(codes, c)
        /\ handler' = [handler EXCEPT ![h] = IdleHandler] /\ UNCHANGED logins
    BY <1>5, <2>1 DEF completeAuthorize, At, Done
  <2>4. AsAsked(asked', c.login, c)
    BY <1>d, <2>2, <2>3 DEF AsAsked, LoggingIn
  <2>5. /\ Len(codes) \in Nat /\ Len(codes') = Len(codes) + 1
        /\ codes'[Len(codes) + 1] = c
        /\ \A i \in 1 .. Len(codes) : codes'[i] = codes[i]
    <3>1. \A i \in 1 .. Len(codes) : Append(codes, c)[i] = codes[i]
      BY SMT, <1>0
    <3>2. /\ Len(codes) \in Nat /\ Len(Append(codes, c)) = Len(codes) + 1
          /\ Append(codes, c)[Len(codes) + 1] = c
      BY SMT, <1>0
    <3> QED
      BY <2>3, <3>1, <3>2
  <2>6. \A i \in 1 .. Len(codes') :
          (i \in 1 .. Len(codes) /\ codes'[i] = codes[i]) \/ codes'[i] = c
    BY SMT, <2>5
  <2>7. \A x \in Handlers : handler'[x] = IF x = h THEN IdleHandler ELSE handler[x]
    BY <1>0, <2>3
  <2> QED
    BY <1>b, <1>e, <2>3, <2>4, <2>6, <2>7, SessionKept
<1> QED
  BY <1>1, <1>2, <1>3, <1>4, <1>5

\* The token endpoint and the failures leave the sessions and the codes'
\* origins alone.
LEMMA SessionRests ==
  ASSUME GrantInv, SessionInv, NEW h \in Handlers,
         \/ tokenAuthorizationCode(h) \/ ExpireCode
         \/ tokenRefresh(h) \/ ExpireRefresh \/ RevokeOld(h) \/ RevokeFails(h)
         \/ MintToken(h) \/ SaveRefresh(h) \/ HandlerFails(h)
  PROVE  SessionInv'
<1>0. handler \in [Handlers -> HandlerStates] /\ codes \in Seq(Codes)
  BY DEF GrantInv, OAuthTypeOK
<1>a. UNCHANGED <<clients, asked, logins>>
  BY DEF tokenAuthorizationCode, ConsumeCode, ExpireCode, tokenRefresh, ExpireRefresh,
         RevokeOld, RevokeFails, MintToken, SaveRefresh, HandlerFails
<1>b. /\ \A l \in Logins : asked[l] # NoSession => asked'[l] = asked[l]
      /\ \A l \in Logins : asked'[l] # NoSession =>
           /\ asked'[l].client \in Clients
           /\ asked'[l].redirect \in clients'[asked'[l].client]
  BY <1>a, AskedSame
<1>c. ASSUME NEW i \in DOMAIN codes, Consumed(i)
      PROVE  /\ Len(codes') = Len(codes)
             /\ \A n \in 1 .. Len(codes) :
                  /\ codes'[n].login = codes[n].login /\ codes'[n].client = codes[n].client
                  /\ codes'[n].redirect = codes[n].redirect
                  /\ codes'[n].challenge = codes[n].challenge
  <2>1. i \in 1 .. Len(codes) /\ codes[i] \in Codes
    BY <1>0, LenProperties, ElementOfSeq
  <2>2. PICK c : c = [codes[i] EXCEPT !.used = TRUE]
    OBVIOUS
  <2>3. /\ c \in Codes /\ c.login = codes[i].login /\ c.client = codes[i].client
        /\ c.redirect = codes[i].redirect /\ c.challenge = codes[i].challenge
    BY <2>1, <2>2 DEF Codes
  <2>4. codes' = [codes EXCEPT ![i] = c]
    BY <1>c, <2>2 DEF Consumed
  <2>5. /\ Len(codes') = Len(codes) /\ codes'[i] = c
        /\ \A k \in 1 .. Len(codes) : k # i => codes'[k] = codes[k]
    BY SMT, <1>0, <2>1, <2>3, <2>4, FlagSet
  <2> QED
    BY <2>3, <2>5
<1>1. \A n \in 1 .. Len(codes') :
        /\ n \in 1 .. Len(codes)
        /\ codes'[n].login = codes[n].login /\ codes'[n].client = codes[n].client
        /\ codes'[n].redirect = codes[n].redirect
        /\ codes'[n].challenge = codes[n].challenge
  <2>1. CASE tokenAuthorizationCode(h) \/ ExpireCode
    <3>1. PICK i \in DOMAIN codes : Consumed(i)
      BY <2>1 DEF tokenAuthorizationCode, ConsumeCode, ExpireCode
    <3> QED
      BY <1>c, <3>1
  <2>2. CASE UNCHANGED codes
    BY <2>2
  <2> QED
    BY <2>1, <2>2 DEF tokenRefresh, ExpireRefresh, RevokeOld, RevokeFails, MintToken,
                      SaveRefresh, HandlerFails
<1>2. \A x \in Handlers : LoggingIn(handler'[x]) => handler'[x] = handler[x]
  <2>1. ASSUME NEW r, ~LoggingIn(r), handler' = [handler EXCEPT ![h] = r]
        PROVE  \A x \in Handlers : LoggingIn(handler'[x]) => handler'[x] = handler[x]
    BY <1>0, <2>1
  <2>2. ASSUME NEW p \in Places \ {"take", "start", "complete"}, NEW g,
               \/ handler' = [handler EXCEPT ![h].at = p]
               \/ handler' = [handler EXCEPT ![h].at = p, ![h].grant = g]
        PROVE  \A x \in Handlers : LoggingIn(handler'[x]) => handler'[x] = handler[x]
    <3>1. PICK r : \/ r = [handler[h] EXCEPT !.at = p]
                   \/ r = [handler[h] EXCEPT !.at = p, !.grant = g]
      OBVIOUS
    <3>a. handler[h] \in HandlerStates
      BY <1>0
    <3>2. \A q : q = [handler[h] EXCEPT !.at = p] => ~LoggingIn(q)
      BY <2>2, <3>a DEF LoggingIn, HandlerStates
    <3>3. \A q : q = [handler[h] EXCEPT !.at = p, !.grant = g] => ~LoggingIn(q)
      BY <2>2, <3>a DEF LoggingIn, HandlerStates
    <3>4. CASE handler' = [handler EXCEPT ![h].at = p]
      BY <2>1, <3>2, <3>4
    <3>5. CASE handler' = [handler EXCEPT ![h].at = p, ![h].grant = g]
      <4>1. handler' = [handler EXCEPT ![h] = [handler[h] EXCEPT !.at = p, !.grant = g]]
        BY <1>0, <3>5
      <4> QED
        BY <2>1, <3>3, <4>1
    <3> QED
      BY <2>2, <3>4, <3>5
  <2>3. CASE UNCHANGED handler
    BY <2>3
  <2>4. CASE SaveRefresh(h) \/ HandlerFails(h)
    <3>1. handler' = [handler EXCEPT ![h] = IdleHandler] /\ ~LoggingIn(IdleHandler)
      BY <2>4 DEF SaveRefresh, HandlerFails, Done, LoggingIn, IdleHandler
    <3> QED
      BY <2>1, <3>1
  <2>5. CASE RevokeOld(h) \/ RevokeFails(h)
    <3>1. handler' = [handler EXCEPT ![h].at = "mint"]
      BY <2>5 DEF RevokeOld, RevokeFails
    <3> QED
      BY <2>2, <3>1 DEF Places
  <2>6. CASE MintToken(h)
    <3>1. handler' = [handler EXCEPT ![h].at = "save",
                                     ![h].grant = <<"token", Len(tokens) + 1>>]
      BY <2>6 DEF MintToken
    <3> QED
      BY <2>2, <3>1 DEF Places
  <2>7. CASE tokenAuthorizationCode(h)
    <3>1. ASSUME NEW i \in DOMAIN codes, NEW client \in Clients,
                 handler' = [handler EXCEPT ![h] =
                    [IdleHandler EXCEPT !.at = "mint", !.who = codes[i].subject,
                                        !.client = client, !.grant = <<"code", i>>]]
          PROVE  \A x \in Handlers : LoggingIn(handler'[x]) => handler'[x] = handler[x]
      <4>1. PICK r : r = [IdleHandler EXCEPT !.at = "mint", !.who = codes[i].subject,
                                             !.client = client, !.grant = <<"code", i>>]
        OBVIOUS
      <4>2. ~LoggingIn(r)
        BY <4>1 DEF LoggingIn, IdleHandler
      <4>3. handler' = [handler EXCEPT ![h] = r]
        BY <3>1, <4>1
      <4> QED
        BY <2>1, <4>2, <4>3
    <3> QED
      BY <2>3, <2>7, <3>1 DEF tokenAuthorizationCode, ConsumeCode
  <2>8. CASE tokenRefresh(h)
    <3>1. ASSUME NEW j \in DOMAIN refreshes,
                 handler' = [handler EXCEPT ![h] =
                    [IdleHandler EXCEPT !.at = "revoke", !.who = refreshes[j].subject,
                                        !.client = refreshes[j].client,
                                        !.grant = <<"refresh", j>>]]
          PROVE  \A x \in Handlers : LoggingIn(handler'[x]) => handler'[x] = handler[x]
      <4>1. PICK r : r = [IdleHandler EXCEPT !.at = "revoke", !.who = refreshes[j].subject,
                                             !.client = refreshes[j].client,
                                             !.grant = <<"refresh", j>>]
        OBVIOUS
      <4>2. ~LoggingIn(r)
        BY <4>1 DEF LoggingIn, IdleHandler
      <4>3. handler' = [handler EXCEPT ![h] = r]
        BY <3>1, <4>1
      <4> QED
        BY <2>1, <4>2, <4>3
    <3> QED
      BY <2>3, <2>8, <3>1 DEF tokenRefresh
  <2> QED
    BY <2>3, <2>4, <2>5, <2>6, <2>7, <2>8 DEF ExpireCode, ExpireRefresh
<1> QED
  BY <1>a, <1>b, <1>1, <1>2, SessionKept

\* Every step keeps the sessions, their copies and the codes in agreement.
LEMMA SessionStep == GrantInv /\ SessionInv /\ [OAuthNext]_oauthVars => SessionInv'
<1> SUFFICES ASSUME GrantInv, SessionInv, [OAuthNext]_oauthVars PROVE SessionInv'
  OBVIOUS
<1>1. CASE UNCHANGED oauthVars
  BY <1>1 DEF oauthVars, SessionInv
<1>2. PICK any \in Handlers : TRUE
  BY OAuthAssumption
<1>3. CASE ExpireCode \/ ExpireRefresh
  BY <1>2, <1>3, SessionRests
<1> QED
  BY <1>1, <1>3, SessionOpens, SessionTravels, SessionRests DEF OAuthNext

\* A code is issued for the client, the redirect URI and the challenge that
\* authorize accepted, and to a URI that client registered, whatever requests
\* read, take and save the login session at once (server.go:198, 343, 441).
THEOREM CodesAsAskedHolds == OAuthSpec => []CodesAsAsked
<1>1. OAuthInit => SessionInv
  <2> SUFFICES ASSUME OAuthInit PROVE SessionInv
    OBVIOUS
  <2>1. /\ \A l \in Logins : asked[l] = NoSession /\ logins[l] = NoSession
        /\ \A h \in Handlers : ~LoggingIn(handler[h])
        /\ Len(codes) = 0
    BY EmptySeq DEF OAuthInit, IdleHandler, LoggingIn
  <2> QED
    BY SMT, <2>1 DEF SessionInv
<1>2. GrantInv /\ SessionInv => CodesAsAsked
  <2> SUFFICES ASSUME GrantInv, SessionInv PROVE CodesAsAsked
    OBVIOUS
  <2>1. DOMAIN codes = 1 .. Len(codes)
    BY LenProperties DEF GrantInv, OAuthTypeOK
  <2> QED
    BY SMT, <2>1 DEF SessionInv, AsAsked, CodesAsAsked
<1> QED
  BY OAuthInitInv, OAuthStep, SessionStep, <1>1, <1>2, PTL DEF OAuthSpec

-----------------------------------------------------------------------------
\* A handler in an exchange, and a refresh token, name rows that are there.
LEMMA HeldForm ==
  ASSUME GrantInv, NEW x \in Handlers, Holding(handler[x])
  PROVE  \/ /\ handler[x].at = "save"
            /\ \E k \in 1 .. Len(tokens) : handler[x].grant = <<"token", k>>
         \/ /\ handler[x].at = "mint"
            /\ \E i \in 1 .. Len(codes) : codes[i].used /\ handler[x].grant = <<"code", i>>
         \/ /\ handler[x].at \in {"mint", "revoke"}
            /\ \E j \in 1 .. Len(refreshes) :
                 /\ refreshes[j].used /\ handler[x].grant = <<"refresh", j>>
                 /\ refreshes[j].access \in 1 .. Len(tokens)
<1>0. GrantsApart /\ AccessKnown
  BY DEF GrantInv
<1>1. CASE handler[x].at = "save"
  BY <1>0, <1>1 DEF AccessKnown
<1>2. CASE handler[x].at = "mint"
  <2>1. Spent(codes, refreshes, handler[x].grant)
    BY <1>0, <1>2 DEF GrantsApart, Exchanging
  <2> QED
    BY <1>0, <1>2, <2>1 DEF AccessKnown, Spent
<1>3. CASE handler[x].at = "revoke"
  <2>1. PICK j \in 1 .. Len(refreshes) : handler[x].grant = <<"refresh", j>>
    BY <1>0, <1>3 DEF AccessKnown
  <2>2. Spent(codes, refreshes, handler[x].grant)
    BY <1>0, <1>3 DEF GrantsApart, Exchanging
  <2>3. refreshes[j].used
    BY SMT, <2>1, <2>2 DEF Spent
  <2> QED
    BY <1>0, <1>3, <2>1, <2>3 DEF AccessKnown
<1> QED
  BY <1>1, <1>2, <1>3 DEF Holding

\* The line a handler belongs to is that of a used code.
LEMMA HeldKnown ==
  ASSUME GrantInv, LineInv
  PROVE  /\ \A x \in Handlers : Holding(handler[x]) =>
              /\ HeldRoot(handler[x], refreshes, tokens) \in 1 .. Len(codes)
              /\ codes[HeldRoot(handler[x], refreshes, tokens)].used
         /\ \A j \in 1 .. Len(refreshes) :
              /\ SavedRoot(refreshes, tokens, j) \in 1 .. Len(codes)
              /\ codes[SavedRoot(refreshes, tokens, j)].used
              /\ refreshes[j].access \in 1 .. Len(tokens)
<1>0. RootsUsed /\ AccessKnown
  BY DEF GrantInv, LineInv
<1>1. ASSUME NEW x \in Handlers, Holding(handler[x])
      PROVE  /\ HeldRoot(handler[x], refreshes, tokens) \in 1 .. Len(codes)
             /\ codes[HeldRoot(handler[x], refreshes, tokens)].used
  <2>1. CASE /\ handler[x].at = "save"
             /\ \E k \in 1 .. Len(tokens) : handler[x].grant = <<"token", k>>
    <3>1. PICK k \in 1 .. Len(tokens) : handler[x].grant = <<"token", k>>
      BY <2>1
    <3>2. HeldRoot(handler[x], refreshes, tokens) = tokens[k].root
      BY SMT, <2>1, <3>1 DEF HeldRoot
    <3> QED
      BY <1>0, <3>2 DEF RootsUsed
  <2>2. CASE /\ handler[x].at = "mint"
             /\ \E i \in 1 .. Len(codes) : codes[i].used /\ handler[x].grant = <<"code", i>>
    BY SMT, <2>2 DEF HeldRoot
  <2>3. CASE /\ handler[x].at \in {"mint", "revoke"}
             /\ \E j \in 1 .. Len(refreshes) :
                  /\ refreshes[j].used /\ handler[x].grant = <<"refresh", j>>
                  /\ refreshes[j].access \in 1 .. Len(tokens)
    <3>1. PICK j \in 1 .. Len(refreshes) : /\ handler[x].grant = <<"refresh", j>>
                                           /\ refreshes[j].access \in 1 .. Len(tokens)
      BY <2>3
    <3>2. HeldRoot(handler[x], refreshes, tokens) = tokens[refreshes[j].access].root
      BY SMT, <2>3, <3>1 DEF HeldRoot
    <3> QED
      BY <1>0, <3>1, <3>2 DEF RootsUsed
  <2> QED
    BY <1>1, <2>1, <2>2, <2>3, HeldForm
<1>2. \A j \in 1 .. Len(refreshes) :
              /\ SavedRoot(refreshes, tokens, j) \in 1 .. Len(codes)
              /\ codes[SavedRoot(refreshes, tokens, j)].used
              /\ refreshes[j].access \in 1 .. Len(tokens)
  BY <1>0 DEF RootsUsed, AccessKnown, SavedRoot
<1> QED
  BY <1>1, <1>2

\* Rows are added, and keep the token they name and the code they descend from:
\* the line a handler or a refresh token belongs to stays.
LEMMA HeldSame ==
  ASSUME GrantInv, NEW rs, NEW ts,
         \A j \in 1 .. Len(refreshes) : rs[j].access = refreshes[j].access,
         \A k \in 1 .. Len(tokens) : ts[k].root = tokens[k].root
  PROVE  /\ \A x \in Handlers : Holding(handler[x]) =>
              /\ HeldRoot(handler[x], rs, ts) = HeldRoot(handler[x], refreshes, tokens)
              /\ HeldToken(handler[x], rs) = HeldToken(handler[x], refreshes)
         /\ \A j \in 1 .. Len(refreshes) :
              SavedRoot(rs, ts, j) = SavedRoot(refreshes, tokens, j)
<1>1. ASSUME NEW x \in Handlers, Holding(handler[x])
      PROVE  /\ HeldRoot(handler[x], rs, ts) = HeldRoot(handler[x], refreshes, tokens)
             /\ HeldToken(handler[x], rs) = HeldToken(handler[x], refreshes)
  <2>1. CASE /\ handler[x].at = "save"
             /\ \E k \in 1 .. Len(tokens) : handler[x].grant = <<"token", k>>
    BY SMT, <2>1 DEF HeldRoot, HeldToken
  <2>2. CASE /\ handler[x].at = "mint"
             /\ \E i \in 1 .. Len(codes) : codes[i].used /\ handler[x].grant = <<"code", i>>
    BY SMT, <2>2 DEF HeldRoot, HeldToken
  <2>3. CASE /\ handler[x].at \in {"mint", "revoke"}
             /\ \E j \in 1 .. Len(refreshes) :
                  /\ refreshes[j].used /\ handler[x].grant = <<"refresh", j>>
                  /\ refreshes[j].access \in 1 .. Len(tokens)
    BY SMT, <2>3 DEF HeldRoot, HeldToken
  <2> QED
    BY <1>1, <2>1, <2>2, <2>3, HeldForm
<1>2. \A j \in 1 .. Len(refreshes) :
        SavedRoot(rs, ts, j) = SavedRoot(refreshes, tokens, j)
  BY DEF SavedRoot, GrantInv, AccessKnown
<1> QED
  BY <1>1, <1>2

\* The one handler whose place changes is alone in the line it is in then.
Alone(h) == Holding(handler'[h]) =>
  LET root == HeldRoot(handler'[h], refreshes', tokens')
  IN  /\ \A x \in Handlers \ {h} : Holding(handler[x]) =>
           HeldRoot(handler[x], refreshes, tokens) # root
      /\ \A j \in 1 .. Len(refreshes) : ~refreshes'[j].used =>
           SavedRoot(refreshes, tokens, j) # root
      /\ \A k \in 1 .. Len(tokens) :
           Counts(tokens'[k]) /\ tokens[k].root = root
           => HeldToken(handler'[h], refreshes') = k

\* The step adds no token and no refresh token, and takes no use back.
KeepsLines ==
  /\ Len(tokens') = Len(tokens) /\ Len(refreshes') = Len(refreshes)
  /\ \A k \in 1 .. Len(tokens) : /\ tokens'[k].root = tokens[k].root
                                 /\ Counts(tokens'[k]) => Counts(tokens[k])
  /\ \A j \in 1 .. Len(refreshes) : /\ refreshes'[j].access = refreshes[j].access
                                    /\ ~refreshes'[j].used => ~refreshes[j].used
  /\ \A i \in 1 .. Len(codes) : /\ i \in 1 .. Len(codes')
                                /\ codes[i].used => codes'[i].used

\* A step of one handler that adds no row to the lines.
LEMMA LineMove ==
  ASSUME GrantInv, LineInv, NEW h \in Handlers, KeepsLines, Alone(h),
         \A x \in Handlers \ {h} : Holding(handler'[x]) => handler'[x] = handler[x]
  PROVE  LineInv'
<1>0. LineApart /\ RootsUsed /\ LineLive
  BY DEF LineInv
<1>1. /\ \A x \in Handlers : Holding(handler[x]) =>
           /\ HeldRoot(handler[x], refreshes', tokens') =
                HeldRoot(handler[x], refreshes, tokens)
           /\ HeldToken(handler[x], refreshes') = HeldToken(handler[x], refreshes)
      /\ \A j \in 1 .. Len(refreshes) :
           SavedRoot(refreshes', tokens', j) = SavedRoot(refreshes, tokens, j)
  BY HeldSame DEF KeepsLines
<1>2. \A x \in Handlers \ {h} : Holding(handler'[x]) =>
        /\ Holding(handler[x])
        /\ HeldRoot(handler'[x], refreshes', tokens') =
             HeldRoot(handler[x], refreshes, tokens)
        /\ HeldToken(handler'[x], refreshes') = HeldToken(handler[x], refreshes)
  BY <1>1
<1>3. LineApart'
  <2>1. \A g, x \in Handlers :
          /\ Holding(handler'[g]) /\ Holding(handler'[x])
          /\ HeldRoot(handler'[g], refreshes', tokens') =
               HeldRoot(handler'[x], refreshes', tokens')
          => g = x
    BY <1>0, <1>2 DEF LineApart, Alone
  <2>2. \A x \in Handlers, j \in 1 .. Len(refreshes') :
          Holding(handler'[x]) /\ ~refreshes'[j].used
          => HeldRoot(handler'[x], refreshes', tokens') # SavedRoot(refreshes', tokens', j)
    BY SMT, <1>0, <1>1, <1>2 DEF LineApart, Alone, KeepsLines
  <2>3. \A i, j \in 1 .. Len(refreshes') :
          /\ ~refreshes'[i].used /\ ~refreshes'[j].used
          /\ SavedRoot(refreshes', tokens', i) = SavedRoot(refreshes', tokens', j)
          => i = j
    BY <1>0, <1>1 DEF LineApart, KeepsLines
  <2> QED
    BY <2>1, <2>2, <2>3 DEF LineApart
<1>4. RootsUsed'
  BY <1>0 DEF RootsUsed, KeepsLines
<1>5. LineLive'
  <2>1. ASSUME NEW k \in 1 .. Len(tokens'), Counts(tokens'[k])
        PROVE  /\ \A x \in Handlers :
                    /\ Holding(handler'[x])
                    /\ HeldRoot(handler'[x], refreshes', tokens') = tokens'[k].root
                    => HeldToken(handler'[x], refreshes') = k
               /\ \A j \in 1 .. Len(refreshes') :
                    /\ ~refreshes'[j].used
                    /\ SavedRoot(refreshes', tokens', j) = tokens'[k].root
                    => refreshes'[j].access = k
    <3>1. k \in 1 .. Len(tokens) /\ Counts(tokens[k]) /\ tokens'[k].root = tokens[k].root
      BY <2>1 DEF KeepsLines
    <3>2. \A x \in Handlers :
            /\ Holding(handler'[x])
            /\ HeldRoot(handler'[x], refreshes', tokens') = tokens'[k].root
            => HeldToken(handler'[x], refreshes') = k
      BY SMT, <1>0, <1>2, <2>1, <3>1 DEF LineLive, Alone
    <3>3. \A j \in 1 .. Len(refreshes') :
            ~refreshes'[j].used /\ SavedRoot(refreshes', tokens', j) = tokens'[k].root
            => refreshes'[j].access = k
      BY SMT, <1>0, <1>1, <3>1 DEF LineLive, KeepsLines
    <3> QED
      BY <3>2, <3>3
  <2>2. \A i, k \in 1 .. Len(tokens') :
          Counts(tokens'[i]) /\ Counts(tokens'[k]) /\ tokens'[i].root = tokens'[k].root
          => i = k
    BY <1>0 DEF LineLive, KeepsLines
  <2> QED
    BY <2>1, <2>2 DEF LineLive
<1> QED
  BY <1>3, <1>4, <1>5 DEF LineInv

\* Nobody starts or goes on with an exchange.
LEMMA LineQuiet ==
  ASSUME GrantInv, LineInv, KeepsLines,
         \A x \in Handlers : Holding(handler'[x]) => handler'[x] = handler[x]
  PROVE  LineInv'
<1>1. PICK h \in Handlers : TRUE
  BY OAuthAssumption
<1>2. /\ \A x \in Handlers : Holding(handler[x]) =>
           /\ HeldRoot(handler[x], refreshes', tokens') =
                HeldRoot(handler[x], refreshes, tokens)
           /\ HeldToken(handler[x], refreshes') = HeldToken(handler[x], refreshes)
      /\ \A j \in 1 .. Len(refreshes) :
           SavedRoot(refreshes', tokens', j) = SavedRoot(refreshes, tokens, j)
  BY HeldSame DEF KeepsLines
<1>3. Alone(h)
  <2> SUFFICES ASSUME Holding(handler'[h]) PROVE Alone(h)
    BY DEF Alone
  <2>1. /\ handler'[h] = handler[h] /\ Holding(handler[h])
        /\ HeldRoot(handler'[h], refreshes', tokens') =
             HeldRoot(handler[h], refreshes, tokens)
        /\ HeldToken(handler'[h], refreshes') = HeldToken(handler[h], refreshes)
    BY <1>2
  <2>2. /\ \A x \in Handlers \ {h} : Holding(handler[x]) =>
             HeldRoot(handler[x], refreshes, tokens) # HeldRoot(handler[h], refreshes, tokens)
        /\ \A j \in 1 .. Len(refreshes) : ~refreshes'[j].used =>
             SavedRoot(refreshes, tokens, j) # HeldRoot(handler[h], refreshes, tokens)
    BY <2>1 DEF LineInv, LineApart, KeepsLines
  <2>3. \A k \in 1 .. Len(tokens) :
          /\ Counts(tokens'[k])
          /\ tokens[k].root = HeldRoot(handler[h], refreshes, tokens)
          => HeldToken(handler[h], refreshes) = k
    BY <2>1 DEF LineInv, LineLive, KeepsLines
  <2> QED
    BY <2>1, <2>2, <2>3 DEF Alone
<1> QED
  BY <1>1, <1>3, LineMove

\* Sessions, codes that are saved, and requests that end.
LEMMA LineRests ==
  ASSUME GrantInv, LineInv, UNCHANGED <<refreshes, tokens>>,
         \/ UNCHANGED codes
         \/ \E c : codes' = Append(codes, c)
         \/ \E i \in DOMAIN codes : Consumed(i),
         \A x \in Handlers : Holding(handler'[x]) => handler'[x] = handler[x]
  PROVE  LineInv'
<1>0. codes \in Seq(Codes)
  BY DEF GrantInv, OAuthTypeOK
<1>1. \A i \in 1 .. Len(codes) : i \in 1 .. Len(codes') /\ (codes[i].used => codes'[i].used)
  <2>1. ASSUME NEW c, codes' = Append(codes, c)
        PROVE  \A i \in 1 .. Len(codes) : i \in 1 .. Len(codes') /\ codes'[i] = codes[i]
    <3>1. /\ Len(Append(codes, c)) = Len(codes) + 1 /\ Len(codes) \in Nat
          /\ \A i \in 1 .. Len(codes) : Append(codes, c)[i] = codes[i]
      BY SMT, <1>0
    <3> QED
      BY SMT, <2>1, <3>1
  <2>2. ASSUME NEW i \in DOMAIN codes, Consumed(i)
        PROVE  \A n \in 1 .. Len(codes) :
                 n \in 1 .. Len(codes') /\ (codes[n].used => codes'[n].used)
    <3>1. i \in 1 .. Len(codes) /\ codes[i] \in Codes
      BY <1>0, LenProperties, ElementOfSeq
    <3>2. PICK c : c = [codes[i] EXCEPT !.used = TRUE]
      OBVIOUS
    <3>3. c \in Codes /\ c.used
      BY <3>1, <3>2 DEF Codes
    <3>4. codes' = [codes EXCEPT ![i] = c]
      BY <2>2, <3>2 DEF Consumed
    <3>5. /\ Len(codes') = Len(codes) /\ codes'[i] = c
          /\ \A k \in 1 .. Len(codes) : k # i => codes'[k] = codes[k]
      BY SMT, <1>0, <3>1, <3>3, <3>4, FlagSet
    <3> QED
      BY <3>3, <3>5
  <2> QED
    BY <2>1, <2>2
<1>2. KeepsLines
  BY <1>1 DEF KeepsLines
<1> QED
  BY <1>2, LineQuiet

\* Everything up to the code, a code whose time is over, and failures.
LEMMA LineLogin ==
  ASSUME GrantInv, LineInv, NEW h \in Handlers,
         \/ \E c \in Clients : Register(c)
         \/ \E l \in Logins : authorize(l) \/ ExpireLogin(l)
         \/ LoginGet(h) \/ LoginTake(h) \/ OIDCStartGet(h) \/ OIDCStartSave(h)
         \/ OIDCCallback(h) \/ completeAuthorize(h) \/ ExpireCode \/ HandlerFails(h)
  PROVE  LineInv'
<1>0. handler \in [Handlers -> HandlerStates]
  BY DEF GrantInv, OAuthTypeOK
<1>a. ~Holding(IdleHandler)
  BY DEF Holding, IdleHandler
<1>b. ASSUME NEW r, ~Holding(r), handler' = [handler EXCEPT ![h] = r]
      PROVE  \A x \in Handlers : Holding(handler'[x]) => handler'[x] = handler[x]
  BY <1>0, <1>b
<1>1. CASE \/ \E c \in Clients : Register(c)
           \/ \E l \in Logins : authorize(l) \/ ExpireLogin(l)
  <2>1. UNCHANGED <<codes, refreshes, tokens, handler>>
    BY <1>1 DEF Register, authorize, ExpireLogin
  <2> QED
    BY <2>1, LineRests
<1>2. CASE ExpireCode
  <2>1. /\ \E i \in DOMAIN codes : Consumed(i)
        /\ UNCHANGED <<refreshes, tokens, handler>>
    BY <1>2 DEF ExpireCode
  <2> QED
    BY <2>1, LineRests
<1>3. CASE LoginGet(h)
  <2>1. PICK l \in Logins, s \in Subjects :
          handler' = [handler EXCEPT ![h] =
            [IdleHandler EXCEPT !.at = "take", !.login = l, !.sess = logins[l], !.who = s]]
    BY <1>3 DEF LoginGet
  <2>2. PICK r : r = [IdleHandler EXCEPT !.at = "take", !.login = l, !.sess = logins[l],
                                         !.who = s]
    OBVIOUS
  <2>3. ~Holding(r) /\ handler' = [handler EXCEPT ![h] = r]
    BY <2>1, <2>2 DEF Holding, IdleHandler
  <2>4. UNCHANGED <<codes, refreshes, tokens>>
    BY <1>3 DEF LoginGet
  <2> QED
    BY <1>b, <2>3, <2>4, LineRests
<1>4. CASE LoginTake(h)
  <2>1. /\ handler' = [handler EXCEPT ![h].at = "complete"]
        /\ UNCHANGED <<codes, refreshes, tokens>>
    BY <1>4 DEF LoginTake
  <2>2. handler[h] \in HandlerStates
    BY <1>0
  <2>3. PICK r : r = [handler[h] EXCEPT !.at = "complete"]
    OBVIOUS
  <2>4. ~Holding(r) /\ handler' = [handler EXCEPT ![h] = r]
    BY <2>1, <2>2, <2>3 DEF Holding, HandlerStates
  <2> QED
    BY <1>b, <2>1, <2>4, LineRests
<1>5. CASE OIDCStartGet(h)
  <2>1. PICK l \in Logins :
          handler' = [handler EXCEPT ![h] =
            [IdleHandler EXCEPT !.at = "start", !.login = l, !.sess = logins[l]]]
    BY <1>5 DEF OIDCStartGet
  <2>2. PICK r : r = [IdleHandler EXCEPT !.at = "start", !.login = l, !.sess = logins[l]]
    OBVIOUS
  <2>3. ~Holding(r) /\ handler' = [handler EXCEPT ![h] = r]
    BY <2>1, <2>2 DEF Holding, IdleHandler
  <2>4. UNCHANGED <<codes, refreshes, tokens>>
    BY <1>5 DEF OIDCStartGet
  <2> QED
    BY <1>b, <2>3, <2>4, LineRests
<1>6. CASE OIDCStartSave(h) \/ HandlerFails(h)
  <2>1. /\ handler' = [handler EXCEPT ![h] = IdleHandler]
        /\ UNCHANGED <<codes, refreshes, tokens>>
    BY <1>6 DEF OIDCStartSave, HandlerFails, Done
  <2> QED
    BY <1>a, <1>b, <2>1, LineRests
<1>7. CASE OIDCCallback(h)
  <2>1. PICK l \in Logins :
          /\ \/ \E s \in Subjects :
                  handler' = [handler EXCEPT ![h] =
                    [IdleHandler EXCEPT !.at = "complete", !.login = l,
                                        !.sess = logins[l], !.who = s]]
             \/ UNCHANGED handler
          /\ UNCHANGED <<codes, refreshes, tokens>>
    BY <1>7 DEF OIDCCallback
  <2>2. CASE UNCHANGED handler
    BY <2>1, <2>2, LineRests
  <2>3. ASSUME NEW s \in Subjects,
               handler' = [handler EXCEPT ![h] =
                    [IdleHandler EXCEPT !.at = "complete", !.login = l,
                                        !.sess = logins[l], !.who = s]]
        PROVE  LineInv'
    <3>1. PICK r : r = [IdleHandler EXCEPT !.at = "complete", !.login = l,
                                           !.sess = logins[l], !.who = s]
      OBVIOUS
    <3>2. ~Holding(r) /\ handler' = [handler EXCEPT ![h] = r]
      BY <2>3, <3>1 DEF Holding, IdleHandler
    <3> QED
      BY <1>b, <2>1, <3>2, LineRests
  <2> QED
    BY <2>1, <2>2, <2>3
<1>8. CASE completeAuthorize(h)
  <2>1. /\ handler' = [handler EXCEPT ![h] = IdleHandler]
        /\ \E c : codes' = Append(codes, c)
        /\ UNCHANGED <<refreshes, tokens>>
    BY <1>8 DEF completeAuthorize, Done
  <2> QED
    BY <1>a, <1>b, <2>1, LineRests
<1> QED
  BY <1>1, <1>2, <1>3, <1>4, <1>5, <1>6, <1>7, <1>8

\* A code that was not used is the start of a line with nothing in it yet.
LEMMA LineCode ==
  ASSUME GrantInv, LineInv, NEW h \in Handlers, tokenAuthorizationCode(h)
  PROVE  LineInv'
<1>0. /\ codes \in Seq(Codes) /\ handler \in [Handlers -> HandlerStates]
  BY DEF GrantInv, OAuthTypeOK
<1>1. PICK i \in DOMAIN codes, client \in Clients :
        /\ ~codes[i].used /\ Consumed(i)
        /\ \/ handler' = [handler EXCEPT ![h] =
                [IdleHandler EXCEPT !.at = "mint", !.who = codes[i].subject,
                                    !.client = client, !.grant = <<"code", i>>]]
           \/ UNCHANGED handler
        /\ UNCHANGED <<refreshes, tokens>>
  BY DEF tokenAuthorizationCode, ConsumeCode
<1>2. CASE UNCHANGED handler
  BY <1>1, <1>2, LineRests
<1>3. CASE handler' = [handler EXCEPT ![h] =
                [IdleHandler EXCEPT !.at = "mint", !.who = codes[i].subject,
                                    !.client = client, !.grant = <<"code", i>>]]
  <2>1. PICK r : r = [IdleHandler EXCEPT !.at = "mint", !.who = codes[i].subject,
                                         !.client = client, !.grant = <<"code", i>>]
    OBVIOUS
  <2>2. r.at = "mint" /\ r.grant = <<"code", i>>
    BY <2>1 DEF IdleHandler
  <2>3. handler'[h] = r /\ \A x \in Handlers \ {h} : handler'[x] = handler[x]
    BY <1>0, <1>3, <2>1
  <2>4. HeldRoot(handler'[h], refreshes', tokens') = i
    BY SMT, <2>2, <2>3 DEF HeldRoot
  <2>5. Alone(h)
    <3>1. \A x \in Handlers : Holding(handler[x]) =>
            HeldRoot(handler[x], refreshes, tokens) # i
      BY <1>1, HeldKnown
    <3>2. \A j \in 1 .. Len(refreshes) : SavedRoot(refreshes, tokens, j) # i
      BY <1>1, HeldKnown
    <3>3. \A k \in 1 .. Len(tokens) : tokens[k].root # i
      BY <1>1 DEF LineInv, RootsUsed
    <3> QED
      BY <2>4, <3>1, <3>2, <3>3 DEF Alone
  <2>6. KeepsLines
    <3>1. i \in 1 .. Len(codes) /\ codes[i] \in Codes
      BY <1>0, LenProperties, ElementOfSeq
    <3>2. PICK c : c = [codes[i] EXCEPT !.used = TRUE]
      OBVIOUS
    <3>3. c \in Codes /\ c.used
      BY <3>1, <3>2 DEF Codes
    <3>4. codes' = [codes EXCEPT ![i] = c]
      BY <1>1, <3>2 DEF Consumed
    <3>5. /\ Len(codes') = Len(codes) /\ codes'[i] = c
          /\ \A k \in 1 .. Len(codes) : k # i => codes'[k] = codes[k]
      BY SMT, <1>0, <3>1, <3>3, <3>4, FlagSet
    <3> QED
      BY <1>1, <3>3, <3>5 DEF KeepsLines
  <2> QED
    BY <2>3, <2>5, <2>6, LineMove
<1> QED
  BY <1>1, <1>2, <1>3

\* The handler that uses a refresh token takes its place in the line.
LEMMA LineRefresh ==
  ASSUME GrantInv, LineInv, NEW h \in Handlers, tokenRefresh(h) \/ ExpireRefresh
  PROVE  LineInv'
<1>0. /\ refreshes \in Seq(Refreshes) /\ handler \in [Handlers -> HandlerStates]
  BY DEF GrantInv, OAuthTypeOK
<1>1. PICK j \in DOMAIN refreshes :
        /\ ~refreshes[j].used
        /\ refreshes' = [refreshes EXCEPT ![j].used = TRUE]
        /\ \/ /\ Idle(h)
              /\ handler' = [handler EXCEPT ![h] =
                [IdleHandler EXCEPT !.at = "revoke", !.who = refreshes[j].subject,
                                    !.client = refreshes[j].client,
                                    !.grant = <<"refresh", j>>]]
           \/ UNCHANGED handler
        /\ UNCHANGED <<codes, tokens>>
  <2>1. CASE tokenRefresh(h)
    BY <2>1 DEF tokenRefresh
  <2>2. CASE ExpireRefresh
    BY <2>2 DEF ExpireRefresh
  <2> QED
    BY <2>1, <2>2
<1>2. /\ j \in 1 .. Len(refreshes) /\ Len(refreshes') = Len(refreshes)
      /\ \A n \in 1 .. Len(refreshes) : refreshes'[n].access = refreshes[n].access
      /\ \A n \in 1 .. Len(refreshes) : ~refreshes'[n].used => n # j /\ ~refreshes[n].used
  <2>1. j \in 1 .. Len(refreshes) /\ refreshes[j] \in Refreshes
    BY <1>0, LenProperties, ElementOfSeq
  <2>2. PICK r : r = [refreshes[j] EXCEPT !.used = TRUE]
    OBVIOUS
  <2>3. r \in Refreshes /\ r.used /\ r.access = refreshes[j].access
    BY <2>1, <2>2 DEF Refreshes
  <2>4. refreshes' = [refreshes EXCEPT ![j] = r]
    BY <1>1, <2>2
  <2>5. /\ Len(refreshes') = Len(refreshes) /\ refreshes'[j] = r
        /\ \A k \in 1 .. Len(refreshes) : k # j => refreshes'[k] = refreshes[k]
    BY SMT, <1>0, <2>1, <2>3, <2>4, FlagSet
  <2> QED
    BY <2>1, <2>3, <2>5
<1>3. KeepsLines
  BY <1>1, <1>2 DEF KeepsLines
<1>4. CASE UNCHANGED handler
  BY <1>3, <1>4, LineQuiet
<1>5. CASE handler' = [handler EXCEPT ![h] =
                [IdleHandler EXCEPT !.at = "revoke", !.who = refreshes[j].subject,
                                    !.client = refreshes[j].client,
                                    !.grant = <<"refresh", j>>]]
  <2>1. PICK r : r = [IdleHandler EXCEPT !.at = "revoke", !.who = refreshes[j].subject,
                                         !.client = refreshes[j].client,
                                         !.grant = <<"refresh", j>>]
    OBVIOUS
  <2>2. r.at = "revoke" /\ r.grant = <<"refresh", j>>
    BY <2>1 DEF IdleHandler
  <2>3. handler'[h] = r /\ \A x \in Handlers \ {h} : handler'[x] = handler[x]
    BY <1>0, <1>5, <2>1
  <2>4. /\ HeldRoot(handler'[h], refreshes', tokens') = SavedRoot(refreshes, tokens, j)
        /\ HeldToken(handler'[h], refreshes') = refreshes[j].access
    BY SMT, <1>1, <1>2, <2>2, <2>3 DEF HeldRoot, HeldToken, SavedRoot
  <2>5. Alone(h)
    <3>1. \A x \in Handlers \ {h} : Holding(handler[x]) =>
            HeldRoot(handler[x], refreshes, tokens) # SavedRoot(refreshes, tokens, j)
      BY <1>1, <1>2 DEF LineInv, LineApart
    <3>2. \A n \in 1 .. Len(refreshes) : ~refreshes'[n].used =>
            SavedRoot(refreshes, tokens, n) # SavedRoot(refreshes, tokens, j)
      BY <1>1, <1>2 DEF LineInv, LineApart
    <3>3. \A k \in 1 .. Len(tokens) :
            Counts(tokens'[k]) /\ tokens[k].root = SavedRoot(refreshes, tokens, j)
            => refreshes[j].access = k
      BY <1>1, <1>2 DEF LineInv, LineLive
    <3> QED
      BY <2>4, <3>1, <3>2, <3>3 DEF Alone
  <2> QED
    BY <1>3, <2>3, <2>5, LineMove
<1> QED
  BY <1>1, <1>4, <1>5

\* The token to be replaced ends, or is known to outlive its successor.
LEMMA LineRevoke ==
  ASSUME GrantInv, LineInv, NEW h \in Handlers, RevokeOld(h) \/ RevokeFails(h)
  PROVE  LineInv'
<1>0. /\ tokens \in Seq(Tokens) /\ handler \in [Handlers -> HandlerStates] /\ AccessKnown
  BY DEF GrantInv, OAuthTypeOK
<1>1. /\ handler[h].at = "revoke" /\ handler' = [handler EXCEPT ![h].at = "mint"]
      /\ UNCHANGED <<codes, refreshes>>
  BY DEF RevokeOld, RevokeFails, At
<1>2. PICK j \in 1 .. Len(refreshes) : handler[h].grant = <<"refresh", j>>
  BY <1>0, <1>1 DEF AccessKnown
<1>3. PICK k \in 1 .. Len(tokens) : k = refreshes[handler[h].grant[2]].access
  BY SMT, <1>0, <1>2 DEF AccessKnown
<1>4. tokens[k] \in Tokens
  BY <1>0, ElementOfSeq
<1>5. PICK t \in Tokens : /\ t.root = tokens[k].root /\ ~Counts(t)
                          /\ tokens' = [tokens EXCEPT ![k] = t]
  <2>1. CASE RevokeOld(h)
    <3>1. tokens' = [tokens EXCEPT ![k] = [tokens[k] EXCEPT !.live = FALSE]]
      BY <1>3, <2>1 DEF RevokeOld
    <3>2. PICK t : t = [tokens[k] EXCEPT !.live = FALSE]
      OBVIOUS
    <3>3. t \in Tokens /\ t.root = tokens[k].root /\ ~Counts(t)
      BY <1>4, <3>2 DEF Tokens, Counts
    <3> QED
      BY <3>1, <3>2, <3>3
  <2>2. CASE RevokeFails(h)
    <3>1. tokens' = [tokens EXCEPT ![k] = [tokens[k] EXCEPT !.kept = TRUE]]
      BY <1>3, <2>2 DEF RevokeFails
    <3>2. PICK t : t = [tokens[k] EXCEPT !.kept = TRUE]
      OBVIOUS
    <3>3. t \in Tokens /\ t.root = tokens[k].root /\ ~Counts(t)
      BY <1>4, <3>2 DEF Tokens, Counts
    <3> QED
      BY <3>1, <3>2, <3>3
  <2> QED
    BY <2>1, <2>2
<1>6. /\ Len(tokens') = Len(tokens) /\ tokens'[k] = t
      /\ \A x \in 1 .. Len(tokens) : x # k => tokens'[x] = tokens[x]
  BY SMT, <1>0, <1>5, FlagSet
<1>7. /\ handler'[h].at = "mint" /\ handler'[h].grant = handler[h].grant
      /\ \A x \in Handlers \ {h} : handler'[x] = handler[x]
  BY <1>0, <1>1, MoveHandler DEF Places
<1>8. KeepsLines
  BY <1>1, <1>5, <1>6 DEF KeepsLines
<1>9. /\ HeldRoot(handler'[h], refreshes', tokens') = HeldRoot(handler[h], refreshes, tokens)
      /\ HeldToken(handler[h], refreshes) = k /\ Holding(handler[h])
  <2>1. handler[h].grant[1] = "refresh"
    BY SMT, <1>2
  <2>2. HeldToken(handler[h], refreshes) = k /\ Holding(handler[h])
    BY <1>1, <1>3 DEF HeldToken, Holding
  <2>3. HeldRoot(handler[h], refreshes, tokens) = tokens[k].root
    BY <1>1, <1>3, <2>1 DEF HeldRoot
  <2>4. HeldRoot(handler'[h], refreshes', tokens') = tokens'[k].root
    BY <1>1, <1>3, <1>7, <2>1 DEF HeldRoot
  <2> QED
    BY <1>5, <1>6, <2>2, <2>3, <2>4
<1>10. Alone(h)
  <2>1. /\ \A x \in Handlers \ {h} : Holding(handler[x]) =>
             HeldRoot(handler[x], refreshes, tokens) # HeldRoot(handler[h], refreshes, tokens)
        /\ \A n \in 1 .. Len(refreshes) : ~refreshes'[n].used =>
             SavedRoot(refreshes, tokens, n) # HeldRoot(handler[h], refreshes, tokens)
    BY <1>1, <1>9 DEF LineInv, LineApart
  <2>2. \A n \in 1 .. Len(tokens) :
          ~(/\ Counts(tokens'[n])
            /\ tokens[n].root = HeldRoot(handler[h], refreshes, tokens))
    BY SMT, <1>5, <1>6, <1>9 DEF LineInv, LineLive
  <2> QED
    BY <1>9, <2>1, <2>2 DEF Alone
<1> QED
  BY <1>7, <1>8, <1>10, LineMove

\* The token minted is the one that counts in its line, and the handler has it.
LEMMA LineMint ==
  ASSUME GrantInv, LineInv, NEW h \in Handlers, MintToken(h)
  PROVE  LineInv'
<1>0. /\ tokens \in Seq(Tokens) /\ handler \in [Handlers -> HandlerStates]
      /\ LineApart /\ RootsUsed /\ LineLive
  BY DEF GrantInv, OAuthTypeOK, LineInv
<1> DEFINE len == Len(tokens)
           tok == [subject |-> handler[h].who, grant |-> handler[h].grant,
                   root |-> Root(handler[h].grant), live |-> TRUE, kept |-> FALSE]
           state == [handler[h] EXCEPT !.at = "save", !.grant = <<"token", len + 1>>]
<1>1. /\ handler[h].at = "mint" /\ tokens' = Append(tokens, tok)
      /\ handler' = [handler EXCEPT ![h] = state]
      /\ UNCHANGED <<codes, refreshes>>
  BY <1>0 DEF MintToken, At
<1>2. handler[h] \in HandlerStates /\ len \in Nat /\ Holding(handler[h])
  BY <1>0, <1>1, LenProperties DEF Holding
<1>3. PICK root : root = HeldRoot(handler[h], refreshes, tokens)
  OBVIOUS
<1>4. tok.root = root /\ Counts(tok)
  BY <1>1, <1>3 DEF HeldRoot, Root, Counts
<1>5. state.at = "save" /\ state.grant = <<"token", len + 1>>
  BY <1>2 DEF HandlerStates
<1> HIDE DEF tok, state
<1>6. /\ Len(tokens') = len + 1 /\ tokens'[len + 1] = tok
      /\ \A k \in 1 .. len : tokens'[k] = tokens[k]
  BY SMT, <1>0, <1>1
<1>7. handler'[h] = state /\ \A x \in Handlers \ {h} : handler'[x] = handler[x]
  BY <1>0, <1>1
<1>8. /\ HeldRoot(handler'[h], refreshes', tokens') = root
      /\ HeldToken(handler'[h], refreshes') = len + 1
  BY SMT, <1>4, <1>5, <1>6, <1>7 DEF HeldRoot, HeldToken
<1>9. /\ \A x \in Handlers \ {h} : Holding(handler'[x]) =>
           /\ Holding(handler[x])
           /\ HeldRoot(handler'[x], refreshes', tokens') =
                HeldRoot(handler[x], refreshes, tokens)
           /\ HeldToken(handler'[x], refreshes') = HeldToken(handler[x], refreshes)
      /\ \A j \in 1 .. Len(refreshes') :
           SavedRoot(refreshes', tokens', j) = SavedRoot(refreshes, tokens, j)
  <2>1. /\ \A x \in Handlers : Holding(handler[x]) =>
             /\ HeldRoot(handler[x], refreshes', tokens') =
                  HeldRoot(handler[x], refreshes, tokens)
             /\ HeldToken(handler[x], refreshes') = HeldToken(handler[x], refreshes)
        /\ \A j \in 1 .. Len(refreshes) :
             SavedRoot(refreshes', tokens', j) = SavedRoot(refreshes, tokens, j)
    BY <1>1, <1>6, HeldSame DEF len
  <2> QED
    BY <1>1, <1>7, <2>1
<1>10. /\ \A x \in Handlers \ {h} : Holding(handler[x]) =>
            HeldRoot(handler[x], refreshes, tokens) # root
       /\ \A j \in 1 .. Len(refreshes) : ~refreshes[j].used =>
            SavedRoot(refreshes, tokens, j) # root
       /\ \A k \in 1 .. len : Counts(tokens[k]) => tokens[k].root # root
  <2>1. HeldToken(handler[h], refreshes) = 0
    BY <1>1 DEF HeldToken
  <2>2. \A k \in 1 .. len : k # 0
    BY SMT, <1>2
  <2> QED
    BY <1>0, <1>2, <1>3, <2>1, <2>2 DEF LineApart, LineLive, len
<1>11. \A k \in 1 .. Len(tokens') :
         (k \in 1 .. len /\ tokens'[k] = tokens[k]) \/ (k = len + 1 /\ tokens'[k] = tok)
  <2> HIDE DEF len
  <2>1. \A k \in 1 .. len + 1 : k \in 1 .. len \/ k = len + 1
    BY SMT, <1>2
  <2> QED
    BY <1>6, <2>1
<1> HIDE DEF len
<1>12. LineApart'
  <2>1. \A g, x \in Handlers :
          /\ Holding(handler'[g]) /\ Holding(handler'[x])
          /\ HeldRoot(handler'[g], refreshes', tokens') =
               HeldRoot(handler'[x], refreshes', tokens')
          => g = x
    BY <1>0, <1>8, <1>9, <1>10 DEF LineApart
  <2>2. \A x \in Handlers, j \in 1 .. Len(refreshes') :
          Holding(handler'[x]) /\ ~refreshes'[j].used
          => HeldRoot(handler'[x], refreshes', tokens') # SavedRoot(refreshes', tokens', j)
    BY SMT, <1>0, <1>1, <1>8, <1>9, <1>10 DEF LineApart
  <2>3. \A i, j \in 1 .. Len(refreshes') :
          /\ ~refreshes'[i].used /\ ~refreshes'[j].used
          /\ SavedRoot(refreshes', tokens', i) = SavedRoot(refreshes', tokens', j)
          => i = j
    BY SMT, <1>0, <1>1, <1>9 DEF LineApart
  <2> QED
    BY <2>1, <2>2, <2>3 DEF LineApart
<1>13. RootsUsed'
  <2>1. root \in 1 .. Len(codes) /\ codes[root].used
    BY <1>2, <1>3, HeldKnown
  <2> QED
    BY <1>0, <1>1, <1>4, <1>11, <2>1 DEF RootsUsed, len
<1>14. LineLive'
  <2>1. ASSUME NEW k \in 1 .. Len(tokens'), Counts(tokens'[k])
        PROVE  /\ \A x \in Handlers :
                    /\ Holding(handler'[x])
                    /\ HeldRoot(handler'[x], refreshes', tokens') = tokens'[k].root
                    => HeldToken(handler'[x], refreshes') = k
               /\ \A j \in 1 .. Len(refreshes') :
                    /\ ~refreshes'[j].used
                    /\ SavedRoot(refreshes', tokens', j) = tokens'[k].root
                    => refreshes'[j].access = k
    <3>1. CASE k \in 1 .. len /\ tokens'[k] = tokens[k]
      <4>1. Counts(tokens[k]) /\ tokens[k].root # root
        BY <1>10, <2>1, <3>1
      <4> QED
        BY SMT, <1>0, <1>1, <1>8, <1>9, <3>1, <4>1 DEF LineLive, len
    <3>2. CASE k = len + 1 /\ tokens'[k] = tok
      BY <1>1, <1>4, <1>8, <1>9, <1>10, <3>2
    <3> QED
      BY <1>11, <3>1, <3>2
  <2>2. \A i, k \in 1 .. Len(tokens') :
          Counts(tokens'[i]) /\ Counts(tokens'[k]) /\ tokens'[i].root = tokens'[k].root
          => i = k
    BY <1>0, <1>4, <1>10, <1>11 DEF LineLive, len
  <2> QED
    BY <2>1, <2>2 DEF LineLive
<1> QED
  BY <1>12, <1>13, <1>14 DEF LineInv

\* The refresh token saved takes the place of its handler in the line.
LEMMA LineSave ==
  ASSUME GrantInv, LineInv, NEW h \in Handlers, SaveRefresh(h)
  PROVE  LineInv'
<1>0. /\ refreshes \in Seq(Refreshes) /\ handler \in [Handlers -> HandlerStates]
      /\ LineApart /\ RootsUsed /\ LineLive /\ AccessKnown
  BY DEF GrantInv, OAuthTypeOK, LineInv
<1> DEFINE len == Len(refreshes)
           r == [client |-> handler[h].client, subject |-> handler[h].who,
                 access |-> handler[h].grant[2], used |-> FALSE]
<1>1. /\ handler[h].at = "save" /\ refreshes' = Append(refreshes, r)
      /\ handler' = [handler EXCEPT ![h] = IdleHandler]
      /\ UNCHANGED <<codes, tokens>>
  BY DEF SaveRefresh, At, Done
<1>2. PICK n \in 1 .. Len(tokens) : handler[h].grant = <<"token", n>>
  BY <1>0, <1>1 DEF AccessKnown
<1>3. PICK root : root = HeldRoot(handler[h], refreshes, tokens)
  OBVIOUS
<1>4. /\ r.access = n /\ ~r.used /\ root = tokens[n].root /\ Holding(handler[h])
      /\ HeldToken(handler[h], refreshes) = n
  BY SMT, <1>1, <1>2, <1>3 DEF HeldRoot, HeldToken, Holding
<1> HIDE DEF r
<1>5. /\ len \in Nat /\ Len(refreshes') = len + 1 /\ refreshes'[len + 1] = r
      /\ \A j \in 1 .. len : refreshes'[j] = refreshes[j]
  BY SMT, <1>0, <1>1
<1>6. /\ ~Holding(handler'[h]) /\ \A x \in Handlers \ {h} : handler'[x] = handler[x]
  BY <1>0, <1>1 DEF Holding, IdleHandler
<1>7. SavedRoot(refreshes', tokens', len + 1) = root
  BY <1>1, <1>4, <1>5 DEF SavedRoot
<1>8. \A j \in 1 .. Len(refreshes') :
        \/ j \in 1 .. len /\ refreshes'[j] = refreshes[j]
        \/ j = len + 1 /\ refreshes'[j] = r
  <2> HIDE DEF len
  <2>1. \A j \in 1 .. len + 1 : j \in 1 .. len \/ j = len + 1
    BY SMT, <1>5
  <2> QED
    BY <1>5, <2>1
<1>9. /\ \A x \in Handlers : Holding(handler'[x]) =>
           /\ x # h /\ Holding(handler[x])
           /\ HeldRoot(handler'[x], refreshes', tokens') =
                HeldRoot(handler[x], refreshes, tokens)
           /\ HeldToken(handler'[x], refreshes') = HeldToken(handler[x], refreshes)
      /\ \A j \in 1 .. len :
           SavedRoot(refreshes', tokens', j) = SavedRoot(refreshes, tokens, j)
  <2>1. /\ \A x \in Handlers : Holding(handler[x]) =>
             /\ HeldRoot(handler[x], refreshes', tokens') =
                  HeldRoot(handler[x], refreshes, tokens)
             /\ HeldToken(handler[x], refreshes') = HeldToken(handler[x], refreshes)
        /\ \A j \in 1 .. Len(refreshes) :
             SavedRoot(refreshes', tokens', j) = SavedRoot(refreshes, tokens, j)
    BY <1>1, <1>5, HeldSame DEF len
  <2> QED
    BY <1>6, <2>1 DEF len
<1>10. /\ \A x \in Handlers \ {h} : Holding(handler[x]) =>
            HeldRoot(handler[x], refreshes, tokens) # root
       /\ \A j \in 1 .. len : ~refreshes[j].used => SavedRoot(refreshes, tokens, j) # root
       /\ \A k \in 1 .. Len(tokens) : Counts(tokens[k]) /\ tokens[k].root = root => k = n
  <2>1. \A x \in Handlers \ {h} : Holding(handler[x]) =>
          HeldRoot(handler[x], refreshes, tokens) # root
    BY <1>0, <1>3, <1>4 DEF LineApart
  <2>2. \A j \in 1 .. len : ~refreshes[j].used => SavedRoot(refreshes, tokens, j) # root
    BY <1>0, <1>3, <1>4 DEF LineApart, len
  <2>3. \A k \in 1 .. Len(tokens) : Counts(tokens[k]) /\ tokens[k].root = root => k = n
    BY <1>0, <1>3, <1>4 DEF LineLive
  <2> QED
    BY <2>1, <2>2, <2>3
<1> HIDE DEF len
<1>11. LineApart'
  <2>1. \A g, x \in Handlers :
          /\ Holding(handler'[g]) /\ Holding(handler'[x])
          /\ HeldRoot(handler'[g], refreshes', tokens') =
               HeldRoot(handler'[x], refreshes', tokens')
          => g = x
    BY <1>0, <1>9 DEF LineApart
  <2>2. \A x \in Handlers, j \in 1 .. Len(refreshes') :
          Holding(handler'[x]) /\ ~refreshes'[j].used
          => HeldRoot(handler'[x], refreshes', tokens') # SavedRoot(refreshes', tokens', j)
    BY <1>0, <1>7, <1>8, <1>9, <1>10 DEF LineApart, len
  <2>3. \A i, j \in 1 .. Len(refreshes') :
          /\ ~refreshes'[i].used /\ ~refreshes'[j].used
          /\ SavedRoot(refreshes', tokens', i) = SavedRoot(refreshes', tokens', j)
          => i = j
    BY <1>0, <1>7, <1>8, <1>9, <1>10 DEF LineApart, len
  <2> QED
    BY <2>1, <2>2, <2>3 DEF LineApart
<1>12. RootsUsed'
  BY <1>0, <1>1 DEF RootsUsed
<1>13. LineLive'
  <2>1. \A k \in 1 .. Len(tokens') : Counts(tokens'[k]) =>
          \A x \in Handlers :
            /\ Holding(handler'[x])
            /\ HeldRoot(handler'[x], refreshes', tokens') = tokens'[k].root
            => HeldToken(handler'[x], refreshes') = k
    BY SMT, <1>0, <1>1, <1>9 DEF LineLive
  <2>2. \A k \in 1 .. Len(tokens') : Counts(tokens'[k]) =>
          \A j \in 1 .. Len(refreshes') :
            ~refreshes'[j].used /\ SavedRoot(refreshes', tokens', j) = tokens'[k].root
            => refreshes'[j].access = k
    BY SMT, <1>0, <1>1, <1>4, <1>7, <1>8, <1>9, <1>10 DEF LineLive, len
  <2>3. \A i, k \in 1 .. Len(tokens') :
          Counts(tokens'[i]) /\ Counts(tokens'[k]) /\ tokens'[i].root = tokens'[k].root
          => i = k
    BY <1>0, <1>1 DEF LineLive
  <2> QED
    BY <2>1, <2>2, <2>3 DEF LineLive
<1> QED
  BY <1>11, <1>12, <1>13 DEF LineInv

\* Every step keeps the lines apart.
LEMMA LineStep == GrantInv /\ LineInv /\ [OAuthNext]_oauthVars => LineInv'
<1> SUFFICES ASSUME GrantInv, LineInv, [OAuthNext]_oauthVars PROVE LineInv'
  OBVIOUS
<1>1. CASE UNCHANGED oauthVars
  BY <1>1, LineRests DEF oauthVars
<1>2. PICK any \in Handlers : TRUE
  BY OAuthAssumption
<1>3. CASE \/ \E c \in Clients : Register(c)
           \/ \E l \in Logins : authorize(l) \/ ExpireLogin(l)
           \/ ExpireCode \/ ExpireRefresh
  BY <1>2, <1>3, LineLogin, LineRefresh
<1>4. ASSUME NEW h \in Handlers,
             \/ LoginGet(h) \/ LoginTake(h) \/ OIDCStartGet(h) \/ OIDCStartSave(h)
             \/ OIDCCallback(h) \/ completeAuthorize(h) \/ HandlerFails(h)
      PROVE  LineInv'
  BY <1>4, LineLogin
<1> QED
  BY <1>1, <1>3, <1>4, LineCode, LineRefresh, LineRevoke, LineMint, LineSave DEF OAuthNext

\* Of the access tokens that descend from one code at most one is live, but
\* for those whose revocation failed, however many requests refresh at once and
\* whichever of them fail half-way (server.go:530).
THEOREM OneLivePerCodeHolds == OAuthSpec => []OneLivePerCode
<1>1. OAuthInit => LineInv
  <2> SUFFICES ASSUME OAuthInit PROVE LineInv
    OBVIOUS
  <2>1. /\ \A h \in Handlers : ~Holding(handler[h])
        /\ Len(tokens) = 0 /\ Len(refreshes) = 0
    BY EmptySeq DEF OAuthInit, IdleHandler, Holding
  <2> QED
    BY SMT, <2>1 DEF LineInv, LineApart, RootsUsed, LineLive
<1>2. GrantInv /\ LineInv => OneLivePerCode
  <2> SUFFICES ASSUME GrantInv, LineInv PROVE OneLivePerCode
    OBVIOUS
  <2>1. DOMAIN tokens = 1 .. Len(tokens)
    BY LenProperties DEF GrantInv, OAuthTypeOK
  <2> QED
    BY <2>1 DEF LineInv, LineLive, Counts, OneLivePerCode
<1> QED
  BY OAuthInitInv, OAuthStep, LineStep, <1>1, <1>2, PTL DEF OAuthSpec

=============================================================================
