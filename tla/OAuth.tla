------------------------------- MODULE OAuth -------------------------------
(***************************************************************************)
(* The OAuth authorization server: clients register, a login session is    *)
(* opened by authorize and taken by a login with a password or through an  *)
(* OIDC provider, which leaves an authorization code; the token endpoint   *)
(* exchanges a code, or a refresh token, for an access token and the next  *)
(* refresh token.  A handler is a sequence of calls of the store, each of  *)
(* them atomic: a statement, or a transaction that locks the one row it    *)
(* reads and writes.  Each may fail, which ends the handler.               *)
(***************************************************************************)
EXTENDS Naturals, Sequences, FiniteSets

CONSTANTS Handlers,          \* requests in progress
          Logins,            \* ids of login sessions
          Clients, Redirects, Verifiers, Subjects,
          AllowedRedirects,  \* well-formed and matching a configured pattern
          MaxCodes,          \* bound on authorization codes
          MaxTokens          \* bound on access tokens

None == "none"

ASSUME OAuthAssumption ==
  Handlers # {} /\ None \notin Clients /\ MaxCodes \in Nat /\ MaxTokens \in Nat

VARIABLES clients,   \* redirect URIs of each registered client
          logins,    \* oauth_as_login_sessions
          asked,     \* what authorize accepted for a login session
          expired,   \* login sessions whose time is over
          codes,     \* oauth_authorization_codes
          refreshes, \* oauth_refresh_tokens
          tokens,    \* the access tokens minted here
          handler    \* where each request is, and what it has read

oauthVars ==
  <<clients, logins, asked, expired, codes, refreshes, tokens, handler>>

NoSession == [client |-> None, redirect |-> None, challenge |-> None,
              provider |-> FALSE]
IdleHandler == [at |-> "idle", login |-> None, sess |-> NoSession,
                who |-> None, client |-> None, grant |-> <<>>]

OAuthInit == /\ clients = [c \in Clients |-> {}]
             /\ logins = [l \in Logins |-> NoSession]
             /\ asked = [l \in Logins |-> NoSession]
             /\ expired = {}
             /\ codes = <<>> /\ refreshes = <<>> /\ tokens = <<>>
             /\ handler = [h \in Handlers |-> IdleHandler]

Idle(h) == handler[h] = IdleHandler
At(h, place) == handler[h].at = place
Done(h) == handler' = [handler EXCEPT ![h] = IdleHandler]

\* The SHA-256 of a verifier is compared with the challenge.
S256(v) == <<"S256", v>>
VerifyPKCES256(v, challenge) == v # None /\ S256(v) = challenge

RedirectURIAllowed(uri, registered) ==
  uri \in AllowedRedirects /\ (registered # {} => uri \in registered)

-----------------------------------------------------------------------------
\* Dynamic registration: every redirect URI has to be allowed.
Register(c) == \E uris \in SUBSET Redirects :
  /\ clients[c] = {}
  /\ uris # {} /\ \A u \in uris : RedirectURIAllowed(u, {})
  /\ clients' = [clients EXCEPT ![c] = uris]
  /\ UNCHANGED <<logins, asked, expired, codes, refreshes, tokens, handler>>

authorize_AnyRedirect(l) == \E c \in Clients, u \in Redirects, v \in Verifiers :
  /\ asked[l] = NoSession
  /\ clients[c] # {} /\ u \in AllowedRedirects
  /\ LET sess == [client |-> c, redirect |-> u, challenge |-> S256(v),
                  provider |-> FALSE]
     IN  /\ logins' = [logins EXCEPT ![l] = sess]
         /\ asked' = [asked EXCEPT ![l] = sess]
  /\ UNCHANGED <<expired, clients, codes, refreshes, tokens, handler>>

\* A challenge is required, and the redirect URI is one of the client's.
authorize(l) == \E c \in Clients, u \in Redirects, v \in Verifiers :
  /\ asked[l] = NoSession
  /\ u \in clients[c] /\ RedirectURIAllowed(u, clients[c])
  /\ LET sess == [client |-> c, redirect |-> u, challenge |-> S256(v),
                  provider |-> FALSE]
     IN  /\ logins' = [logins EXCEPT ![l] = sess]
         /\ asked' = [asked EXCEPT ![l] = sess]
  /\ UNCHANGED <<expired, clients, codes, refreshes, tokens, handler>>

\* A login session is found while it is stored and its time is not over.
Open(l) == logins[l] # NoSession /\ l \notin expired

ExpireLogin(l) ==
  /\ asked[l] # NoSession /\ l \notin expired
  /\ expired' = expired \cup {l}
  /\ UNCHANGED <<clients, logins, asked, codes, refreshes, tokens, handler>>

-----------------------------------------------------------------------------
\* authorizeLogin: the session is read, the password checked, the session
\* taken (whether it was still there is not looked at), the code saved.
LoginGet(h) == \E l \in Logins, s \in Subjects :
  /\ Idle(h) /\ Open(l)
  /\ handler' = [handler EXCEPT ![h] =
       [IdleHandler EXCEPT !.at = "take", !.login = l, !.sess = logins[l],
                           !.who = s]]
  /\ UNCHANGED <<clients, logins, asked, expired, codes, refreshes, tokens>>

LoginTake(h) ==
  /\ At(h, "take")
  /\ logins' = [logins EXCEPT ![handler[h].login] = NoSession]
  /\ handler' = [handler EXCEPT ![h].at = "complete"]
  /\ UNCHANGED <<clients, asked, expired, codes, refreshes, tokens>>

\* authorizeOIDCStart: the session is read and saved again with a provider.
OIDCStartGet(h) == \E l \in Logins :
  /\ Idle(h) /\ Open(l)
  /\ handler' = [handler EXCEPT ![h] =
       [IdleHandler EXCEPT !.at = "start", !.login = l, !.sess = logins[l]]]
  /\ UNCHANGED <<clients, logins, asked, expired, codes, refreshes, tokens>>

OIDCStartSave(h) ==
  /\ At(h, "start")
  /\ logins' = [logins EXCEPT ![handler[h].login] =
                  [handler[h].sess EXCEPT !.provider = TRUE]]
  /\ Done(h)
  /\ UNCHANGED <<clients, asked, expired, codes, refreshes, tokens>>

\* oidcCallback takes the session first; the provider then names the user.
OIDCCallback(h) == \E l \in Logins :
  /\ Idle(h) /\ Open(l)
  /\ logins' = [logins EXCEPT ![l] = NoSession]
  /\ \/ /\ logins[l].provider
        /\ \E s \in Subjects :
             handler' = [handler EXCEPT ![h] =
               [IdleHandler EXCEPT !.at = "complete", !.login = l,
                                   !.sess = logins[l], !.who = s]]
     \/ UNCHANGED handler
  /\ UNCHANGED <<clients, asked, expired, codes, refreshes, tokens>>

completeAuthorize(h) ==
  /\ At(h, "complete") /\ Len(codes) < MaxCodes
  /\ codes' = Append(codes,
       [login |-> handler[h].login, client |-> handler[h].sess.client,
        redirect |-> handler[h].sess.redirect,
        challenge |-> handler[h].sess.challenge,
        subject |-> handler[h].who, used |-> FALSE])
  /\ Done(h)
  /\ UNCHANGED <<clients, logins, asked, expired, refreshes, tokens>>

-----------------------------------------------------------------------------
\* A code is marked used before anything presented with it is compared, so a
\* wrong client, redirect URI or verifier uses it up.
Consumed(i) == codes' = [codes EXCEPT ![i].used = TRUE]

ConsumeCode_NotMarked(h, i, client, redirect, v) ==
  /\ Idle(h) /\ ~codes[i].used
  /\ IF /\ codes[i].client = client /\ codes[i].redirect = redirect
        /\ VerifyPKCES256(v, codes[i].challenge)
     THEN handler' = [handler EXCEPT ![h] =
            [IdleHandler EXCEPT !.at = "mint", !.who = codes[i].subject,
                                !.client = client, !.grant = <<"code", i>>]]
     ELSE UNCHANGED handler
  /\ UNCHANGED <<clients, logins, asked, expired, codes, refreshes, tokens>>

ConsumeCode(h, i, client, redirect, v) ==
  /\ Idle(h) /\ ~codes[i].used
  /\ Consumed(i)
  /\ IF /\ codes[i].client = client /\ codes[i].redirect = redirect
        /\ VerifyPKCES256(v, codes[i].challenge)
     THEN handler' = [handler EXCEPT ![h] =
            [IdleHandler EXCEPT !.at = "mint", !.who = codes[i].subject,
                                !.client = client, !.grant = <<"code", i>>]]
     ELSE UNCHANGED handler
  /\ UNCHANGED <<clients, logins, asked, expired, refreshes, tokens>>

tokenAuthorizationCode(h) ==
  \E i \in DOMAIN codes, client \in Clients, redirect \in Redirects,
     v \in Verifiers : ConsumeCode(h, i, client, redirect, v)

\* A code whose time is over is refused like a used one.
ExpireCode == \E i \in DOMAIN codes :
  /\ ~codes[i].used /\ Consumed(i)
  /\ UNCHANGED <<clients, logins, asked, expired, refreshes, tokens, handler>>

\* tokenRefresh: the refresh token is revoked, then the client compared (an
\* empty client_id is not), then the old access token revoked.
tokenRefresh(h) == \E j \in DOMAIN refreshes, client \in Clients \cup {None} :
  /\ Idle(h) /\ ~refreshes[j].used
  /\ refreshes' = [refreshes EXCEPT ![j].used = TRUE]
  /\ IF client = None \/ client = refreshes[j].client
     THEN handler' = [handler EXCEPT ![h] =
            [IdleHandler EXCEPT !.at = "revoke", !.who = refreshes[j].subject,
                                !.client = refreshes[j].client,
                                !.grant = <<"refresh", j>>]]
     ELSE UNCHANGED handler
  /\ UNCHANGED <<clients, logins, asked, expired, codes, tokens>>

ExpireRefresh == \E j \in DOMAIN refreshes :
  /\ ~refreshes[j].used
  /\ refreshes' = [refreshes EXCEPT ![j].used = TRUE]
  /\ UNCHANGED <<clients, logins, asked, expired, codes, tokens, handler>>

RevokeOld_Skipped(h) ==
  /\ At(h, "revoke")
  /\ handler' = [handler EXCEPT ![h].at = "mint"]
  /\ UNCHANGED <<clients, logins, asked, expired, codes, refreshes, tokens>>

RevokeOld(h) ==
  /\ At(h, "revoke")
  /\ tokens' = [tokens EXCEPT ![refreshes[handler[h].grant[2]].access].live = FALSE]
  /\ handler' = [handler EXCEPT ![h].at = "mint"]
  /\ UNCHANGED <<clients, logins, asked, expired, codes, refreshes>>

\* The error of RevokeToken is dropped: the old token outlives its successor.
RevokeFails(h) ==
  /\ At(h, "revoke")
  /\ tokens' = [tokens EXCEPT
                  ![refreshes[handler[h].grant[2]].access].kept = TRUE]
  /\ handler' = [handler EXCEPT ![h].at = "mint"]
  /\ UNCHANGED <<clients, logins, asked, expired, codes, refreshes>>

\* The code from which a grant descends.
Root(grant) == IF grant[1] = "code" THEN grant[2]
               ELSE tokens[refreshes[grant[2]].access].root

\* mintTokens: the access token is created, then its refresh token saved.
MintToken(h) ==
  /\ At(h, "mint") /\ Len(tokens) < MaxTokens
  /\ tokens' = Append(tokens,
       [subject |-> handler[h].who, grant |-> handler[h].grant,
        root |-> Root(handler[h].grant), live |-> TRUE, kept |-> FALSE])
  /\ handler' = [handler EXCEPT ![h].at = "save",
                                ![h].grant = <<"token", Len(tokens) + 1>>]
  /\ UNCHANGED <<clients, logins, asked, expired, codes, refreshes>>

SaveRefresh(h) ==
  /\ At(h, "save")
  /\ refreshes' = Append(refreshes,
       [client |-> handler[h].client, subject |-> handler[h].who,
        access |-> handler[h].grant[2], used |-> FALSE])
  /\ Done(h)
  /\ UNCHANGED <<clients, logins, asked, expired, codes, tokens>>

\* A call of the store fails, a password is wrong, a provider refuses.
HandlerFails(h) ==
  /\ ~Idle(h)
  /\ Done(h)
  /\ UNCHANGED <<clients, logins, asked, expired, codes, refreshes, tokens>>

OAuthNext ==
  \/ \E c \in Clients : Register(c)
  \/ \E l \in Logins : authorize(l) \/ ExpireLogin(l)
  \/ \E h \in Handlers :
       \/ LoginGet(h) \/ LoginTake(h) \/ OIDCStartGet(h) \/ OIDCStartSave(h)
       \/ OIDCCallback(h) \/ completeAuthorize(h)
       \/ tokenAuthorizationCode(h) \/ tokenRefresh(h)
       \/ RevokeOld(h) \/ RevokeFails(h) \/ MintToken(h) \/ SaveRefresh(h)
       \/ HandlerFails(h)
  \/ ExpireCode \/ ExpireRefresh

OAuthSpec == OAuthInit /\ [][OAuthNext]_oauthVars

-----------------------------------------------------------------------------
\* An authorization code and a refresh token each yield one access token at
\* most, however many requests present them at once (store.go:164, 229).
GrantOnce == \A i, j \in DOMAIN tokens :
  i # j => tokens[i].grant # tokens[j].grant

\* Of the access tokens that descend from one code at most one is live,
\* leaving out those whose revocation failed (server.go:530): a refresh
\* replaces the token it was issued with.
OneLivePerCode == \A i, j \in DOMAIN tokens :
  /\ i # j /\ tokens[i].root = tokens[j].root
  /\ tokens[i].live /\ tokens[j].live
  => tokens[i].kept \/ tokens[j].kept

\* A code carries the client, the redirect URI and the challenge that
\* authorize accepted for its login session, and the URI is one the client
\* registered, although the session is read, taken and saved again by several
\* requests (server.go:198, 343, 441).
CodesAsAsked == \A i \in DOMAIN codes :
  LET sess == asked[codes[i].login]
  IN  /\ codes[i].client = sess.client /\ codes[i].redirect = sess.redirect
      /\ codes[i].challenge = sess.challenge
      /\ codes[i].redirect \in clients[codes[i].client]

=============================================================================
