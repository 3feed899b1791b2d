----------------------------- MODULE AgentKeys -----------------------------
(***************************************************************************)
(* Agent keys (agentkeys.Store): a caller asks for a challenge, signs it   *)
(* and registers a public key.  Challenges live in Redis or in the memory  *)
(* of the process, keys in PostgreSQL or in memory.  A registration        *)
(* consumes its challenge and then inserts the key.                        *)
(***************************************************************************)
EXTENDS Naturals, FiniteSets

CONSTANTS Nonces,     \* uuids, each drawn once
          Binders,    \* token, web session or subject a challenge is bound to
          Cut,        \* binder -> what stands before its first "|"
          Posts       \* POST /api/agent-keys requests in progress

ASSUME KeysAssumption ==
  /\ "none" \notin Nonces /\ "none" \notin Binders
  /\ DOMAIN Cut = Binders

VARIABLES redisOn,    \* whether Redis is configured
          challs,     \* nonce -> its binder, "old", or "none"
          drawn,      \* nonce -> the binder it was drawn for (history)
          posts,      \* registrations between consume and insert
          keys        \* registered keys: nonce, binder, revoked

keyVars == <<redisOn, challs, drawn, posts, keys>>

NoPost == [nonce |-> "none", binder |-> "none", signed |-> FALSE]

KeysInit == /\ redisOn \in BOOLEAN
            /\ challs = [n \in Nonces |-> [binder |-> "none", old |-> FALSE]]
            /\ drawn = [n \in Nonces |-> "none"]
            /\ posts = [r \in Posts |-> NoPost]
            /\ keys = {}

Forget(n) == [challs EXCEPT ![n] = [binder |-> "none", old |-> FALSE]]

-----------------------------------------------------------------------------
CreateChallenge == \E n \in Nonces, b \in Binders :
  /\ drawn[n] = "none"
  /\ drawn' = [drawn EXCEPT ![n] = b]
  /\ challs' = [challs EXCEPT ![n].binder = b]
  /\ UNCHANGED <<redisOn, posts, keys>>

\* Redis removes a key at its TTL; in memory the entry stays, past its time.
ChallengeTTL(n) ==
  /\ challs[n].binder # "none" /\ ~challs[n].old
  /\ challs' = IF redisOn THEN Forget(n)
               ELSE [challs EXCEPT ![n].old = TRUE]
  /\ UNCHANGED <<redisOn, drawn, posts, keys>>

\* The binder is the one of the challenge.  Redis has it with the time after a
\* "|", and is read up to the first one.
BoundTo(n, b) ==
  /\ challs[n].binder # "none"
  /\ b = IF redisOn THEN Cut[challs[n].binder] ELSE challs[n].binder

\* The nonce is read with GET and stays.
AfterConsume_Get(n, b) == challs

\* What a consume leaves: GETDEL forgets the nonce even when the binder is not
\* the caller's, the map forgets it only when it is used or past its time.
AfterConsume(n, b) ==
  IF redisOn \/ challs[n].old \/ BoundTo(n, b) THEN Forget(n) ELSE challs

\* Register checks the key's form, consumes the challenge ...
ConsumeChallenge(r) == \E n \in Nonces, b \in Binders, signed \in BOOLEAN :
  /\ posts[r] = NoPost
  /\ challs' = AfterConsume(n, b)
  /\ IF BoundTo(n, b) /\ ~challs[n].old
     THEN posts' = [posts EXCEPT ![r] = [nonce |-> n, binder |-> b,
                                         signed |-> signed]]
     ELSE UNCHANGED posts
  /\ UNCHANGED <<redisOn, drawn, keys>>

\* ... verifies the signature over nonce and key, and inserts the key.
RegisterKey(r) ==
  /\ posts[r].signed
  /\ keys' = keys \cup {[nonce |-> posts[r].nonce, binder |-> posts[r].binder,
                         post |-> r, revoked |-> FALSE]}
  /\ posts' = [posts EXCEPT ![r] = NoPost]
  /\ UNCHANGED <<redisOn, challs, drawn>>

\* The signature is wrong, or the insert fails: the challenge is gone.
RegisterKeyFails(r) ==
  /\ posts[r] # NoPost
  /\ posts' = [posts EXCEPT ![r] = NoPost]
  /\ UNCHANGED <<redisOn, challs, drawn, keys>>

\* Only the subject of a key revokes it.
Revoke == \E k \in keys :
  /\ keys' = (keys \ {k}) \cup {[k EXCEPT !.revoked = TRUE]}
  /\ UNCHANGED <<redisOn, challs, drawn, posts>>

KeysNext == \/ CreateChallenge \/ Revoke
            \/ \E n \in Nonces : ChallengeTTL(n)
            \/ \E r \in Posts : \/ ConsumeChallenge(r) \/ RegisterKey(r)
                                \/ RegisterKeyFails(r)

KeysSpec == KeysInit /\ [][KeysNext]_keyVars

-----------------------------------------------------------------------------
\* A challenge serves one registration: no two keys rest on the same nonce,
\* and a registration under way has a nonce that no key and no other
\* registration has (store.go:81).  It serves the caller it was drawn for;
\* with Redis, if a "|" is in the binder, one whose binder is cut there.
ChallengeOnce ==
  /\ \A k, l \in keys : k.nonce = l.nonce => k = l
  /\ \A r, s \in Posts : posts[r] # NoPost /\ posts[r].nonce = posts[s].nonce
                         => r = s
  /\ \A r \in Posts, k \in keys : posts[r].nonce # k.nonce
  /\ \A k \in keys : k.binder # drawn[k.nonce] =>
       redisOn /\ k.binder = Cut[drawn[k.nonce]]
=============================================================================
