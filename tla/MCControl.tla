----------------------------- MODULE MCControl -----------------------------
(***************************************************************************)
(* Small instances of the control-plane components for TLC.  A behaviour   *)
(* is about one part, chosen in its first state; the variables of the      *)
(* others keep their first values, so that the state spaces add up instead *)
(* of multiplying.                                                         *)
(***************************************************************************)
EXTENDS OAuth, Access, Accounts, McpProxy, AgentKeys, Session, Usage, TLC

CONSTANTS Parts,      \* the parts to explore
          p1, i1,     \* a person and the id of their personal storage
          q1,         \* the request that names a storage
          b1          \* a binder without a "|", and the beginning of the other

VARIABLE part

TwoKinds == <<"tool", "resource">>
TwoWindows == <<"minute", "hour">>
Spans == [minute |-> 1, hour |-> 2]
Limits == [minute |-> 1, hour |-> 2]
Named == [r \in Reqs |-> {IF r = q1 THEN "store" ELSE "none"}]
SettledStorage == i1 :> p1
CutAtBar == [b \in Binders |-> b1]
AnyOrRead == {{}, {"read"}}

\* The requests of every part are drawn from the same model values.
Symmetry == Permutations(Callers) \cup Permutations(TokenIds)
            \cup Permutations(Reqs \ {q1})

vars == <<part, oauthVars, accessVars, accountVars, proxyVars, keyVars,
          sessionVars, usageVars>>

Init == /\ part \in Parts
        /\ OAuthInit /\ AccountsInit /\ ProxyInit
        /\ AccessInit /\ (part # "access" => ~useDB /\ spent = {})
        /\ KeysInit /\ (part # "keys" => ~redisOn)
        /\ SessionInit /\ (part # "session" => ~shared)
        /\ UsageInit /\ (part # "usage" => ~inRedisRL)
        /\ (part # "accounts" => ~inDB)

OAuthPart == /\ part = "oauth" /\ OAuthNext
             /\ UNCHANGED <<part, accessVars, accountVars, proxyVars, keyVars,
                            sessionVars, usageVars>>
AccessPart == /\ part = "access" /\ AccessNext
              /\ UNCHANGED <<part, oauthVars, accountVars, proxyVars, keyVars,
                             sessionVars, usageVars>>
AccountsPart == /\ part = "accounts" /\ AccountsNext
                /\ UNCHANGED <<part, oauthVars, accessVars, proxyVars, keyVars,
                               sessionVars, usageVars>>
ProxyPart == /\ part = "proxy" /\ ProxyNext
             /\ UNCHANGED <<part, oauthVars, accessVars, accountVars, keyVars,
                            sessionVars, usageVars>>
KeysPart == /\ part = "keys" /\ KeysNext
            /\ UNCHANGED <<part, oauthVars, accessVars, accountVars, proxyVars,
                           sessionVars, usageVars>>
SessionPart == /\ part = "session" /\ SessionNext
               /\ UNCHANGED <<part, oauthVars, accessVars, accountVars,
                              proxyVars, keyVars, usageVars>>
UsagePart == /\ part = "usage" /\ UsageNext
             /\ UNCHANGED <<part, oauthVars, accessVars, accountVars, proxyVars,
                            keyVars, sessionVars>>

Next == \/ OAuthPart \/ AccessPart \/ AccountsPart \/ ProxyPart \/ KeysPart
        \/ SessionPart \/ UsagePart

Spec == Init /\ [][Next]_vars
=============================================================================
