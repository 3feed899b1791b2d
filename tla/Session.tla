------------------------------ MODULE Session ------------------------------
(***************************************************************************)
(* MCP and web sessions (session.Store): each server process keeps the     *)
(* sessions it made in memory and, when Redis is configured, writes them   *)
(* there too; a lookup asks Redis first and its own memory second.  Redis  *)
(* calls have a two second timeout and their errors are dropped.           *)
(***************************************************************************)
EXTENDS Naturals, FiniteSets

CONSTANTS Processes, SessionIds

ASSUME SessionAssumption == "none" \notin Processes

VARIABLES shared,    \* whether Redis is configured
          maker,     \* the process that created a session, or none
          inMemory,  \* process -> the sessions in its maps
          inRedis,   \* the sessions Redis has
          past,      \* the sessions whose ExpiresAt has come
          step,      \* process -> the request it is in
          dropped    \* sessions whose maker has answered DELETE, with every
                     \* Redis call answered (history)

sessionVars == <<shared, maker, inMemory, inRedis, past, step, dropped>>

AtRest == [op |-> "none", id |-> "none"]

SessionInit == /\ shared \in BOOLEAN
               /\ maker = [s \in SessionIds |-> "none"]
               /\ inMemory = [p \in Processes |-> {}]
               /\ inRedis = {}
               /\ past = {}
               /\ step = [p \in Processes |-> AtRest]
               /\ dropped = {}

Begins(p, op, s) == /\ step[p] = AtRest
                    /\ step' = [step EXCEPT ![p] = [op |-> op, id |-> s]]
Ends(p) == step' = [step EXCEPT ![p] = AtRest]

-----------------------------------------------------------------------------
\* GetMCPSession, GetWebSession.
Accepted(p, s) == /\ s \in inMemory[p] \cup (IF shared THEN inRedis ELSE {})
               /\ s \notin past

\* CreateMCPSession (initialize) and CreateWebSession (login): Redis first,
\* and a failure there is not noticed.
CreatePersist(p) == \E s \in SessionIds :
  /\ maker[s] = "none"
  /\ maker' = [maker EXCEPT ![s] = p]
  /\ Begins(p, "create", s)
  /\ inRedis' \in {inRedis, inRedis \cup (IF shared THEN {s} ELSE {})}
  /\ UNCHANGED <<shared, inMemory, past, dropped>>

CreateKeep(p) ==
  /\ step[p].op = "create"
  /\ inMemory' = [inMemory EXCEPT ![p] = @ \cup {step[p].id}]
  /\ Ends(p)
  /\ UNCHANGED <<shared, maker, inRedis, past, dropped>>

\* DELETE /mcp: a session that is found and the caller's is taken from the
\* memory of the process that serves the request ...
DeleteMCPSession(p) == \E s \in SessionIds :
  /\ Accepted(p, s)
  /\ Begins(p, "delete", s)
  /\ inMemory' = [inMemory EXCEPT ![p] = @ \ {s}]
  /\ UNCHANGED <<shared, maker, inRedis, past, dropped>>

\* DELETE forgets the memory of the process only.
RedisKeys_None(s) == {}

\* ... and then from Redis, by a scan for keys that contain its id.
RedisKeys(s) == {s}

DeleteScan(p) ==
  LET s == step[p].id IN
  /\ step[p].op = "delete"
  /\ inRedis' = inRedis \ RedisKeys(s)
  /\ dropped' = IF maker[s] = p THEN dropped \cup {s} ELSE dropped
  /\ Ends(p)
  /\ UNCHANGED <<shared, maker, inMemory, past>>

\* The scan or a Del fails or times out; the answer is 204 all the same.
DeleteScanFails(p) ==
  /\ step[p].op = "delete" /\ shared
  /\ Ends(p)
  /\ UNCHANGED <<shared, maker, inMemory, inRedis, past, dropped>>

\* The session's time is up; Redis drops the key at its TTL.
SessionTTL(s) ==
  /\ maker[s] # "none"
  /\ past' = past \cup {s}
  /\ inRedis' = inRedis \ {s}
  /\ UNCHANGED <<shared, maker, inMemory, step, dropped>>

EvictExpired(p) ==
  /\ inMemory' = [inMemory EXCEPT ![p] = @ \ past]
  /\ UNCHANGED <<shared, maker, inRedis, past, step, dropped>>

\* A restarted process has empty maps; without Redis its sessions are gone.
Restart(p) ==
  /\ inMemory' = [inMemory EXCEPT ![p] = {}]
  /\ Ends(p)
  /\ UNCHANGED <<shared, maker, inRedis, past, dropped>>

SessionNext ==
  \/ \E p \in Processes :
       \/ CreatePersist(p) \/ CreateKeep(p) \/ DeleteMCPSession(p)
       \/ DeleteScan(p) \/ DeleteScanFails(p) \/ EvictExpired(p) \/ Restart(p)
  \/ \E s \in SessionIds : SessionTTL(s)

SessionSpec == SessionInit /\ [][SessionNext]_sessionVars

-----------------------------------------------------------------------------
\* Once the process that made a session has answered its DELETE, and Redis
\* was there, no process accepts the session again (redis_store.go:75).
DroppedIsUnknown == \A s \in dropped, p \in Processes : ~Accepted(p, s)
=============================================================================
