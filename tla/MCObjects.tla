----------------------------- MODULE MCObjects -----------------------------
(***************************************************************************)
(* Small instances of the data-plane components for TLC.  A behaviour is   *)
(* about one part, chosen in its first state; the variables of the others  *)
(* keep their first values.                                                *)
(***************************************************************************)
EXTENDS Scope, Queue, Bus, Schedule, Counter, LogStore, GitStore

CONSTANT Parts   \* the parts to explore

VARIABLE part

Request(api, kind, method, obj, args) ==
  [api |-> api, kind |-> kind, method |-> method, obj |-> obj, args |-> args]

\* Requests whose scope every service ends.
GoodRequests == {Request("http", "variable", "set", "counter", TRUE),
                 Request("http", "storage", "get", "storage", TRUE),
                 Request("http", "bus", "subscribe", "bus", TRUE),
                 Request("mcp", "table", "query", "table", TRUE),
                 Request("mcp", "log", "add", "log", TRUE),
                 Request("mcp", "git", "log", "table", TRUE),
                 Request("mcp", "securebus", "verify", "securebus", TRUE),
                 Request("http", "securebus", "publish", "securebus", TRUE),
                 Request("wait", "schedule", "get", "schedule", TRUE)}

ASSUME GoodAssumption == \A r \in GoodRequests : Answerable(r)

\* The same, with a set whose key is missing, a broker that is not configured
\* and a tool called with an object of another kind.
AllRequests == GoodRequests
                 \cup {Request("http", "variable", "set", "variable", FALSE),
                       Request("http", "queue", "size", "queue", FALSE),
                       Request("mcp", "variable", "get", "counter", TRUE)}

vars == <<part, scopeVars, queueVars, busVars, scheduleVars, counterVars,
          logVars, gitVars>>

Init == /\ part \in Parts
        /\ ScopeInit /\ LogInit
        /\ QueueInit /\ (part # "queue" => backend = "memory")
        /\ BusInit /\ (part # "bus" => ~busInDB)
        /\ ScheduleInit /\ (part # "schedule" => ~pooled)
        /\ CounterInit /\ (part # "counter" => ~inTable /\ ~hasTS)
        /\ GitInit /\ (part # "git" => ~hasBlob)

ScopePart == /\ part = "scope" /\ ScopeNext
             /\ UNCHANGED <<part, queueVars, busVars, scheduleVars,
                            counterVars, logVars, gitVars>>
QueuePart == /\ part = "queue" /\ QueueNext
             /\ UNCHANGED <<part, scopeVars, busVars, scheduleVars,
                            counterVars, logVars, gitVars>>
BusPart == /\ part = "bus" /\ BusNext
           /\ UNCHANGED <<part, scopeVars, queueVars, scheduleVars,
                          counterVars, logVars, gitVars>>
SchedulePart == /\ part = "schedule" /\ ScheduleNext
                /\ UNCHANGED <<part, scopeVars, queueVars, busVars,
                               counterVars, logVars, gitVars>>
CounterPart == /\ part = "counter" /\ CounterNext
               /\ UNCHANGED <<part, scopeVars, queueVars, busVars,
                              scheduleVars, logVars, gitVars>>
LogPart == /\ part = "log" /\ LogNext
           /\ UNCHANGED <<part, scopeVars, queueVars, busVars, scheduleVars,
                          counterVars, gitVars>>
GitPart == /\ part = "git" /\ GitNext
           /\ UNCHANGED <<part, scopeVars, queueVars, busVars, scheduleVars,
                          counterVars, logVars>>

Next == \/ ScopePart \/ QueuePart \/ BusPart \/ SchedulePart \/ CounterPart
        \/ LogPart \/ GitPart

Spec == Init /\ [][Next]_vars
FairSpec == Spec /\ ScopeFairness
=============================================================================
