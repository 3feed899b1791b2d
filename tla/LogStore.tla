------------------------------ MODULE LogStore ------------------------------
(***************************************************************************)
(* A log object (logstore.Service, logstore.Worker) in PostgreSQL: entries *)
(* are rows; every server's worker selects the rows past the cutoff, puts  *)
(* them into one blob per day and deletes them.                            *)
(***************************************************************************)
EXTENDS Naturals, FiniteSets

CONSTANTS Rotators,         \* the workers of the server processes
          MaxEntries, Days  \* bounds: entries, and days 1 .. Days

ASSUME LogAssumption == MaxEntries \in Nat /\ Days \in Nat

VARIABLES added,    \* entry -> the day it was created, 0 if it was not
          open,     \* the entries whose transaction has not committed
          hot,      \* the rows of the table
          today,
          archive,  \* day -> the entries in its blob
          rotating, \* worker -> what it found and which days it has to put
          stored    \* the entries that were ever put into a blob (history)

logVars == <<added, open, hot, today, archive, rotating, stored>>

Entries == 1 .. MaxEntries
NoRotation == [at |-> "none", found |-> {}, days |-> {}]

LogInit == /\ added = [e \in Entries |-> 0]
           /\ open = {} /\ hot = {} /\ today = 1
           /\ archive = [d \in 1 .. Days |-> {}]
           /\ rotating = [w \in Rotators |-> NoRotation]
           /\ stored = {}

-----------------------------------------------------------------------------
\* Add: created_at is taken before the transaction commits.
AddInsert == \E e \in Entries :
  /\ added[e] = 0 /\ \A f \in Entries : f < e => added[f] # 0
  /\ added' = [added EXCEPT ![e] = today]
  /\ open' = open \cup {e}
  /\ UNCHANGED <<hot, today, archive, rotating, stored>>

AddEnds == \E e \in open :
  /\ open' = open \ {e}
  /\ hot' \in {hot, hot \cup {e}}
  /\ UNCHANGED <<added, today, archive, rotating, stored>>

NextDay == /\ today < Days
           /\ today' = today + 1
           /\ UNCHANGED <<added, open, hot, archive, rotating, stored>>

\* rotate_after may be any duration, so that the cutoff may come within a
\* day: any old part of the rows.
Older(cut) == {e \in hot : e <= cut}

RotateSelect(w) == \E cut \in Entries :
  /\ rotating[w] = NoRotation /\ Older(cut) # {}
  /\ rotating' = [rotating EXCEPT ![w] =
       [at |-> "put", found |-> Older(cut),
        days |-> {added[e] : e \in Older(cut)}]]
  /\ UNCHANGED <<added, open, hot, today, archive, stored>>

\* The blob of a day is replaced by what was found of that day.
RotatePut(w) == \E d \in rotating[w].days :
  LET list == {e \in rotating[w].found : added[e] = d} IN
  /\ archive' = [archive EXCEPT ![d] = list]
  /\ stored' = stored \cup list
  /\ rotating' = [rotating EXCEPT ![w].days = @ \ {d}]
  /\ UNCHANGED <<added, open, hot, today>>

\* DELETE by time instead of by the ids that were found.
Rotated_ByCutoff(w) == {e \in hot : \E f \in rotating[w].found : e <= f}

\* The rows that go are the ones that were found, by their ids.
Rotated(w) == rotating[w].found

RotateDelete(w) ==
  /\ rotating[w].at = "put" /\ rotating[w].days = {}
  /\ hot' = hot \ Rotated(w)
  /\ rotating' = [rotating EXCEPT ![w] = NoRotation]
  /\ UNCHANGED <<added, open, today, archive, stored>>

\* A statement or a Put fails, or the process stops.
RotateFails(w) ==
  /\ rotating[w] # NoRotation
  /\ rotating' = [rotating EXCEPT ![w] = NoRotation]
  /\ UNCHANGED <<added, open, hot, today, archive, stored>>

LogNext == \/ AddInsert \/ AddEnds \/ NextDay
           \/ \E w \in Rotators : \/ RotateSelect(w) \/ RotatePut(w)
                                  \/ RotateDelete(w) \/ RotateFails(w)

LogSpec == LogInit /\ [][LogNext]_logVars

-----------------------------------------------------------------------------
\* A row leaves the table only after it was put into a blob, although rows
\* with an old created_at commit while a rotation is under way
\* (service.go:136).
DeletedWasStored == [][hot \ hot' \subseteq stored]_logVars
=============================================================================
