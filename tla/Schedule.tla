------------------------------ MODULE Schedule ------------------------------
(***************************************************************************)
(* A schedule object (schedule.Service, schedule.Worker) with one entry.   *)
(* Every server process ticks: it selects what is due and, per entry,      *)
(* inserts a delivery row, moves next_run_at on, and appends the delivery  *)
(* to its own memory.  GET .../wait claims from the memory of the process  *)
(* it reaches and then from the table.  Without PostgreSQL the memory is   *)
(* all there is.                                                           *)
(***************************************************************************)
EXTENDS Naturals, Sequences, FiniteSets

CONSTANTS Servers, Waiters,
          MaxFirings   \* bound on the firings

ASSUME ScheduleAssumption == MaxFirings \in Nat

VARIABLES pooled,   \* whether there is a PostgreSQL pool
          due,      \* the places where next_run_at of the entry has come
          entry,    \* the places where the entry is set
          firings,  \* ticks that took the entry as due
          ticking,  \* server -> the firing its worker is in, and where
          queued,   \* server -> the deliveries in its memory
          pending,  \* the delivery rows nobody has claimed
          looked,   \* the waiters who have just found their memory empty
          claiming, \* waiter -> the row its open transaction claims, or 0
          rowClaims,    \* firing -> how often its row answered a waiter
          memoryClaims  \* firing -> how often its copy in memory did

scheduleVars == <<pooled, due, entry, firings, ticking, queued, pending,
                  looked, claiming, rowClaims, memoryClaims>>

NoTick == [at |-> "none", f |-> 0]

\* Where the entry may be: in schedule_entries, or, without a pool, in the
\* memory of each process.
InTable == "table"
EntryPlaces == IF pooled THEN {InTable} ELSE Servers

ScheduleInit == /\ pooled \in BOOLEAN
                /\ due = {} /\ entry = {} /\ firings = 0
                /\ ticking = [s \in Servers |-> NoTick]
                /\ queued = [s \in Servers |-> <<>>]
                /\ pending = {}
                /\ looked = {}
                /\ claiming = [w \in Waiters |-> 0]
                /\ rowClaims = [f \in 1 .. MaxFirings |-> 0]
                /\ memoryClaims = [f \in 1 .. MaxFirings |-> 0]

-----------------------------------------------------------------------------
\* Set puts next_run_at in the future; later the time comes.
SetEntry == \E p \in EntryPlaces :
  /\ entry' = entry \cup {p} /\ due' = due \ {p}
  /\ UNCHANGED <<pooled, firings, ticking, queued, pending, claiming,
                 looked, rowClaims, memoryClaims>>

TimeComes == \E p \in entry \ due :
  /\ due' = due \cup {p}
  /\ UNCHANGED <<pooled, entry, firings, ticking, queued, pending, claiming,
                 looked, rowClaims, memoryClaims>>

\* tick: the query, and then three statements whose errors are dropped.
TickSelect(s) ==
  /\ pooled /\ InTable \in due /\ ticking[s] = NoTick /\ firings < MaxFirings
  /\ firings' = firings + 1
  /\ ticking' = [ticking EXCEPT ![s] = [at |-> "insert", f |-> firings + 1]]
  /\ UNCHANGED <<pooled, due, entry, queued, pending, claiming,
                 looked, rowClaims, memoryClaims>>

TickInsert(s) ==
  /\ ticking[s].at = "insert"
  /\ pending' \in {pending, pending \cup {ticking[s].f}}
  /\ ticking' = [ticking EXCEPT ![s].at = "update"]
  /\ UNCHANGED <<pooled, due, entry, firings, queued, claiming,
                 looked, rowClaims, memoryClaims>>

TickUpdate(s) ==
  /\ ticking[s].at = "update"
  /\ due' \in {due, due \ {InTable}}
  /\ ticking' = [ticking EXCEPT ![s].at = "push"]
  /\ UNCHANGED <<pooled, entry, firings, queued, pending, claiming,
                 looked, rowClaims, memoryClaims>>

PushMemory(s) ==
  /\ ticking[s].at = "push"
  /\ queued' = [queued EXCEPT ![s] = Append(@, ticking[s].f)]
  /\ ticking' = [ticking EXCEPT ![s] = NoTick]
  /\ UNCHANGED <<pooled, due, entry, firings, pending, claiming,
                 looked, rowClaims, memoryClaims>>

\* Without a pool: one step under the mutex.
FireDueMemory(s) ==
  /\ ~pooled /\ s \in due /\ firings < MaxFirings
  /\ firings' = firings + 1
  /\ due' = due \ {s}
  /\ queued' = [queued EXCEPT ![s] = Append(@, firings + 1)]
  /\ UNCHANGED <<pooled, entry, ticking, pending, claiming,
                 looked, rowClaims, memoryClaims>>

\* A stopped process loses its memory and leaves its tick where it is.
StopServer(s) ==
  /\ queued' = [queued EXCEPT ![s] = <<>>]
  /\ ticking' = [ticking EXCEPT ![s] = NoTick]
  /\ entry' = entry \ {s} /\ due' = due \ {s}
  /\ UNCHANGED <<pooled, firings, pending, claiming, looked, rowClaims, memoryClaims>>

-----------------------------------------------------------------------------
\* One round of Wait: memory first ...
ClaimMemory(w) == \E s \in Servers :
  /\ claiming[w] = 0 /\ w \notin looked /\ queued[s] # <<>>
  /\ queued' = [queued EXCEPT ![s] = Tail(@)]
  /\ memoryClaims' = [memoryClaims EXCEPT ![Head(queued[s])] = @ + 1]
  /\ UNCHANGED <<pooled, due, entry, firings, ticking, pending, looked,
                 claiming, rowClaims>>

MemoryEmpty(w) == \E s \in Servers :
  /\ pooled /\ claiming[w] = 0 /\ w \notin looked /\ queued[s] = <<>>
  /\ looked' = looked \cup {w}
  /\ UNCHANGED <<pooled, due, entry, firings, ticking, queued, pending,
                 claiming, rowClaims, memoryClaims>>

\* A SELECT without FOR UPDATE SKIP LOCKED.
Claimable_NoLock == pending

\* The rows that FOR UPDATE SKIP LOCKED leaves to a waiter.
Claimable == {f \in pending : \A w \in Waiters : claiming[w] # f}

\* ... then, in a scope of its own, the table.  The row taken is the one with
\* the least created_at, a reading of some server's clock: it may be any.
Claim(w) == \E f \in Claimable :
  /\ w \in looked
  /\ claiming' = [claiming EXCEPT ![w] = f]
  /\ looked' = looked \ {w}
  /\ UNCHANGED <<pooled, due, entry, firings, ticking, queued, pending,
                 rowClaims, memoryClaims>>

\* No row is left, the scope does not open, or the time is up.
ClaimNothing(w) ==
  /\ w \in looked
  /\ looked' = looked \ {w}
  /\ UNCHANGED <<pooled, due, entry, firings, ticking, queued, pending,
                 claiming, rowClaims, memoryClaims>>

ClaimCommit(w) ==
  /\ claiming[w] # 0
  /\ pending' = pending \ {claiming[w]}
  /\ rowClaims' = [rowClaims EXCEPT ![claiming[w]] = @ + 1]
  /\ claiming' = [claiming EXCEPT ![w] = 0]
  /\ UNCHANGED <<pooled, due, entry, firings, ticking, queued, looked,
                 memoryClaims>>

\* Rolled back, or committed with the answer lost.
ClaimFails(w) ==
  /\ claiming[w] # 0
  /\ pending' \in {pending, pending \ {claiming[w]}}
  /\ claiming' = [claiming EXCEPT ![w] = 0]
  /\ UNCHANGED <<pooled, due, entry, firings, ticking, queued, looked,
                 rowClaims, memoryClaims>>

ScheduleNext ==
  \/ SetEntry \/ TimeComes
  \/ \E s \in Servers : \/ TickSelect(s) \/ TickInsert(s) \/ TickUpdate(s)
                        \/ PushMemory(s) \/ FireDueMemory(s) \/ StopServer(s)
  \/ \E w \in Waiters : \/ ClaimMemory(w) \/ MemoryEmpty(w) \/ Claim(w)
                        \/ ClaimNothing(w) \/ ClaimCommit(w) \/ ClaimFails(w)

ScheduleSpec == ScheduleInit /\ [][ScheduleNext]_scheduleVars

-----------------------------------------------------------------------------
\* However many waiters poll and whatever fails, neither the row of a firing
\* nor its copy in memory answers two of them; without PostgreSQL that is
\* the whole firing (service.go:168).
CopyClaimedOnce == \A f \in 1 .. MaxFirings :
  /\ rowClaims[f] <= 1 /\ memoryClaims[f] <= 1
  /\ ~pooled => rowClaims[f] = 0

\* "the next undelivered firing" (service.go:136): what one waiter was
\* answered with is delivered, and no other waiter gets it.
FiringGoesOnce == \A f \in 1 .. MaxFirings : rowClaims[f] + memoryClaims[f] <= 1
=============================================================================
