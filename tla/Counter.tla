------------------------------ MODULE Counter ------------------------------
(***************************************************************************)
(* A counter object (counter.Service): the row of counter_meta and, when   *)
(* Redis is configured, a time series that Get answers from.  Set and      *)
(* adjust write the row, add a sample and then commit.                     *)
(***************************************************************************)
EXTENDS Integers, FiniteSets

CONSTANTS Adjusters, MaxValue   \* callers; bound on the values

ASSUME CounterAssumption == MaxValue \in Nat

VARIABLES inTable,  \* whether there is a row, or a value in memory
          hasTS,  \* whether there is a time series
          meta,     \* the committed value of the row, or the value in memory
          sample,   \* the last sample of the series, if it has any
          change,   \* caller -> the change it is in
          failedTS  \* whether a statement, sample or commit has failed

counterVars == <<inTable, hasTS, meta, sample, change, failedTS>>

NoChange == [op |-> "none", at |-> "none", value |-> 0]

CounterInit == /\ inTable \in BOOLEAN /\ hasTS \in BOOLEAN
               /\ meta = 0 /\ sample = {}
               /\ change = [c \in Adjusters |-> NoChange]
               /\ failedTS = FALSE

Begins(c, op, value) ==
  /\ change[c] = NoChange
  /\ change' = [change EXCEPT ![c] = [op |-> op, at |-> "write", value |-> value]]
Moves(c, at) == change' = [change EXCEPT ![c].at = at]
Values == (-MaxValue) .. MaxValue

-----------------------------------------------------------------------------
SetStart(c) == \E v \in Values :
  /\ Begins(c, "set", v)
  /\ UNCHANGED <<inTable, hasTS, meta, sample, failedTS>>

\* adjust reads the row without locking it; a missing delta is one.
adjust(c) == \E delta \in {-1, 1} :
  /\ meta + delta \in Values
  /\ Begins(c, "adjust", meta + delta)
  /\ UNCHANGED <<inTable, hasTS, meta, sample, failedTS>>

\* The value is written outside the transaction.
RowLocked_Never == FALSE

\* The row is locked from its upsert to the end of the transaction.
RowLocked == \E c \in Adjusters : change[c].at \in {"sample", "commit"}

writeMeta(c) ==
  /\ change[c].at = "write"
  /\ IF inTable THEN ~RowLocked /\ UNCHANGED meta ELSE meta' = change[c].value
  /\ Moves(c, IF hasTS THEN "sample" ELSE "commit")
  /\ UNCHANGED <<inTable, hasTS, sample, failedTS>>

\* TS.ADD comes before the commit.
AddSample(c) ==
  /\ change[c].at = "sample"
  /\ sample' = {change[c].value}
  /\ Moves(c, "commit")
  /\ UNCHANGED <<inTable, hasTS, meta, failedTS>>

\* Without it Set rolls back and adjust goes on.
AddSampleFails(c) ==
  /\ change[c].at = "sample"
  /\ IF change[c].op = "set" THEN change' = [change EXCEPT ![c] = NoChange]
     ELSE Moves(c, "commit")
  /\ failedTS' = TRUE
  /\ UNCHANGED <<inTable, hasTS, meta, sample>>

\* Without Redis the value is put in memory again before the commit; that is
\* the counter when there is no table, and nobody reads it when there is.
CommitChange(c) ==
  /\ change[c].at = "commit"
  /\ meta' = IF inTable \/ ~hasTS THEN change[c].value ELSE meta
  /\ change' = [change EXCEPT ![c] = NoChange]
  /\ UNCHANGED <<inTable, hasTS, sample, failedTS>>

ChangeFails(c) ==
  /\ change[c].at \in {"write", "commit"} /\ inTable
  /\ change' = [change EXCEPT ![c] = NoChange]
  /\ failedTS' = TRUE
  /\ UNCHANGED <<inTable, hasTS, meta, sample>>

\* What Get answers: the last sample or, when there is none, the row.
GetCounter == IF sample # {} THEN CHOOSE v \in sample : TRUE ELSE meta

CounterNext == \E c \in Adjusters :
  \/ SetStart(c) \/ adjust(c) \/ writeMeta(c) \/ AddSample(c)
  \/ AddSampleFails(c) \/ CommitChange(c) \/ ChangeFails(c)

CounterSpec == CounterInit /\ [][CounterNext]_counterVars

-----------------------------------------------------------------------------
\* Samples are added while the row is locked, in the order of the commits:
\* when nothing is under way and nothing has failed, Get, which asks the
\* series, answers the committed value (service.go:98).  The value in memory
\* has no such lock.
SamplesInCommitOrder ==
  /\ inTable /\ ~failedTS
  /\ \A c \in Adjusters : change[c].at \notin {"sample", "commit"}
  => GetCounter = meta
=============================================================================
