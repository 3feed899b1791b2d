CONSTANTS
  Parts = {"scope", "queue", "bus", "schedule", "counter", "log", "git"}
  Calls = {c1, c2}
  Tickers = {w1}
  MaxConns = 2
  Requests <- GoodRequests
  Senders = {c1, c2}
  Takers = {t1, t2}
  MaxMessages = 3
  Producers = {c1, c2}
  Readers = {r1, r2}
  Consumers = {a}
  MaxEvents = 4
  Batch = 2
  Servers = {s1, s2}
  Waiters = {t1, t2}
  MaxFirings = 2
  Adjusters = {c1, c2}
  MaxValue = 2
  Rotators = {s1, s2}
  MaxEntries = 3
  Days = 2
  GitServers = {s1, s2}
  RefNames = {m, b}
  Main = m
  MaxCommits = 2
  MaxExecs = 4
SPECIFICATION FairSpec
CHECK_DEADLOCK FALSE
INVARIANTS PoolConserved SkippedOnlyLate CopyClaimedOnce SamplesInCommitOrder
           LogTerminates
PROPERTIES ScopesEnd ImplementsQueue DeletedWasStored
