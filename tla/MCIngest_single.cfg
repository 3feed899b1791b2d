CONSTANTS
  Docs = {d1, d2}
  Workers = {w1}
  Deleters = {x1}
  MaxAttempts = 2
  NChunks = 1
  Faults = {"error", "abort"}
SPECIFICATION FairSpec
CHECK_DEADLOCK FALSE
INVARIANT CompletedDeletePurges
PROPERTIES ReadyNeverFails IngestSettles
