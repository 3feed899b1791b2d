CONSTANTS
  Docs = {d1}
  Workers = {w1}
  Deleters = {x1}
  MaxAttempts = 2
  NChunks = 1
  Faults = {"crash"}
SPECIFICATION FairSpec
CHECK_DEADLOCK FALSE
PROPERTY IngestSettles
