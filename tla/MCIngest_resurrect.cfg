CONSTANTS
  Docs = {d1}
  Workers = {w1}
  Deleters = {x1}
  MaxAttempts = 1
  NChunks = 1
  Faults = {}
SPECIFICATION Spec
CHECK_DEADLOCK FALSE
INVARIANT DeletedStaysDeleted
