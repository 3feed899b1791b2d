CONSTANTS
  Docs = {d1}
  Workers = {w1, w2}
  Deleters = {x1, x2}
  MaxAttempts = 2
  NChunks = 2
  Faults = {"error", "crash", "abort", "mark", "terminal"}
SPECIFICATION Spec
CHECK_DEADLOCK FALSE
SYMMETRY Symmetry
INVARIANTS TypeOK ExclusiveClaim OneActiveJob ReadyIsIndexed
PROPERTY ImplementsJobQueue
