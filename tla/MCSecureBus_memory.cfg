CONSTANTS
  k1 = k1
  k2 = k2
  Keys = {k1, k2}
  Names <- AgentNames
  NoName = NoName
  NoCall = NoCall
  Backend = "memory"
  Documents <- ChainDocs
  Nonces = {n1}
  Putters = {u1}
  Publishers = {p1, p2}
  Attesters = {a1, a2}
  Consumers = {c1}
  MaxMsgs = 1
  PageFactor = 5
  Asks <- SameFilter
  Allowed = {}
SPECIFICATION Spec
CHECK_DEADLOCK FALSE
SYMMETRY Symmetry
INVARIANTS TypeOK NothingSkipped
