CONSTANTS
  k1 = k1
  k2 = k2
  Keys = {k1, k2}
  Names <- AgentNames
  NoName = NoName
  NoCall = NoCall
  Backend = "postgres"
  Documents <- ReviewDocs
  Nonces = {n1, n2}
  Putters = {u1}
  Publishers = {p1, p2}
  Attesters = {a1, a2}
  Consumers = {c1, c2}
  MaxMsgs = 1
  PageFactor = 1
  Asks <- NamedAsks
  Allowed = {"abort"}
SPECIFICATION Spec
CHECK_DEADLOCK FALSE
CONSTRAINT TwoReviewsOrConsume
SYMMETRY Symmetry
INVARIANTS DeliveredOnce NonceUnique  LiveOverlap ApprovalsReal
