CONSTANTS
  k1 = k1
  k2 = k2
  Keys = {k1, k2}
  Names <- AgentNames
  NoName = NoName
  NoCall = NoCall
  Backend = "postgres"
  Documents <- RotationDocs
  Nonces = {n1}
  Putters = {u1, u2, u3}
  Publishers = {p1}
  Attesters = {}
  Consumers = {}
  MaxMsgs = 1
  PageFactor = 5
  Asks <- NoFilter
  Allowed = {"age", "revoke", "abort", "flaw"}
SPECIFICATION Spec
CHECK_DEADLOCK FALSE
SYMMETRY Symmetry
INVARIANT PublishedUnderPolicy
PROPERTY VersionsKept
