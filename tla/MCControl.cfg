CONSTANTS
  Parts = {"oauth", "access", "accounts", "proxy", "keys", "session", "usage"}
  p1 = p1
  i1 = i1
  q1 = q1
  b1 = b1
  Handlers = {c1, c2}
  Logins = {l1}
  Clients = {app}
  Redirects = {r1, r2}
  Verifiers = {v1}
  Subjects = {s1}
  AllowedRedirects = {r1, r2}
  MaxCodes = 2
  MaxTokens = 2
  People = {p1, p2}
  Admins = {p2}
  Team = {p1}
  Ids = {i1, i2}
  Settled <- SettledStorage
  TokenIds = {t1, t2}
  Callers = {c1, c2}
  Kinds = {"table"}
  Grantees = {"team"}
  GrantRoles = {"reader"}
  Allowlists <- AnyOrRead
  MaxRequests = 3
  Users = {u1}
  Chief = u2
  Passwords = {w1, w2}
  Groups = {g1}
  Visitors = {c1, c2}
  Upstreams = {up}
  Managers = {m1}
  Operators = {m1}
  Workers = {c1, c2}
  Urls = {url}
  Secrets = {}
  CapKinds <- TwoKinds
  MaxWork = 4
  Nonces = {n1, n2}
  Binders = {b1, b2}
  Cut <- CutAtBar
  Posts = {c1, c2}
  Processes = {o1, o2}
  SessionIds = {e1, e2}
  Reqs = {q1, q2, q3}
  Windows <- TwoWindows
  Span <- Spans
  Limit <- Limits
  Targets <- Named
  MaxClock = 1
  MaxSeries = 6
SYMMETRY Symmetry
SPECIFICATION Spec
CHECK_DEADLOCK FALSE
INVARIANTS GrantOnce OneLivePerCode CodesAsAsked
           AllowedIsListed RotatedWithin OnePersonal LastPasswordOnly
           EnabledWasApproved ChallengeOnce DroppedIsUnknown
           AdmittedWithinLimit UncountedOnlyWhenFull
PROPERTY RevokedStays
