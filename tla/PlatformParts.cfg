SPECIFICATION Spec
CHECK_DEADLOCK FALSE
CONSTANTS
  People = {p1}
  Products = {s1}
  Syncs = {c1, c2}
  MaxEdits = 3
  MaxSyncFaults = 1
  Services = {"s1", "s2", "s3"}
  Paths <- MCPaths
  NoPath = NoPath
  Inherited <- MCInherited
  Reserved = {"health", "auth", "oauth", ".well-known"}
  Visits = {v1}
  MaxOrders = 3
  MaxEdgeFaults = 1
  Shares = {k1, k2}
  Persons = {w1}
  NoPerson = NoPerson
  Always = Always
  Desks = {d1, d2}
  MaxTime = 1
  MaxTenants = 2
  Bridges = {b1, b2}
  NoBridge = NoBridge
  MaxTokens = 3
  Posts = {q1, q2}
  NoPost = NoPost
  TableLimit = 1
  IdleLimit = 0
  MaxStreams = 3
  MaxUptime = 1
  Slots = 2
  MaxLines = 6
INVARIANTS
  TypesOK
  ForwardsAreLawful
  RoutingIsUnambiguous
  ConflictsAreReal
  RefreshesAreUsable
  StreamsAreAccountedFor
  WireOrder
PROPERTIES
  ManualGrantsSurvive
  GrantsConverge
  RoutedCatalogReachesEdge
  ImplementsSharing
  LogoutIsFinal
  AnswersGetThrough
