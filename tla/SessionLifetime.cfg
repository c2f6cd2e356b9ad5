SPECIFICATION Spec
CONSTANTS
  Grants = {g1}
  NoGrant = NoGrant
  Requests = {r1}
  Uses = {u1}
  Purposes = {"authorize", "device"}
  CodeTTL = 1
  AccessTTL = 1
  RefreshTTL = 1
  MaxTokens = 3
  MaxClock = 2
  MaxAborts = 0
SYMMETRY Symmetry
INVARIANTS
  LifetimeIsAbsolute
