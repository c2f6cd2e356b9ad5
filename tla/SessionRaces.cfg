SPECIFICATION Spec
CONSTANTS
  Grants = {g1}
  NoGrant = NoGrant
  Requests = {r1, r2}
  Uses = {}
  Purposes = {"authorize", "device", "mint"}
  CodeTTL = 0
  AccessTTL = 0
  RefreshTTL = 1
  MaxTokens = 3
  MaxClock = 1
  MaxAborts = 1
SYMMETRY Symmetry
INVARIANTS
  TypeOK
  SessionsSurviveRaces
PROPERTIES
  ImplementsChain
  DeletedStaysDeleted
