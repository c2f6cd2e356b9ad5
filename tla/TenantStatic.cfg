SPECIFICATION FairSpec
CONSTANTS
  Reconcilers = {r1, r2}
  Uuids = {u1}
  URLs = {a, b}
  None = None
  Builtin = FALSE
  Template = FALSE
  RequeueAfter = 2
  MaxOps = 2
  MaxFaults = 1
INVARIANT
  NobodyWaitsInVain
PROPERTY
  EnabledBecomesReady
