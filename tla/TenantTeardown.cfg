SPECIFICATION FairSpec
CONSTANTS
  Reconcilers = {r1}
  Uuids = {u1, u2, u3}
  URLs = {}
  None = None
  Builtin = TRUE
  Template = TRUE
  RequeueAfter = 2
  MaxOps = 3
  MaxFaults = 2
PROPERTIES
  DeletionsComplete
  SuspensionStopsCompute
